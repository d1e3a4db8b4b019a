------------------------------ MODULE MockToken ------------------------------
(***************************************************************************)
(* The mock token (contracts/mock-token/src/lib.rs), the token the other    *)
(* contracts are tested with: one administrator mints, holders transfer,    *)
(* and nobody burns or approves.  Its transfer is TokenLedger's.  It has no *)
(* clock; the contract that uses it extends this module and calls it.       *)
(***************************************************************************)
EXTENDS TokenLedger

CONSTANTS
  Accounts,      \* the addresses that hold tokens
  NoAdmin,       \* initialize has not been called
  MintAmounts,   \* amounts offered to mint
  MaxSupply      \* the most that is minted; within i128, so no balance overflows

VARIABLES
  tokenAdmin,  \* instance storage
  balances,    \* persistent storage, read with a default of 0
  supply       \* what the calls of mint add up to

tokenVars == <<tokenAdmin, balances, supply>>

ASSUME MockAssumption ==
  /\ NoAdmin \notin Accounts
  /\ MintAmounts \subseteq Int
  /\ MaxSupply \in Nat

TokenInit ==
  /\ tokenAdmin = NoAdmin
  /\ balances = [account \in Accounts |-> 0]
  /\ supply = 0

MockInitialize(caller) ==
  /\ tokenAdmin = NoAdmin
  /\ tokenAdmin' = caller
  /\ UNCHANGED <<balances, supply>>

MockMint(caller, to, amount) ==
  /\ caller = tokenAdmin
  /\ amount >= 0
  /\ supply + amount <= MaxSupply
  /\ balances' = [balances EXCEPT ![to] = @ + amount]
  /\ supply' = supply + amount
  /\ UNCHANGED tokenAdmin

\* Deviation: both balances are read before either is written.
BothReadFirst(from, to, amount) ==
  [balances EXCEPT ![from] = balances[from] - amount,
                   ![to] = balances[to] + amount]

Moved(from, to, amount) == Transfer(balances, from, to, amount)

MockTransfer(from, to, amount) ==
  /\ CanTransfer(balances, from, amount)
  /\ balances' = Moved(from, to, amount)
  /\ UNCHANGED <<tokenAdmin, supply>>

-----------------------------------------------------------------------------
(***************************************************************************)
(* The token keeps the promise of ConservedSupply: what is minted is moved, *)
(* never copied or lost, whoever calls transfer and whoever the two ends    *)
(* are.                                                                     *)
(***************************************************************************)
Conserved == INSTANCE ConservedSupply WITH Holders <- Accounts, holdings <- balances

TokensConserved == Conserved!SupplySpec
=============================================================================
