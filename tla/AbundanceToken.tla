--------------------------- MODULE AbundanceToken ---------------------------
(***************************************************************************)
(* The Abundance token (contracts/abundance/src): anyone mints to           *)
(* themselves, holders transfer and burn, and spenders do so for an owner   *)
(* within an allowance that ends with a ledger the owner chose.             *)
(*                                                                          *)
(* An allowance is a temporary entry: the host deletes it when its own      *)
(* lifetime ends, which write_allowance extends up to the allowance's last  *)
(* ledger.  A call that traps is undone by the host, so it is no step.      *)
(***************************************************************************)
EXTENDS TokenLedger, Storage, FiniteSets

CONSTANTS
  Users,           \* the addresses that use the token
  Owners, Spenders, \* those among them that grant and that use allowances
  NoAdmin,         \* initialize has not been called
  Nobody,          \* the signer of what needs no signature
  MintAmounts, SpendAmounts, GrantAmounts, Expirations, Decimals,
  I128_MAX, U8_MAX,
  MIN_TEMP_TTL,    \* ledgers the host keeps a new temporary entry
  MaxLedger        \* the last ledger sequence number (u32::MAX)

Ledgers == 0 .. MaxLedger

AllowanceValue == [amount : 0 .. I128_MAX, expiration_ledger : Ledgers]

VARIABLES
  tokenAdmin, decimal,   \* instance storage
  tokenBalances,         \* persistent storage, read with a default of 0
  allowances,            \* temporary storage, by <<from, spender>>
  liveUntil,             \* the last ledger of each temporary entry
  now,
  supply,                \* the mint events less the burn events
  grantedUntil,          \* the expiration_ledger of each pair's last approve event
  signer                 \* the address that require_auth asked in the last call

adminVars     == <<tokenAdmin, decimal>>
allowanceVars == <<allowances, liveUntil, grantedUntil>>
vars == <<adminVars, tokenBalances, allowanceVars, now, supply, signer>>

ASSUME TokenAssumption ==
  /\ IsFiniteSet(Users)
  /\ NoAdmin \notin Users /\ Nobody \notin Users
  /\ Owners \subseteq Users /\ Spenders \subseteq Users
  /\ MintAmounts \subseteq Int /\ SpendAmounts \subseteq Int /\ GrantAmounts \subseteq Int
  /\ Expirations \subseteq Ledgers
  /\ I128_MAX \in Nat /\ U8_MAX \in Nat /\ Decimals \subseteq Nat
  /\ \A amount \in GrantAmounts : amount <= I128_MAX
  /\ MIN_TEMP_TTL \in Nat /\ MaxLedger \in Nat

-----------------------------------------------------------------------------
(***************************************************************************)
(* Storage of allowances                                                    *)
(***************************************************************************)

\* temporary().get(key) returns Some.
Present(pair) == pair \in DOMAIN allowances /\ now <= liveUntil[pair]

NoAllowance == [amount |-> 0, expiration_ledger |-> 0]

ReadAllowance(pair) ==
  IF ~Present(pair) THEN NoAllowance
  ELSE IF allowances[pair].expiration_ledger < now
    THEN [allowances[pair] EXCEPT !.amount = 0]
    ELSE allowances[pair]

\* Deviation: the entry is left with the lifetime the host gave it.
NoExtension(pair, amount, until, expiration) == until

\* bump(key, live_for, live_for), for an allowance that is not 0
Extended(pair, amount, until, expiration) ==
  LET live_for == expiration - now
  IN  IF amount > 0 /\ until - now < live_for THEN now + live_for ELSE until

WriteAllowance(pair, amount, expiration) ==
  LET until == IF Present(pair) THEN liveUntil[pair] ELSE now + MIN_TEMP_TTL
  IN  /\ amount > 0 => expiration >= now
      /\ allowances' = Put(allowances, pair,
           [amount |-> amount, expiration_ledger |-> expiration])
      /\ liveUntil' = Put(liveUntil, pair, Extended(pair, amount, until, expiration))

\* Deviation: what is left lasts until the end of time.
SpendAllowanceAfresh(pair, amount) ==
  LET allowance == ReadAllowance(pair)
  IN  /\ allowance.amount >= amount
      /\ WriteAllowance(pair, allowance.amount - amount, MaxLedger)
      /\ UNCHANGED grantedUntil

\* Deviation: what is spent is compared with the allowance and not deducted.
SpendAllowanceUnwritten(pair, amount) ==
  /\ ReadAllowance(pair).amount >= amount
  /\ UNCHANGED allowanceVars

SpendAllowance(pair, amount) ==
  LET allowance == ReadAllowance(pair)
  IN  /\ allowance.amount >= amount
      /\ WriteAllowance(pair, allowance.amount - amount, allowance.expiration_ledger)
      /\ UNCHANGED grantedUntil

-----------------------------------------------------------------------------
(***************************************************************************)
(* Entry points                                                             *)
(***************************************************************************)

\* Deviation: a balance may pass i128::MAX.
ReceiveAnything(account, amount) == TRUE

\* receive_balance does not trap; in release builds an overflow does.
CanReceive(account, amount) == tokenBalances[account] + amount <= I128_MAX

MovedBalances(from, to, amount) == Transfer(tokenBalances, from, to, amount)

MoveBalance(from, to, amount) ==
  /\ CanTransfer(tokenBalances, from, amount)
  /\ from # to => CanReceive(to, amount)
  /\ tokenBalances' = MovedBalances(from, to, amount)
  /\ UNCHANGED supply

BurnBalance(from, amount) ==
  /\ CanTransfer(tokenBalances, from, amount)
  /\ tokenBalances' = [tokenBalances EXCEPT ![from] = @ - amount]
  /\ supply' = supply - amount

\* Anyone may call it, once.
TokenInitialize(caller, decimals) ==
  /\ tokenAdmin = NoAdmin
  /\ decimals <= U8_MAX
  /\ signer' = Nobody
  /\ tokenAdmin' = caller
  /\ decimal' = decimals
  /\ UNCHANGED <<tokenBalances, allowanceVars, now, supply>>

SetAdmin(caller, account) ==
  /\ caller = tokenAdmin /\ signer' = caller
  /\ tokenAdmin' = account
  /\ UNCHANGED decimal
  /\ UNCHANGED <<tokenBalances, allowanceVars, now, supply>>

\* `to' signs: everyone mints, to themselves only.
Mint(to, amount) ==
  /\ signer' = to
  /\ amount >= 0
  /\ CanReceive(to, amount)
  /\ tokenBalances' = [tokenBalances EXCEPT ![to] = @ + amount]
  /\ supply' = supply + amount
  /\ UNCHANGED <<adminVars, allowanceVars, now>>

Approve(from, spender, amount, expiration) ==
  /\ signer' = from
  /\ amount >= 0
  /\ WriteAllowance(<<from, spender>>, amount, expiration)
  /\ grantedUntil' = [grantedUntil EXCEPT ![<<from, spender>>] = expiration]
  /\ UNCHANGED <<adminVars, tokenBalances, now, supply>>

TokenTransfer(from, to, amount) ==
  /\ signer' = from
  /\ MoveBalance(from, to, amount)
  /\ UNCHANGED <<adminVars, allowanceVars, now>>

TransferFrom(spender, from, to, amount) ==
  /\ signer' = spender
  /\ amount >= 0
  /\ SpendAllowance(<<from, spender>>, amount)
  /\ MoveBalance(from, to, amount)
  /\ UNCHANGED <<adminVars, now>>

Burn(from, amount) ==
  /\ signer' = from
  /\ BurnBalance(from, amount)
  /\ UNCHANGED <<adminVars, allowanceVars, now>>

BurnFrom(spender, from, amount) ==
  /\ signer' = spender
  /\ amount >= 0
  /\ SpendAllowance(<<from, spender>>, amount)
  /\ BurnBalance(from, amount)
  /\ UNCHANGED <<adminVars, now>>

\* A ledger closes.
CloseLedger ==
  /\ now < MaxLedger
  /\ now' = now + 1
  /\ signer' = Nobody
  /\ UNCHANGED <<adminVars, tokenBalances, allowanceVars, supply>>

-----------------------------------------------------------------------------
Init ==
  /\ tokenAdmin = NoAdmin
  /\ decimal = 0
  /\ tokenBalances = [user \in Users |-> 0]
  /\ allowances = EmptyStore
  /\ liveUntil = EmptyStore
  /\ now = 0
  /\ supply = 0
  /\ grantedUntil = [pair \in Users \X Users |-> 0]
  /\ signer = Nobody

AdminCall ==
  \E caller \in Users :
    \/ \E decimals \in Decimals : TokenInitialize(caller, decimals)
    \/ \E account \in Users : SetAdmin(caller, account)

HolderCall ==
  \E user \in Users :
    \/ \E amount \in MintAmounts : Mint(user, amount)
    \/ \E amount \in SpendAmounts :
         \/ Burn(user, amount)
         \/ \E to \in Users : TokenTransfer(user, to, amount)

AllowanceCall ==
  \E from \in Owners, spender \in Spenders :
    \/ \E amount \in GrantAmounts, expiration \in Expirations :
         Approve(from, spender, amount, expiration)
    \/ \E amount \in SpendAmounts :
         \/ BurnFrom(spender, from, amount)
         \/ \E to \in Users : TransferFrom(spender, from, to, amount)

Next == AdminCall \/ HolderCall \/ AllowanceCall \/ CloseLedger

Spec == Init /\ [][Next]_vars

-----------------------------------------------------------------------------
\* Every variable has its type.
TypeOK ==
  /\ tokenAdmin \in Users \union {NoAdmin}
  /\ decimal \in 0 .. U8_MAX
  /\ tokenBalances \in [Users -> 0 .. I128_MAX]
  /\ IsStore(allowances, Users \X Users, AllowanceValue)
  /\ IsStore(liveUntil, DOMAIN allowances, Nat)
  /\ DOMAIN liveUntil = DOMAIN allowances
  /\ now \in Ledgers
  /\ supply \in Nat
  /\ grantedUntil \in [Users \X Users -> Ledgers]
  /\ signer \in Users \union {Nobody}

(***************************************************************************)
(* A spender can count on what was granted: an allowance with something     *)
(* left is still there in its last ledger, however it was spent and granted *)
(* again meanwhile.  The host deletes the entry by a clock of its own, which *)
(* write_allowance only moves when there is something left to spend.        *)
(***************************************************************************)
AllowanceLasts ==
  \A pair \in DOMAIN allowances :
    allowances[pair].amount > 0 /\ now <= allowances[pair].expiration_ledger
      => Present(pair)

(***************************************************************************)
(* Nobody spends after the ledger the owner named last, although every      *)
(* spend writes the whole allowance again (spend_allowance).                *)
(***************************************************************************)
NothingAfterExpiry ==
  \A pair \in DOMAIN allowances :
    ReadAllowance(pair).amount > 0 => now <= grantedUntil[pair]

(***************************************************************************)
(* The contract keeps the promise of FungibleLedger: supply is conserved, a *)
(* transfer to oneself included, and no owner's tokens move or burn without *)
(* its signature or an equal draw on a budget it signed for the spender who *)
(* signs (require_auth, spend_allowance and both balances agree).           *)
(***************************************************************************)
Ledger == INSTANCE FungibleLedger WITH
            Holders  <- Users,
            holdings <- tokenBalances,
            budget   <- [owner \in Users |-> [spender \in Users |->
                          ReadAllowance(<<owner, spender>>).amount]]

ImplementsLedger == Ledger!LedgerSpec
=============================================================================
