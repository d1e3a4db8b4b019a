------------------------------ MODULE Crowdfund ------------------------------
(***************************************************************************)
(* The crowdfund contract (contracts/crowdfund/src/lib.rs): donors deposit  *)
(* until a deadline; then either the target is met and the recipient takes  *)
(* everything, or each donor takes back what the contract booked.           *)
(*                                                                          *)
(* Which of the two holds is not stored: get_state derives it from the      *)
(* clock, the claimed flag and the live token balance, which anybody can    *)
(* raise by a transfer of tokens and their administrator by minting.  The   *)
(* token is the mock token, whose calls interleave with the sale's.         *)
(*                                                                          *)
(* All the contract stores is its instance entry, which it never extends:   *)
(* the host archives it when its lifetime ends, every call traps, and the   *)
(* entry has to be restored before the sale can go on.  A call that traps   *)
(* is undone by the host, so it is no step.                                 *)
(***************************************************************************)
EXTENDS MockToken, FiniteSets, Functions

CONSTANTS
  Fund,           \* the address of the crowdfund contract
  Unset,          \* initialize has not been called
  Operators,      \* the accounts that may initialize the token
  Recipients, Donors, Deadlines, Targets,
  DepositAmounts, \* amounts offered to deposit
  GiftAmounts,    \* amounts of transfers made outside the sale
  MaxTime         \* the last ledger timestamp (u64::MAX)

VARIABLES
  recipient, deadline, target, recipientClaimed,  \* instance storage
  userDeposited,   \* instance storage, by user, read with a default of 0
  archived,        \* the lifetime of the instance entry has ended
  time,            \* the ledger timestamp
  pledged          \* what each user paid in by deposit less what withdraw repaid

setupVars == <<recipient, deadline, target>>
saleVars  == <<setupVars, recipientClaimed, userDeposited, pledged>>
vars == <<tokenVars, saleVars, archived, time>>

ASSUME CrowdfundAssumption ==
  /\ IsFiniteSet(Accounts)
  /\ Fund \in Accounts
  /\ Unset \notin Accounts
  /\ Operators \subseteq Accounts /\ Recipients \subseteq Accounts
  /\ Donors \subseteq Accounts \ {Fund}
  /\ Deadlines \subseteq Nat
  /\ Targets \subseteq Int /\ DepositAmounts \subseteq Int /\ GiftAmounts \subseteq Int
  /\ MaxTime \in Nat

-----------------------------------------------------------------------------
Initialized == recipient # Unset

TargetReached == balances[Fund] >= target

\* Deviation: the claim is not considered.
StateByBalance ==
  IF time < deadline THEN "Running" ELSE IF TargetReached THEN "Success" ELSE "Expired"

\* get_state
State ==
  IF time < deadline THEN "Running"
  ELSE IF recipientClaimed \/ TargetReached THEN "Success"
  ELSE "Expired"

\* initialize looks neither at the deadline nor at the target.
Initialize(account, end, goal) ==
  /\ ~archived
  /\ ~Initialized
  /\ recipient' = account
  /\ deadline' = end
  /\ target' = goal
  /\ recipientClaimed' = FALSE
  /\ UNCHANGED <<userDeposited, pledged, tokenVars, archived, time>>

\* The change of the contract's balance, on the account of a user.
Pledged(user) ==
  [pledged EXCEPT ![user] = @ + (balances'[Fund] - balances[Fund])]

\* The books are written before the tokens arrive; a transfer that fails
\* undoes both.
Deposit(user, amount) ==
  /\ Initialized /\ ~archived
  /\ amount > 0
  /\ State = "Running"
  /\ user # recipient
  /\ MockTransfer(user, Fund, amount)
  /\ userDeposited' = [userDeposited EXCEPT ![user] = @ + amount]
  /\ pledged' = Pledged(user)
  /\ UNCHANGED <<setupVars, recipientClaimed, archived, time>>

\* transfer: the contract pays out.
PayOut(to, amount) == MockTransfer(Fund, to, amount)

\* The recipient takes whatever the contract holds.  Nobody has to sign.
WithdrawSuccess(to) ==
  /\ Initialized /\ ~archived
  /\ State = "Success"
  /\ to = recipient
  /\ ~recipientClaimed
  /\ PayOut(recipient, balances[Fund])
  /\ recipientClaimed' = TRUE
  /\ UNCHANGED <<setupVars, userDeposited, pledged, archived, time>>

\* Deviation: the deposit is read after it was cleared.
RefundReadLate(user) == 0

Refund(user) == userDeposited[user]

\* Deviation: the books keep what was paid back.
DepositKept(user) == userDeposited

DepositCleared(user) == [userDeposited EXCEPT ![user] = 0]

\* A donor takes back what the contract booked.  Nobody has to sign.
WithdrawExpired(to) ==
  /\ Initialized /\ ~archived
  /\ State = "Expired"
  /\ to # recipient
  /\ PayOut(to, Refund(to))
  /\ userDeposited' = DepositCleared(to)
  /\ pledged' = Pledged(to)
  /\ UNCHANGED <<setupVars, recipientClaimed, archived, time>>

Withdraw(to) == WithdrawSuccess(to) \/ WithdrawExpired(to)

\* The view the contract offers: what withdraw would pay the user, or the
\* deposit so far while the sale is running.
Balance(user) ==
  IF State = "Success"
    THEN IF user = recipient THEN balances[Fund] ELSE 0
    ELSE userDeposited[user]

\* A ledger closes, perhaps the last of the instance's lifetime, which the
\* network and whoever extends it from outside decide.
CloseLedger ==
  /\ time < MaxTime
  /\ time' = time + 1
  /\ archived' \in {archived, TRUE}
  /\ UNCHANGED <<tokenVars, saleVars>>

\* Anyone restores the instance.
Restore ==
  /\ archived
  /\ archived' = FALSE
  /\ UNCHANGED <<tokenVars, saleVars, time>>

-----------------------------------------------------------------------------
Init ==
  /\ TokenInit
  /\ recipient = Unset
  /\ deadline = 0
  /\ target = 0
  /\ recipientClaimed = FALSE
  /\ userDeposited = [account \in Accounts |-> 0]
  /\ archived = FALSE
  /\ time = 0
  /\ pledged = [account \in Accounts |-> 0]

\* A call of the token by somebody else than the contract.
TokenCall ==
  /\ \/ \E caller \in Operators :
          \/ MockInitialize(caller)
          \/ \E to \in Accounts, amount \in MintAmounts : MockMint(caller, to, amount)
     \/ \E from \in Donors, to \in Accounts, amount \in GiftAmounts :
          MockTransfer(from, to, amount)
  /\ UNCHANGED <<saleVars, archived, time>>

Next ==
  \/ \E account \in Recipients, end \in Deadlines, goal \in Targets :
       Initialize(account, end, goal)
  \/ \E user \in Donors, amount \in DepositAmounts : Deposit(user, amount)
  \/ \E to \in Accounts : Withdraw(to)
  \/ TokenCall
  \/ CloseLedger
  \/ Restore

Spec == Init /\ [][Next]_vars

(***************************************************************************)
(* Fairness: ledgers keep closing, an archived instance is restored, and a  *)
(* withdrawal that is possible again and again is made: neither asks for a  *)
(* signature of the account it serves, so anyone can do both for anyone.    *)
(***************************************************************************)
FairSpec ==
  /\ Spec
  /\ WF_vars(CloseLedger)
  /\ WF_vars(Restore)
  /\ \A to \in Accounts : SF_vars(Withdraw(to))

-----------------------------------------------------------------------------
\* Every variable has its type.
TypeOK ==
  /\ recipient \in Recipients \union {Unset}
  /\ deadline \in Nat /\ target \in Int
  /\ recipientClaimed \in BOOLEAN
  /\ userDeposited \in [Accounts -> Nat]
  /\ pledged \in [Accounts -> Nat]
  /\ archived \in BOOLEAN
  /\ tokenAdmin \in Operators \union {NoAdmin}
  /\ balances \in [Accounts -> 0 .. MaxSupply]
  /\ supply \in 0 .. MaxSupply
  /\ time \in 0 .. MaxTime

(***************************************************************************)
(* Until the recipient takes everything, the contract holds at least what   *)
(* it booked for its donors, through deposits, plain transfers and refunds  *)
(* in any order: no refund of an expired sale can fail for lack of funds.   *)
(***************************************************************************)
DepositsCovered == ~recipientClaimed => SumFunction(userDeposited) <= balances[Fund]

(***************************************************************************)
(* A sale that has succeeded stays so, although paying the recipient takes  *)
(* the balance below the target: no donor is refunded after the claim and   *)
(* no second claim is possible.                                             *)
(***************************************************************************)
SuccessIsFinal == [][Initialized /\ State = "Success" => State' = "Success"]_vars

(***************************************************************************)
(* When an archived contract is restored and withdrawals are made, every    *)
(* sale is wound up: the recipient has claimed, or the sale has expired and *)
(* every user got back all that it paid in through deposit.  No withdrawal  *)
(* traps for ever.  It says nothing of donors who send tokens straight to   *)
(* the contract's address, which items 2 and 4 of the instructions in       *)
(* lib.rs tell them to do and promise to undo: nothing books such tokens,   *)
(* and when the sale expires they stay where they are.                      *)
(***************************************************************************)
SaleWindsUp ==
  Initialized ~>
    \/ recipientClaimed
    \/ State = "Expired" /\ \A user \in Accounts : Balance(user) = 0 /\ pledged[user] = 0

-----------------------------------------------------------------------------
(***************************************************************************)
(* What a comment says and the code does not do.                            *)
(***************************************************************************)

(***************************************************************************)
(* A sale that expired stays so, and its donors can withdraw (the comment   *)
(* on State::Expired and item 4 of the instructions in lib.rs).             *)
(***************************************************************************)
ExpiredIsFinal == [][Initialized /\ State = "Expired" => State' = "Expired"]_vars
=============================================================================
