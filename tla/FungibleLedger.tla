--------------------------- MODULE FungibleLedger ---------------------------
(***************************************************************************)
(* What a token with allowances promises each owner: its tokens leave it    *)
(* only in a step that it signed itself, or in one that a spender signed    *)
(* and that takes as much from the budget the owner gave that spender.  A   *)
(* budget changes in no other way: its owner signs a new one, the spender   *)
(* draws on it, or it lapses while nobody signs anything.                   *)
(***************************************************************************)
EXTENDS ConservedSupply

VARIABLES budget,     \* what each owner leaves each spender to use
          signer      \* who signed the last step

ledgerVars == <<holdings, supply, budget>>

LedgerInit ==
  /\ SupplyInit
  /\ budget = [owner \in Holders |-> [spender \in Holders |-> 0]]

\* A holder accepts new tokens, gives some away or destroys some.
OwnTokens(holder) ==
  /\ signer' = holder
  /\ \/ Issue(holder)
     \/ Retire(holder)
     \/ \E to \in Holders : Move(holder, to, Given(holder))
  /\ UNCHANGED budget

\* The owner decides what the spender may use from now on.
Grant(owner, spender) ==
  LET granted == budget'[owner][spender]
  IN  /\ signer' = owner
      /\ granted >= 0
      /\ budget' = [budget EXCEPT ![owner][spender] = granted]
      /\ UNCHANGED supplyVars

\* The spender moves or retires tokens of the owner and uses up as much budget.
Draw(owner, spender) ==
  LET used == budget[owner][spender] - budget'[owner][spender]
  IN  /\ signer' = spender
      /\ used >= 0
      /\ budget'[owner][spender] >= 0
      /\ budget' = [budget EXCEPT ![owner][spender] = @ - used]
      /\ \/ \E to \in Holders : Move(owner, to, used)
         \/ Retire(owner) /\ supply - supply' = used

\* Time runs out for some grants; it is nobody's doing.
Lapse ==
  /\ signer' \notin Holders
  /\ \A owner, spender \in Holders :
       budget'[owner][spender] \in {budget[owner][spender], 0}
  /\ UNCHANGED supplyVars

LedgerNext ==
  \/ \E holder \in Holders : OwnTokens(holder)
  \/ \E owner, spender \in Holders : Grant(owner, spender) \/ Draw(owner, spender)
  \/ Lapse

LedgerSpec == LedgerInit /\ [][LedgerNext]_ledgerVars
=============================================================================
