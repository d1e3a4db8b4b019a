---------------------------- MODULE TokenLedger ----------------------------
(***************************************************************************)
(* The fungible token the contracts hold funds in (contracts/mock-token):  *)
(* balances are a function from accounts to amounts, a transfer debits     *)
(* `from' and then credits `to', which it reads again after the debit, and *)
(* traps, undoing the whole invocation, when `from' cannot pay.            *)
(***************************************************************************)
EXTENDS Integers

\* Deviation: the payer's balance is not looked at.
CanTransferUnchecked(balances, from, amount) == amount >= 0

\* The transfer does not trap.
CanTransfer(balances, from, amount) ==
  /\ amount >= 0
  /\ balances[from] >= amount

\* The balances after the transfer.
Transfer(balances, from, to, amount) ==
  LET debited == [balances EXCEPT ![from] = @ - amount]
  IN  [debited EXCEPT ![to] = @ + amount]
=============================================================================
