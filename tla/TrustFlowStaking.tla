-------------------------- MODULE TrustFlowStaking --------------------------
(***************************************************************************)
(* Juror staking in the TrustFlow contract.  A stake is a juror's share of  *)
(* the tokens the contract holds; it is not locked while the juror has a    *)
(* commitment or a vote in an open dispute.                                 *)
(***************************************************************************)
EXTENDS TrustFlowAdmin

Stake(juror, amount) ==
  /\ NotPaused
  /\ amount > 0
  /\ CanTransfer(balances, juror, amount)
  /\ FitsI128(jurorStakes[juror] + amount)
  /\ balances' = Transfer(balances, juror, Contract, amount)
  /\ jurorStakes' = [jurorStakes EXCEPT ![juror] = @ + amount]
  /\ UNCHANGED <<slashCounts, slashed>>
  /\ UNCHANGED <<configVars, circuitVars, escrowVars, disputes, ballotVars,
                 gifts, now>>

\* Deviation: the stake is not compared with the amount taken out.
AnyWithdrawal(juror, amount) == amount <= balances[Contract]

Withdrawable(juror, amount) == jurorStakes[juror] >= amount

\* The code has no test of its own that amount is positive: the token refuses
\* a negative one, and an unstake of nothing changes nothing.
Unstake(juror, amount) ==
  /\ NotPaused
  /\ Withdrawable(juror, amount)
  /\ CanTransfer(balances, Contract, amount)
  /\ balances' = Transfer(balances, Contract, juror, amount)
  /\ jurorStakes' = [jurorStakes EXCEPT ![juror] = @ - amount]
  /\ UNCHANGED <<slashCounts, slashed>>
  /\ UNCHANGED <<configVars, circuitVars, escrowVars, disputes, ballotVars,
                 gifts, now>>
=============================================================================
