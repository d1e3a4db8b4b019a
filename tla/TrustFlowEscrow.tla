--------------------------- MODULE TrustFlowEscrow ---------------------------
(***************************************************************************)
(* The escrow lifecycle of the TrustFlow contract up to a dispute: opening  *)
(* an escrow, whole or by milestones, and releasing milestone tranches with *)
(* the escrow's snapshotted fee.                                            *)
(***************************************************************************)
EXTENDS TrustFlowStaking, Functions

\* snapshot_fee_config: the terms an escrow keeps for life.
FeeSnapshot == [treasury |-> treasury, fee_bps |-> feeBps]

\* What create_escrow and init_escrow share: the depositor's tokens are locked
\* and the next id is given to a new record.
OpenEscrow(depositor, beneficiary, amount, milestones) ==
  LET id == escrowCounter + 1
  IN  /\ NotPaused
      /\ amount > 0
      /\ FitsI128(amount)
      /\ CanTransfer(balances, depositor, amount)
      /\ id \in EscrowIds
      /\ balances' = Transfer(balances, depositor, Contract, amount)
      /\ escrowCounter' = id
      /\ escrows' = Put(escrows, id,
           [id |-> id, depositor |-> depositor, beneficiary |-> beneficiary,
            amount |-> amount, status |-> "Active", milestones |-> milestones])
      /\ feeConfigs' = Put(feeConfigs, id, FeeSnapshot)
      /\ UNCHANGED gifts
      /\ ChargedTo(id)
      /\ UNCHANGED <<escrowReleased, milestoneReleased, feesPaid>>
      /\ UNCHANGED <<configVars, circuitVars, disputes, ballotVars, stakeVars, now>>

CreateEscrow(depositor, beneficiary, amount) ==
  OpenEscrow(depositor, beneficiary, amount, <<>>)

MilestoneTotal(milestones) ==
  SumFunction([i \in DOMAIN milestones |-> milestones[i].amount])

InitEscrow(depositor, beneficiary, milestones) ==
  /\ \A i \in DOMAIN milestones : milestones[i].amount > 0
  /\ OpenEscrow(depositor, beneficiary, MilestoneTotal(milestones), milestones)

\* Deviation: every tranche is charged by itself, with a rounding of its own.
FeeOfTrancheAlone(id, releasedBefore, releasedAfter) ==
  CumulativeFee(releasedAfter - releasedBefore, feeConfigs[id].fee_bps)

\* The fee of a tranche: what the cumulative fee of the released amount grows by.
TrancheFee(id, releasedBefore, releasedAfter) ==
  CumulativeFee(releasedAfter, feeConfigs[id].fee_bps)
    - CumulativeFee(releasedBefore, feeConfigs[id].fee_bps)

\* Deviation: the milestone is compared before the tranche is added to it.
MilestoneNotYetFull(id, index, gross) ==
  GetOr(milestoneReleased, <<id, index>>, 0) < escrows[id].milestones[index].amount

\* What the milestone has released, this tranche included, is within its amount.
WithinMilestone(id, index, gross) ==
  GetOr(milestoneReleased, <<id, index>>, 0) + gross
    <= escrows[id].milestones[index].amount

\* Deviation: a disputed escrow still pays, as contracts/src/settlement.rs lets it.
UnsettledPays(id) == escrows[id].status # "Settled"

Releasable(id) == escrows[id].status = "Active"

\* Deviation: only the payout of a tranche is paid, the fee is forgotten.
PayoutOnly(paidOut, account, fee) == paidOut

FeeTransferred(paidOut, account, fee) == Transfer(paidOut, Contract, account, fee)

\* Milestones are numbered from 1 here and from 0 in the code.  try_token_transfer
\* skips a transfer of nothing, which the token would accept and ignore.
ReleaseMilestoneTranche(id, index, gross, caller) ==
  /\ NotPaused
  /\ gross > 0
  /\ id \in DOMAIN escrows
  /\ caller = escrows[id].depositor
  /\ Releasable(id)
  /\ index \in DOMAIN escrows[id].milestones
  /\ now >= escrows[id].milestones[index].release_time
  /\ LET escrow         == escrows[id]
         milestoneAfter == GetOr(milestoneReleased, <<id, index>>, 0) + gross
         releasedAfter  == escrowReleased[id] + gross
         treasuryFee    == TrancheFee(id, escrowReleased[id], releasedAfter)
         payout         == gross - treasuryFee
         paidOut        == Transfer(balances, Contract, escrow.beneficiary, payout)
         feeTaker       == feeConfigs[id].treasury
     IN  /\ WithinMilestone(id, index, gross)
         /\ FitsI128(milestoneAfter)
         /\ releasedAfter <= escrow.amount
         /\ id \in DOMAIN feeConfigs
         /\ escrows' = [escrows EXCEPT
              ![id].milestones[index].approved = TRUE,
              ![id].status = IF releasedAfter = escrow.amount THEN "Settled" ELSE @]
         /\ milestoneReleased' = Put(milestoneReleased, <<id, index>>, milestoneAfter)
         /\ escrowReleased' = [escrowReleased EXCEPT ![id] = releasedAfter]
         /\ CanTransfer(balances, Contract, payout)
         /\ CanTransfer(paidOut, Contract, treasuryFee)
         /\ balances' = FeeTransferred(paidOut, feeTaker, treasuryFee)
         /\ feesPaid' = [feesPaid EXCEPT ![id] = @ + treasuryFee]
         /\ gifts' = gifts + SelfPaid(escrow.beneficiary, payout)
                           + SelfPaid(feeTaker, treasuryFee)
  /\ ChargedTo(id)
  /\ UNCHANGED <<escrowCounter, feeConfigs>>
  /\ UNCHANGED <<configVars, circuitVars, disputes, ballotVars, stakeVars, now>>
=============================================================================
