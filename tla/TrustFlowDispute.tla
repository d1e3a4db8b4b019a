-------------------------- MODULE TrustFlowDispute --------------------------
(***************************************************************************)
(* Disputes in the TrustFlow contract: the commit-reveal ballot of the      *)
(* jurors on an escrow and its resolution, which slashes the minority and   *)
(* pays what is still locked to the winner.                                 *)
(***************************************************************************)
EXTENDS TrustFlowEscrow

RaiseDispute(id, caller) ==
  /\ NotPaused
  /\ id \in DOMAIN escrows
  /\ escrows[id].status = "Active"
  /\ caller \in {escrows[id].depositor, escrows[id].beneficiary}
  /\ escrows' = [escrows EXCEPT ![id].status = "Disputed"]
  /\ LET commitDeadline == LaterLedger(now, COMMIT_WINDOW_LEDGERS)
     IN  disputes' = Put(disputes, id,
           [escrow_id |-> id, raised_by |-> caller,
            resolved |-> FALSE, ruling_for_depositor |-> FALSE,
            commit_deadline |-> commitDeadline,
            reveal_deadline |-> LaterLedger(commitDeadline, REVEAL_WINDOW_LEDGERS)])
  /\ UNCHANGED <<escrowCounter, feeConfigs, escrowReleased, milestoneReleased,
                 feesPaid, escrowFunds>>
  /\ UNCHANGED <<configVars, circuitVars, ballotVars, stakeVars, balances, gifts, now>>

\* The dispute exists and is not resolved.
OpenDispute(id) == id \in DOMAIN disputes /\ ~disputes[id].resolved

\* Deviation: the ledger of the deadline still takes commitments.
CommitsOpenOneTooLong(id) == now <= disputes[id].commit_deadline

CommitsOpen(id) == now < disputes[id].commit_deadline

CommitVote(id, juror, commitment) ==
  /\ NotPaused
  /\ jurorStakes[juror] > 0
  /\ OpenDispute(id)
  /\ CommitsOpen(id)
  /\ <<id, juror>> \notin DOMAIN jurorCommits
  /\ jurorCommits' = Put(jurorCommits, <<id, juror>>, commitment)
  /\ UNCHANGED <<jurorVotes, disputeVoters>>
  /\ UNCHANGED <<configVars, circuitVars, escrowVars, disputes, stakeVars,
                 balances, gifts, now>>

\* Deviation: the revealed commitment stays on file.
CommitKept(id, juror) == jurorCommits

CommitCleared(id, juror) == Remove(jurorCommits, <<id, juror>>)

RevealVote(id, juror, voteForDepositor, salt) ==
  /\ NotPaused
  /\ OpenDispute(id)
  /\ now >= disputes[id].commit_deadline
  /\ now < disputes[id].reveal_deadline
  /\ <<id, juror>> \notin DOMAIN jurorVotes
  /\ <<id, juror>> \in DOMAIN jurorCommits
  /\ HashVote(voteForDepositor, salt) = jurorCommits[<<id, juror>>]
  /\ jurorVotes' = Put(jurorVotes, <<id, juror>>, voteForDepositor)
  /\ jurorCommits' = CommitCleared(id, juror)
  /\ disputeVoters' = [disputeVoters EXCEPT ![id] = Append(@, juror)]
  /\ UNCHANGED <<configVars, circuitVars, escrowVars, disputes, stakeVars,
                 balances, gifts, now>>

\* get(JurorVote).unwrap_or(false)
VoteOf(id, juror) == GetOr(jurorVotes, <<id, juror>>, FALSE)

VotesFor(id, side) ==
  Cardinality({k \in DOMAIN disputeVoters[id] : VoteOf(id, disputeVoters[id][k]) = side})

\* Deviation: a tie goes to the beneficiary.
RulingForStrict(id) == VotesFor(id, TRUE) > VotesFor(id, FALSE)

\* Ties break in favour of the depositor.
RulingFor(id) == VotesFor(id, TRUE) >= VotesFor(id, FALSE)

\* Deviation: silent jurors are taken for voters by the default of VoteOf.
MinorityOfAllJurors(id, ruling) == {juror \in Jurors : VoteOf(id, juror) # ruling}

\* The voters the loop of resolve_dispute slashes.  A juror is in the list of
\* voters at most once (invariant BallotIntegrity), so the loop is this set.
MinorityOf(id, ruling) ==
  {juror \in Jurors : /\ \E k \in DOMAIN disputeVoters[id] : disputeVoters[id][k] = juror
                      /\ VoteOf(id, juror) # ruling}

SlashMinority(minority) ==
  LET slash == [juror \in Jurors |->
                  IF juror \in minority
                    THEN SlashAmount(jurorStakes[juror], slashBps) ELSE 0]
  IN  /\ jurorStakes' = [juror \in Jurors |-> jurorStakes[juror] - slash[juror]]
      /\ slashed' = [juror \in Jurors |-> slashed[juror] + slash[juror]]
      /\ slashCounts' = [juror \in Jurors |->
           IF juror \in minority THEN slashCounts[juror] + 1 ELSE slashCounts[juror]]

\* Deviation: the payout forgets what the milestones released already.
WholeAmount(id) == escrows[id].amount

\* What is still locked in the escrow.
Remaining(id) == escrows[id].amount - escrowReleased[id]

\* Deviation: one vote does not make a ruling.
TwoVotesCast(id) == Len(disputeVoters[id]) > 1

VotesCast(id) == disputeVoters[id] # <<>>

\* Callable by anyone.  The slashed tokens stay with the contract.
ResolveDispute(id) ==
  LET ruling    == RulingFor(id)
      escrow    == escrows[id]
      remaining == Remaining(id)
      recipient == IF ruling THEN escrow.depositor ELSE escrow.beneficiary
  IN  /\ NotPaused
      /\ OpenDispute(id)
      /\ now >= disputes[id].reveal_deadline
      /\ VotesCast(id)
      /\ SlashMinority(MinorityOf(id, ruling))
      /\ disputes' = [disputes EXCEPT ![id].resolved = TRUE,
                                      ![id].ruling_for_depositor = ruling]
      /\ id \in DOMAIN escrows
      /\ IF remaining > 0
           THEN /\ CanTransfer(balances, Contract, remaining)
                /\ balances' = Transfer(balances, Contract, recipient, remaining)
                /\ gifts' = gifts + SelfPaid(recipient, remaining)
           ELSE UNCHANGED <<balances, gifts>>
      /\ ChargedTo(id)
      /\ escrows' = [escrows EXCEPT ![id].status = "Settled"]
      /\ UNCHANGED <<escrowCounter, feeConfigs, escrowReleased, milestoneReleased, feesPaid>>
      /\ UNCHANGED <<configVars, circuitVars, ballotVars, now>>
=============================================================================
