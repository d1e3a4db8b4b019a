------------------------------ MODULE TrustFlow ------------------------------
(***************************************************************************)
(* The TrustFlow contract as a whole: administrators, depositors,           *)
(* beneficiaries and jurors call it in any order while ledgers close.       *)
(* Below the specification are the properties the contract is to have.      *)
(***************************************************************************)
EXTENDS TrustFlowDispute

Init ==
  /\ \E caller \in Operators, slash \in SlashChoices : Initialize(caller, slash)
  /\ paused = FALSE
  /\ pauser = None
  /\ escrows = EmptyStore
  /\ feeConfigs = EmptyStore
  /\ escrowReleased = [id \in EscrowIds |-> 0]
  /\ milestoneReleased = EmptyStore
  /\ disputes = EmptyStore
  /\ jurorCommits = EmptyStore
  /\ jurorVotes = EmptyStore
  /\ disputeVoters = [id \in EscrowIds |-> <<>>]
  /\ jurorStakes = [juror \in Jurors |-> 0]
  /\ slashCounts = [juror \in Jurors |-> 0]
  /\ balances = InitialBalances
  /\ now = 0
  /\ feesPaid = [id \in EscrowIds |-> 0]
  /\ slashed = [juror \in Jurors |-> 0]
  /\ escrowFunds = [id \in EscrowIds |-> 0]
  /\ gifts = InitialBalances[Contract]

\* A ledger closes.
Tick ==
  /\ now < MaxLedger
  /\ now' = now + 1
  /\ UNCHANGED <<configVars, circuitVars, escrowVars, disputes, ballotVars,
                 stakeVars, balances, gifts>>

\* Somebody transfers tokens to the contract's address in a call to the token:
\* the contract is not asked and books nothing.
Donate(from, amount) ==
  /\ CanTransfer(balances, from, amount)
  /\ balances' = Transfer(balances, from, Contract, amount)
  /\ gifts' = gifts + amount
  /\ UNCHANGED <<configVars, circuitVars, escrowVars, disputes, ballotVars,
                 stakeVars, now>>

AdminStep ==
  \/ \E caller \in Operators :
       \/ \E bps \in FeeChoices : SetFeeBps(caller, bps)
       \/ \E account \in Treasuries : SetTreasury(caller, account)
       \/ \E account \in Wardens : SetPauser(caller, account)
       \/ RevokePauser(caller)
  \/ \E caller \in Wardens : Pause(caller) \/ Unpause(caller)

StakingStep ==
  \E juror \in Jurors, amount \in StakeAmounts :
    \/ Stake(juror, amount)
    \/ Unstake(juror, amount)

EscrowStep ==
  \/ \E depositor \in Depositors, beneficiary \in Beneficiaries :
       \/ \E amount \in EscrowAmounts : CreateEscrow(depositor, beneficiary, amount)
       \/ \E milestones \in MilestonePlans : InitEscrow(depositor, beneficiary, milestones)
  \/ \E id \in DOMAIN escrows, gross \in TrancheAmounts, caller \in Depositors :
       \E index \in DOMAIN escrows[id].milestones :
         ReleaseMilestoneTranche(id, index, gross, caller)

DisputeStep ==
  \E id \in EscrowIds :
    \/ \E caller \in (Depositors \union Beneficiaries) \ {Contract} : RaiseDispute(id, caller)
    \/ \E juror \in Jurors, vote \in BOOLEAN, salt \in Salts :
         \/ CommitVote(id, juror, HashVote(vote, salt))
         \/ RevealVote(id, juror, vote, salt)
    \/ ResolveDispute(id)

GiftStep ==
  \E from \in Accounts \ {Contract}, amount \in GiftAmounts : Donate(from, amount)

Next == AdminStep \/ StakingStep \/ EscrowStep \/ DisputeStep \/ GiftStep \/ Tick

Spec == Init /\ [][Next]_vars

(***************************************************************************)
(* Fairness: ledgers keep closing; an administrator who paused the contract *)
(* eventually resumes it; and resolve_dispute, which anyone may call and    *)
(* the winner gains by calling, is eventually called if the contract keeps  *)
(* being able to take it.  No juror is required to vote.                    *)
(***************************************************************************)
Fairness ==
  /\ WF_vars(Tick)
  /\ WF_vars(\E caller \in Wardens : Unpause(caller))
  /\ \A id \in EscrowIds : SF_vars(ResolveDispute(id))

FairSpec == Spec /\ Fairness

-----------------------------------------------------------------------------
(***************************************************************************)
(* Funds                                                                    *)
(***************************************************************************)

\* What the contract still owes the parties of an escrow.
EscrowClaim(id) ==
  IF id \in DOMAIN escrows /\ escrows[id].status # "Settled"
    THEN escrows[id].amount - escrowReleased[id] ELSE 0

\* What the contract keeps of a juror: the stake and what was slashed.
JurorClaim(juror) == jurorStakes[juror] + slashed[juror]

EscrowClaims == [id \in EscrowIds |-> EscrowClaim(id)]
JurorClaims  == [juror \in Jurors |-> JurorClaim(juror)]

(***************************************************************************)
(* Of the contract's one balance, what was not given to it is exactly what  *)
(* it owes or has slashed: the unreleased part of every unsettled escrow,   *)
(* every stake, and every stake ever slashed.  Releases, fees, payouts,     *)
(* stakes and slashes of lib.rs all draw on this balance, none looks at     *)
(* what the others are owed, and a beneficiary or treasury may be the       *)
(* contract itself: what it pays to itself counts as given.                 *)
(***************************************************************************)
Solvency ==
  Custody = SumFunction(EscrowClaims) + SumFunction(JurorClaims)

\* What the custody moves by, the claim of one escrow or of one juror does.
ClaimsFollow ==
  LET moved == Custody' - Custody
  IN  \/ UNCHANGED <<Custody, EscrowClaims, JurorClaims>>
      \/ /\ \E id \in EscrowIds :
              EscrowClaims' = [EscrowClaims EXCEPT ![id] = @ + moved]
         /\ UNCHANGED JurorClaims
      \/ /\ \E juror \in Jurors :
              JurorClaims' = [JurorClaims EXCEPT ![juror] = @ + moved]
         /\ UNCHANGED EscrowClaims

(***************************************************************************)
(* Solvency step by step: what enters or leaves the contract's custody in   *)
(* one call enters or leaves the claim of one escrow or of one juror, and   *)
(* no other claim changes.  The two transfers of a release, a payout made   *)
(* together with slashes, and every withdrawal are charged to their owner;  *)
(* a gift to the contract's address changes nobody's claim.                 *)
(***************************************************************************)
CustodyMoves == [][ClaimsFollow]_vars

(***************************************************************************)
(* The fees an escrow paid are the floor of its snapshotted rate on all it  *)
(* released, however the release was cut into tranches and whatever         *)
(* set_fee_bps did meanwhile (the promise of cumulative_fee).               *)
(***************************************************************************)
FeeLaw ==
  \A id \in DOMAIN escrows :
    feesPaid[id] = (escrowReleased[id] * feeConfigs[id].fee_bps) \div BPS_DENOMINATOR

(***************************************************************************)
(* The two ledgers of release_milestone_tranche agree: no milestone pays    *)
(* more than its amount, and what the milestones released adds up to what   *)
(* the escrow released, so an escrow without milestones released nothing.   *)
(***************************************************************************)
MilestoneLedger ==
  \A id \in DOMAIN escrows :
    LET milestones == escrows[id].milestones
        Released(i) == GetOr(milestoneReleased, <<id, i>>, 0)
    IN  /\ \A i \in DOMAIN milestones : Released(i) <= milestones[i].amount
        /\ escrowReleased[id] = SumFunction([i \in DOMAIN milestones |-> Released(i)])

(***************************************************************************)
(* Every escrow of the contract behaves as EscrowVault promises: opened     *)
(* once, frozen by a dispute, settled once, by its last release or by the   *)
(* ruling, with nothing left behind and nothing paid afterwards.  What is   *)
(* locked is the money that the calls on the escrow moved in and out, not   *)
(* what the records say: a release or ruling that pays too little, too much *)
(* or from a settled escrow is no step of a vault.                          *)
(***************************************************************************)
EscrowPhase(id) == IF id \in DOMAIN escrows THEN escrows[id].status ELSE "None"

Vault == INSTANCE EscrowVault WITH
           Ids     <- EscrowIds,
           Amounts <- 0 .. I128_MAX,
           phase   <- [id \in EscrowIds |-> EscrowPhase(id)],
           locked  <- escrowFunds

ImplementsVault == Vault!VaultSpec

-----------------------------------------------------------------------------
(***************************************************************************)
(* Ballots                                                                  *)
(***************************************************************************)

(***************************************************************************)
(* The three ballot entries agree: the voter list of a dispute names each   *)
(* juror with a recorded vote exactly once and nobody else, and a juror who *)
(* voted has no commitment left to reveal a second time.                    *)
(***************************************************************************)
BallotIntegrity ==
  \A id \in EscrowIds :
    LET voters == disputeVoters[id]
    IN  /\ \A j, k \in DOMAIN voters : voters[j] = voters[k] => j = k
        /\ {voters[k] : k \in DOMAIN voters} =
             {juror \in Jurors : <<id, juror>> \in DOMAIN jurorVotes}
        /\ \A juror \in Jurors :
             <<id, juror>> \in DOMAIN jurorVotes => <<id, juror>> \notin DOMAIN jurorCommits

(***************************************************************************)
(* Nobody commits once a vote of the dispute is known (the reason lib.rs    *)
(* has two phases).  A commitment does not name its juror, so copying one   *)
(* that is on the ledger, to open it with the same vote and salt when they  *)
(* are revealed, stays possible: the copy follows a vote it cannot know.    *)
(***************************************************************************)
NoCommitAfterReveal ==
  [][\A id \in EscrowIds, juror \in Jurors :
       <<id, juror>> \in DOMAIN jurorCommits' /\ <<id, juror>> \notin DOMAIN jurorCommits
         => disputeVoters[id] = <<>>]_vars

(***************************************************************************)
(* A ruling is the majority of the votes recorded for the dispute, ties for *)
(* the depositor, and no vote is added or changed once it is given.         *)
(***************************************************************************)
RulingFollowsMajority ==
  \A id \in DOMAIN disputes :
    disputes[id].resolved =>
      LET Side(vote) == {juror \in Jurors : /\ <<id, juror>> \in DOMAIN jurorVotes
                                            /\ jurorVotes[<<id, juror>>] = vote}
      IN  /\ Side(TRUE) \union Side(FALSE) # {}
          /\ disputes[id].ruling_for_depositor
               <=> Cardinality(Side(TRUE)) >= Cardinality(Side(FALSE))

(***************************************************************************)
(* Every dispute's ballot behaves as SecretBallot promises.  What a juror   *)
(* chose is the vote inside the commitment until it is revealed, and the    *)
(* recorded vote from then on: a reveal must not change it, nor may a juror *)
(* who never committed, or committed when a vote was known, be counted.     *)
(***************************************************************************)
Choice(vote) == IF vote THEN "For" ELSE "Against"

Chosen(id, juror) ==
  CASE <<id, juror>> \in DOMAIN jurorVotes   -> Choice(jurorVotes[<<id, juror>>])
    [] <<id, juror>> \in DOMAIN jurorCommits -> Choice(jurorCommits[<<id, juror>>][1])
    [] OTHER -> "None"

Revealed(id) == {juror \in Jurors : <<id, juror>> \in DOMAIN jurorVotes}

Ruling(id) ==
  IF id \in DOMAIN disputes /\ disputes[id].resolved
    THEN Choice(disputes[id].ruling_for_depositor) ELSE "None"

Ballot == INSTANCE SecretBallot WITH
            Ballots <- EscrowIds,
            Voters  <- Jurors,
            sealed  <- [id \in EscrowIds |-> [juror \in Jurors |-> Chosen(id, juror)]],
            opened  <- [id \in EscrowIds |-> Revealed(id)],
            outcome <- [id \in EscrowIds |-> Ruling(id)]

ImplementsBallot == Ballot!BallotSpec

(***************************************************************************)
(* A juror has been slashed once for every resolved dispute whose ruling    *)
(* went against the juror's vote, and for nothing else: not for the votes   *)
(* of other disputes, nor for staying silent.                               *)
(***************************************************************************)
SlashedOncePerLostDispute ==
  \A juror \in Jurors :
    slashCounts[juror] =
      Cardinality({id \in DOMAIN disputes :
        /\ disputes[id].resolved
        /\ <<id, juror>> \in DOMAIN jurorVotes
        /\ jurorVotes[<<id, juror>>] # disputes[id].ruling_for_depositor})

(***************************************************************************)
(* While the contract is paused no escrow, ballot or stake moves, and no    *)
(* token it has in custody, whoever calls what (require_not_paused guards   *)
(* nine entry points).                                                      *)
(***************************************************************************)
PauseFreezes ==
  [][paused => UNCHANGED <<escrowVars, disputes, ballotVars, stakeVars, Custody>>]_vars

(***************************************************************************)
(* Being in the minority costs something: a juror whose vote lost was       *)
(* slashed of at least one token (CHANGELOG.md: "minority voters are        *)
(* slashed").  The stake at resolution is what is slashed, and unstake does *)
(* not look at the disputes the juror is voting in.                         *)
(***************************************************************************)
MinorityVotersPay ==
  \A id \in DOMAIN disputes, juror \in Jurors :
    /\ disputes[id].resolved
    /\ <<id, juror>> \in DOMAIN jurorVotes
    /\ jurorVotes[<<id, juror>>] # disputes[id].ruling_for_depositor
    => slashed[juror] > 0

(***************************************************************************)
(* What is slashed is burned (doc of resolve_dispute, lib.rs: a slash of    *)
(* their current stake "is burned from their in-contract balance"), so it   *)
(* is missing from the tokens there are.                                    *)
(***************************************************************************)
SlashesBurn ==
  SumFunction(balances) + SumFunction(slashed) = SumFunction(InitialBalances)

-----------------------------------------------------------------------------
(***************************************************************************)
(* Progress                                                                 *)
(***************************************************************************)

(***************************************************************************)
(* Every dispute is settled in the end (README.md: "If disputed, jurors     *)
(* vote on-chain -- settlement is executed automatically").                 *)
(***************************************************************************)
DisputeSettles ==
  \A id \in EscrowIds :
    EscrowPhase(id) = "Disputed" ~> EscrowPhase(id) = "Settled"
=============================================================================
