------------------------- MODULE TrustFlowBallotProofs -------------------------
(***************************************************************************)
(* The commit-reveal ballot, for every number of jurors and disputes and    *)
(* every length of the two windows: the entries of a ballot agree, nobody   *)
(* commits once a vote is known, and a ruling is the majority of the votes. *)
(*                                                                          *)
(* commit_vote does not look at the votes.  That a juror cannot vote and    *)
(* then commit again follows from the clock: a vote is only ever revealed   *)
(* when the commit window of its dispute is over (VotersRevealed), and no   *)
(* dispute is ever raised twice (Lifecycle), which would reopen the window. *)
(*                                                                          *)
(* resolve_dispute counts entries of the voter list, the property counts    *)
(* jurors.  The two agree because the list names each voter once, which     *)
(* makes it a bijection onto the jurors who voted; and they stay so because *)
(* a resolved dispute takes no vote.  For the same two reasons a juror is   *)
(* slashed once for every dispute lost.  Together they make the contract an *)
(* implementation of SecretBallot.                                          *)
(***************************************************************************)
EXTENDS TrustFlowVaultProofs, FiniteSetTheorems

\* Where a vote is known, the commit window is over.
VotersRevealed ==
  \A id \in EscrowIds :
    disputeVoters[id] # <<>> =>
      id \in DOMAIN disputes /\ now >= disputes[id].commit_deadline

BallotInv == VaultInv /\ VotersRevealed /\ BallotIntegrity

-----------------------------------------------------------------------------
LEMMA BallotInit == Init => BallotInv
<1> SUFFICES ASSUME Init PROVE BallotInv
  OBVIOUS
<1>1. /\ \A id \in EscrowIds : disputeVoters[id] = <<>>
      /\ DOMAIN jurorVotes = {}
  BY DEF Init, EmptyStore
<1>2. VotersRevealed
  BY <1>1 DEF VotersRevealed
<1>3. BallotIntegrity
  BY <1>1 DEF BallotIntegrity
<1> QED
  BY <1>2, <1>3, VaultInvInit DEF BallotInv

\* The steps that record no commitment and no vote.
LEMMA BallotsUntouched ==
  ASSUME [Next]_vars,
         ~\E id \in EscrowIds, juror \in Jurors, vote \in BOOLEAN, salt \in Salts :
            \/ CommitVote(id, juror, HashVote(vote, salt))
            \/ RevealVote(id, juror, vote, salt)
  PROVE  UNCHANGED ballotVars
<1>1. CASE AdminStep
  BY <1>1 DEF AdminStep, SetFeeBps, SetTreasury, SetPauser, RevokePauser, Pause, Unpause
<1>2. CASE StakingStep
  BY <1>2 DEF StakingStep, Stake, Unstake
<1>3. CASE EscrowStep
  <2>1. \A depositor, beneficiary, amount, milestones :
          OpenEscrow(depositor, beneficiary, amount, milestones) => UNCHANGED ballotVars
    BY DEF OpenEscrow
  <2>2. \A id, index, gross, caller :
          ReleaseMilestoneTranche(id, index, gross, caller) => UNCHANGED ballotVars
    BY DEF ReleaseMilestoneTranche
  <2> QED
    BY <1>3, <2>1, <2>2 DEF EscrowStep, CreateEscrow, InitEscrow
<1>4. CASE DisputeStep
  BY <1>4 DEF DisputeStep, RaiseDispute, ResolveDispute
<1>5. CASE Tick \/ GiftStep
  BY <1>5 DEF Tick, GiftStep, Donate
<1>6. CASE UNCHANGED vars
  BY <1>6 DEF vars
<1> QED
  BY <1>1, <1>2, <1>3, <1>4, <1>5, <1>6 DEF Next

\* The clock never goes back.
LEMMA TimePasses ==
  ASSUME TypeOK, [Next]_vars
  PROVE  now \in Int /\ now' \in Int /\ now' >= now
<1> USE DEF TypeOK, Ledgers
<1>1. CASE AdminStep
  BY <1>1 DEF AdminStep, SetFeeBps, SetTreasury, SetPauser, RevokePauser, Pause, Unpause
<1>2. CASE StakingStep
  BY <1>2 DEF StakingStep, Stake, Unstake
<1>3. CASE EscrowStep
  <2>1. \A depositor, beneficiary, amount, milestones :
          OpenEscrow(depositor, beneficiary, amount, milestones) => now' = now
    BY DEF OpenEscrow
  <2>2. \A id, index, gross, caller :
          ReleaseMilestoneTranche(id, index, gross, caller) => now' = now
    BY DEF ReleaseMilestoneTranche
  <2> QED
    BY <1>3, <2>1, <2>2 DEF EscrowStep, CreateEscrow, InitEscrow
<1>4. CASE DisputeStep
  <2>1. \A id, caller : RaiseDispute(id, caller) => now' = now
    BY DEF RaiseDispute
  <2>2. \A id, juror, commitment : CommitVote(id, juror, commitment) => now' = now
    BY DEF CommitVote
  <2>3. \A id, juror, vote, salt : RevealVote(id, juror, vote, salt) => now' = now
    BY DEF RevealVote
  <2>4. \A id : ResolveDispute(id) => now' = now
    BY DEF ResolveDispute
  <2> QED
    BY <1>4, <2>1, <2>2, <2>3, <2>4 DEF DisputeStep
<1>5. CASE Tick \/ GiftStep
  BY <1>5 DEF Tick, GiftStep, Donate
<1>6. CASE UNCHANGED vars
  BY <1>6 DEF vars
<1> QED
  BY <1>1, <1>2, <1>3, <1>4, <1>5, <1>6 DEF Next

\* A dispute is never forgotten and its windows never move.
LEMMA DisputesKept ==
  ASSUME VaultInv, [Next]_vars, NEW id \in DOMAIN disputes
  PROVE  /\ id \in DOMAIN disputes'
         /\ disputes'[id].commit_deadline = disputes[id].commit_deadline
         /\ disputes'[id].reveal_deadline = disputes[id].reveal_deadline
<1>1. id \in EscrowIds /\ disputes[id] \in DisputeRecord
  BY DEF VaultInv, FeeInv, TypeOK, IsStore
<1>2. CASE QuietStep
  BY <1>2, QuietSteps
<1>3. ASSUME NEW depositor, NEW beneficiary, NEW amount, NEW milestones,
             OpenEscrow(depositor, beneficiary, amount, milestones)
      PROVE  disputes' = disputes
  BY <1>3 DEF OpenEscrow
<1>4. ASSUME NEW other \in DOMAIN escrows, NEW gross \in Int, NEW caller,
             NEW index \in DOMAIN escrows[other].milestones,
             ReleaseMilestoneTranche(other, index, gross, caller)
      PROVE  disputes' = disputes
  BY <1>4, ReleaseRecords
<1>5. ASSUME NEW other \in EscrowIds, NEW caller, RaiseDispute(other, caller)
      PROVE  id \in DOMAIN disputes' /\ disputes'[id] = disputes[id]
  BY <1>5, RaiseRecords
<1>6. ASSUME NEW other \in EscrowIds, ResolveDispute(other)
      PROVE  /\ id \in DOMAIN disputes'
             /\ disputes'[id].commit_deadline = disputes[id].commit_deadline
             /\ disputes'[id].reveal_deadline = disputes[id].reveal_deadline
  <2>1. CASE other = id
    BY <1>6, <2>1, ResolveRecords
  <2>2. CASE other # id
    BY <1>6, <2>2, ResolveRecords
  <2> QED
    BY <2>1, <2>2
<1> QED
  BY <1>2, <1>3, <1>4, <1>5, <1>6, StepKinds

-----------------------------------------------------------------------------
\* A juror who may commit has no vote in the dispute, nor has anybody else.
LEMMA CommitBeforeVotes ==
  ASSUME BallotInv, NEW id \in EscrowIds, NEW juror \in Jurors, NEW commitment,
         CommitVote(id, juror, commitment)
  PROVE  /\ disputeVoters[id] = <<>>
         /\ \A voter \in Jurors : <<id, voter>> \notin DOMAIN jurorVotes
<1>1. id \in DOMAIN disputes /\ now < disputes[id].commit_deadline
  BY DEF CommitVote, OpenDispute, CommitsOpen
<1>2. now \in Int /\ disputes[id].commit_deadline \in Int
  BY <1>1 DEF BallotInv, VaultInv, FeeInv, TypeOK, IsStore, DisputeRecord, Ledgers
<1>3. disputeVoters[id] = <<>>
  BY <1>1, <1>2 DEF BallotInv, VotersRevealed
<1> QED
  BY <1>3 DEF BallotInv, BallotIntegrity

LEMMA CommitBallot ==
  ASSUME BallotInv, NEW id \in EscrowIds, NEW juror \in Jurors, NEW commitment,
         CommitVote(id, juror, commitment)
  PROVE  BallotIntegrity'
<1>1. /\ DOMAIN jurorCommits' = DOMAIN jurorCommits \union {<<id, juror>>}
      /\ jurorVotes' = jurorVotes /\ disputeVoters' = disputeVoters
  BY DEF CommitVote, Put
<1>2. <<id, juror>> \notin DOMAIN jurorVotes
  BY CommitBeforeVotes
<1> QED
  BY <1>1, <1>2 DEF BallotInv, BallotIntegrity

LEMMA RevealBallot ==
  ASSUME BallotInv, NEW id \in EscrowIds, NEW juror \in Jurors, NEW vote \in BOOLEAN,
         NEW salt \in Salts, RevealVote(id, juror, vote, salt)
  PROVE  BallotIntegrity'
<1>1. /\ DOMAIN jurorVotes' = DOMAIN jurorVotes \union {<<id, juror>>}
      /\ DOMAIN jurorCommits' = DOMAIN jurorCommits \ {<<id, juror>>}
      /\ <<id, juror>> \notin DOMAIN jurorVotes
      /\ disputeVoters' = [disputeVoters EXCEPT ![id] = Append(disputeVoters[id], juror)]
  BY DEF RevealVote, Put, Remove, CommitCleared
<1>2. disputeVoters \in [EscrowIds -> Seq(Jurors)]
  BY DEF BallotInv, VaultInv, FeeInv, TypeOK
<1> SUFFICES ASSUME NEW any \in EscrowIds
             PROVE
    /\ \A j, k \in DOMAIN disputeVoters'[any] :
         disputeVoters'[any][j] = disputeVoters'[any][k] => j = k
    /\ {disputeVoters'[any][k] : k \in DOMAIN disputeVoters'[any]} =
         {voter \in Jurors : <<any, voter>> \in DOMAIN jurorVotes'}
    /\ \A voter \in Jurors :
         <<any, voter>> \in DOMAIN jurorVotes' => <<any, voter>> \notin DOMAIN jurorCommits'
  BY DEF BallotIntegrity
<1> DEFINE before == disputeVoters[any]
           after  == disputeVoters'[any]
<1>3. /\ \A j, k \in DOMAIN before : before[j] = before[k] => j = k
      /\ {before[k] : k \in DOMAIN before} =
           {voter \in Jurors : <<any, voter>> \in DOMAIN jurorVotes}
      /\ \A voter \in Jurors :
           <<any, voter>> \in DOMAIN jurorVotes => <<any, voter>> \notin DOMAIN jurorCommits
  BY DEF BallotInv, BallotIntegrity
<1>4. \A voter \in Jurors :
        <<any, voter>> \in DOMAIN jurorVotes' => <<any, voter>> \notin DOMAIN jurorCommits'
  BY <1>1, <1>3
<1>5. CASE any # id
  <2>1. after = before
    BY <1>1, <1>2, <1>5
  <2>2. \A voter \in Jurors :
          <<any, voter>> \in DOMAIN jurorVotes' <=> <<any, voter>> \in DOMAIN jurorVotes
    BY <1>1, <1>5
  <2> QED
    BY <1>3, <1>4, <2>1, <2>2
<1>6. CASE any = id
  <2>1. before \in Seq(Jurors) /\ after = Append(before, juror)
    BY <1>1, <1>2, <1>6
  <2>2. \A k \in DOMAIN before : before[k] # juror
    BY <1>1, <1>3, <1>6
  <2> HIDE DEF before, after
  <2>3. /\ Len(before) \in Nat
        /\ DOMAIN before = 1 .. Len(before)
        /\ DOMAIN after = 1 .. (Len(before) + 1)
        /\ \A k \in DOMAIN before : after[k] = before[k]
        /\ after[Len(before) + 1] = juror
    BY <2>1
  <2>4. \A j, k \in DOMAIN after : after[j] = after[k] => j = k
    <3> SUFFICES ASSUME NEW j \in DOMAIN after, NEW k \in DOMAIN after, after[j] = after[k]
                 PROVE  j = k
      OBVIOUS
    <3>1. j \in DOMAIN before \/ j = Len(before) + 1
      BY <2>3
    <3>2. k \in DOMAIN before \/ k = Len(before) + 1
      BY <2>3
    <3> QED
      BY <1>3, <2>2, <2>3, <3>1, <3>2
  <2>5. {after[k] : k \in DOMAIN after} = {before[k] : k \in DOMAIN before} \union {juror}
    <3>1. DOMAIN after = DOMAIN before \union {Len(before) + 1}
      BY <2>3
    <3> QED
      BY <2>3, <3>1
  <2>6. {voter \in Jurors : <<any, voter>> \in DOMAIN jurorVotes'} =
          {voter \in Jurors : <<any, voter>> \in DOMAIN jurorVotes} \union {juror}
    BY <1>1, <1>6
  <2> QED
    BY <1>3, <1>4, <2>4, <2>5, <2>6 DEF after
<1> QED
  BY <1>5, <1>6

LEMMA IntegrityNext ==
  ASSUME BallotInv, [Next]_vars
  PROVE  BallotIntegrity'
<1>1. CASE UNCHANGED ballotVars
  BY <1>1 DEF BallotInv, BallotIntegrity, ballotVars
<1>2. ASSUME NEW id \in EscrowIds, NEW juror \in Jurors, NEW vote \in BOOLEAN,
             NEW salt \in Salts,
             CommitVote(id, juror, HashVote(vote, salt)) \/ RevealVote(id, juror, vote, salt)
      PROVE  BallotIntegrity'
  BY <1>2, CommitBallot, RevealBallot
<1> QED
  BY <1>1, <1>2, BallotsUntouched

LEMMA VotersRevealedNext ==
  ASSUME BallotInv, [Next]_vars
  PROVE  VotersRevealed'
<1> SUFFICES ASSUME NEW id \in EscrowIds, disputeVoters'[id] # <<>>
             PROVE  id \in DOMAIN disputes' /\ now' >= disputes'[id].commit_deadline
  BY DEF VotersRevealed
<1>1. id \in DOMAIN disputes /\ now >= disputes[id].commit_deadline
  <2>1. CASE disputeVoters[id] # <<>>
    BY <2>1 DEF BallotInv, VotersRevealed
  <2>2. CASE disputeVoters[id] = <<>>
    <3>1. PICK other \in EscrowIds, juror \in Jurors, vote \in BOOLEAN, salt \in Salts :
            RevealVote(other, juror, vote, salt)
      BY <2>2, BallotsUntouched DEF ballotVars, CommitVote
    <3>2. disputeVoters \in [EscrowIds -> Seq(Jurors)]
      BY DEF BallotInv, VaultInv, FeeInv, TypeOK
    <3>3. id = other
      BY <2>2, <3>1, <3>2 DEF RevealVote
    <3> QED
      BY <3>1, <3>3 DEF RevealVote, OpenDispute
  <2> QED
    BY <2>1, <2>2
<1>2. /\ id \in DOMAIN disputes'
      /\ disputes'[id].commit_deadline = disputes[id].commit_deadline
  BY <1>1, DisputesKept DEF BallotInv
<1>3. now \in Int /\ now' \in Int /\ now' >= now
  BY TimePasses DEF BallotInv, VaultInv, FeeInv
<1>4. disputes[id].commit_deadline \in Int
  BY <1>1 DEF BallotInv, VaultInv, FeeInv, TypeOK, IsStore, DisputeRecord, Ledgers
<1> QED
  BY <1>1, <1>2, <1>3, <1>4

LEMMA BallotInvCorrect == Spec => []BallotInv
<1>1. BallotInv /\ [Next]_vars => BallotInv'
  BY VaultInvNext, IntegrityNext, VotersRevealedNext DEF BallotInv
<1> QED
  BY <1>1, BallotInit, PTL DEF Spec

(***************************************************************************)
(* In every reachable state the voter list of a dispute names each juror    *)
(* with a recorded vote exactly once, and a juror who voted has nothing     *)
(* left to reveal: no juror is counted, or slashed, twice for one dispute.  *)
(***************************************************************************)
THEOREM BallotIntegrityCorrect == Spec => []BallotIntegrity
<1>1. BallotInv => BallotIntegrity
  BY DEF BallotInv
<1> QED
  BY <1>1, BallotInvCorrect, PTL

(***************************************************************************)
(* No step records a commitment in a dispute with a known vote, so a juror  *)
(* cannot choose a vote after seeing another's.                             *)
(***************************************************************************)
THEOREM NoCommitAfterRevealCorrect == Spec => NoCommitAfterReveal
<1> DEFINE Step ==
      \A id \in EscrowIds, juror \in Jurors :
        <<id, juror>> \in DOMAIN jurorCommits' /\ <<id, juror>> \notin DOMAIN jurorCommits
          => disputeVoters[id] = <<>>
<1>1. ASSUME BallotInv, [Next]_vars
      PROVE  Step
  <2> SUFFICES ASSUME NEW id \in EscrowIds, NEW juror \in Jurors,
                      <<id, juror>> \in DOMAIN jurorCommits',
                      <<id, juror>> \notin DOMAIN jurorCommits
               PROVE  disputeVoters[id] = <<>>
    OBVIOUS
  <2>1. PICK other \in EscrowIds, voter \in Jurors, vote \in BOOLEAN, salt \in Salts :
          \/ CommitVote(other, voter, HashVote(vote, salt))
          \/ RevealVote(other, voter, vote, salt)
    BY <1>1, BallotsUntouched DEF ballotVars
  <2>2. CASE CommitVote(other, voter, HashVote(vote, salt))
    <3>1. id = other
      BY <2>2 DEF CommitVote, Put
    <3> QED
      BY <1>1, <2>2, <3>1, CommitBeforeVotes
  <2>3. CASE RevealVote(other, voter, vote, salt)
    BY <2>3 DEF RevealVote, CommitCleared, Remove
  <2> QED
    BY <2>1, <2>2, <2>3
<1> QED
  BY <1>1, BallotInvCorrect, PTL DEF Spec, NoCommitAfterReveal

-----------------------------------------------------------------------------
\* The jurors whose recorded vote is the given side.
Side(id, vote) ==
  {juror \in Jurors : /\ <<id, juror>> \in DOMAIN jurorVotes
                      /\ jurorVotes[<<id, juror>>] = vote}

\* The ruling of a dispute is right.
RulingIsRight(id) ==
  /\ Side(id, TRUE) \union Side(id, FALSE) # {}
  /\ disputes[id].ruling_for_depositor
       <=> Cardinality(Side(id, TRUE)) >= Cardinality(Side(id, FALSE))

RulingInv == BallotInv /\ RulingFollowsMajority

LEMMA RulingsAreRight ==
  RulingFollowsMajority <=>
    \A id \in DOMAIN disputes : disputes[id].resolved => RulingIsRight(id)
  BY Zenon DEF RulingFollowsMajority, RulingIsRight, Side

-----------------------------------------------------------------------------
\* Counting the entries of the voter list counts the jurors.
LEMMA VotesAreCounted ==
  ASSUME BallotInv, NEW id \in EscrowIds, NEW side \in BOOLEAN
  PROVE  VotesFor(id, side) = Cardinality(Side(id, side))
<1> DEFINE voters  == disputeVoters[id]
           entries == {k \in DOMAIN voters : VoteOf(id, voters[k]) = side}
           name    == [k \in entries |-> voters[k]]
<1>1. voters \in Seq(Jurors)
  BY DEF BallotInv, VaultInv, FeeInv, TypeOK
<1>2. /\ \A j, k \in DOMAIN voters : voters[j] = voters[k] => j = k
      /\ {voters[k] : k \in DOMAIN voters} =
           {juror \in Jurors : <<id, juror>> \in DOMAIN jurorVotes}
  BY DEF BallotInv, BallotIntegrity
<1>3. IsFiniteSet(entries)
  <2>1. DOMAIN voters = 1 .. Len(voters) /\ Len(voters) \in Nat
    BY <1>1
  <2>2. IsFiniteSet(1 .. Len(voters))
    BY <2>1, FS_Interval
  <2> QED
    BY <2>1, <2>2, FS_Subset
<1>4. \A k \in DOMAIN voters :
        /\ voters[k] \in Jurors /\ <<id, voters[k]>> \in DOMAIN jurorVotes
        /\ VoteOf(id, voters[k]) = jurorVotes[<<id, voters[k]>>]
  BY <1>1, <1>2 DEF VoteOf, GetOr
<1>5. name \in Injection(entries, Side(id, side))
  <2>1. \A k \in entries : name[k] \in Side(id, side)
    BY <1>4 DEF Side
  <2> QED
    BY <1>2, <2>1 DEF Injection, IsInjective
<1>6. name \in Surjection(entries, Side(id, side))
  <2>1. \A juror \in Side(id, side) : \E k \in entries : name[k] = juror
    <3> SUFFICES ASSUME NEW juror \in Side(id, side)
                 PROVE  \E k \in entries : voters[k] = juror
      OBVIOUS
    <3>1. PICK k \in DOMAIN voters : voters[k] = juror
      BY <1>2 DEF Side
    <3>2. VoteOf(id, voters[k]) = side
      BY <1>4, <3>1 DEF Side
    <3> QED
      BY <3>1, <3>2
  <2> QED
    BY <1>4, <2>1 DEF Surjection, Side
<1>7. ExistsBijection(entries, Side(id, side))
  BY <1>5, <1>6 DEF ExistsBijection, Bijection
<1>8. Cardinality(Side(id, side)) = Cardinality(entries)
  BY <1>3, <1>7, FS_Bijection
<1> QED
  BY <1>8 DEF VotesFor

\* The ruling that resolve_dispute gives is right when it gives it.
LEMMA ResolveRules ==
  ASSUME BallotInv, NEW id \in EscrowIds, ResolveDispute(id)
  PROVE  RulingIsRight(id)'
<1>1. /\ id \in DOMAIN disputes /\ disputes[id] \in DisputeRecord
      /\ disputes' = [disputes EXCEPT ![id].resolved = TRUE,
                                      ![id].ruling_for_depositor = RulingFor(id)]
      /\ jurorVotes' = jurorVotes
      /\ disputeVoters[id] # <<>>
  BY DEF ResolveDispute, OpenDispute, VotesCast, ballotVars,
         BallotInv, VaultInv, FeeInv, TypeOK, IsStore
<1>2. disputes'[id].ruling_for_depositor = RulingFor(id)
  BY <1>1 DEF DisputeRecord
<1>3. RulingFor(id) <=> Cardinality(Side(id, TRUE)) >= Cardinality(Side(id, FALSE))
  BY VotesAreCounted, Zenon DEF RulingFor
<1>4. Side(id, TRUE) \union Side(id, FALSE) # {}
  <2>1. /\ disputeVoters[id] \in Seq(Jurors) /\ IsStore(jurorVotes, VoteKeys, BOOLEAN)
        /\ {disputeVoters[id][k] : k \in DOMAIN disputeVoters[id]} =
             {juror \in Jurors : <<id, juror>> \in DOMAIN jurorVotes}
    BY DEF BallotInv, VaultInv, FeeInv, TypeOK, BallotIntegrity
  <2>2. 1 \in DOMAIN disputeVoters[id]
    BY <1>1, <2>1
  <2>3. PICK juror \in Jurors : <<id, juror>> \in DOMAIN jurorVotes
    BY <2>1, <2>2
  <2>4. jurorVotes[<<id, juror>>] \in BOOLEAN
    BY <2>1, <2>3 DEF IsStore
  <2> QED
    BY <2>3, <2>4, Zenon DEF Side
<1>5. Side(id, TRUE)' = Side(id, TRUE) /\ Side(id, FALSE)' = Side(id, FALSE)
  BY <1>1 DEF Side
<1> QED
  BY <1>2, <1>3, <1>4, <1>5, Zenon DEF RulingIsRight

-----------------------------------------------------------------------------
\* No vote is added to a resolved dispute, and none is changed.
LEMMA ResolvedSidesStand ==
  ASSUME [Next]_vars, NEW id \in DOMAIN disputes, disputes[id].resolved, NEW side
  PROVE  Side(id, side)' = Side(id, side)
<1>1. CASE jurorVotes' = jurorVotes
  BY <1>1 DEF Side
<1>2. ASSUME NEW other \in EscrowIds, NEW juror \in Jurors, NEW vote, NEW salt,
             RevealVote(other, juror, vote, salt)
      PROVE  Side(id, side)' = Side(id, side)
  <2>1. other # id
    BY <1>2 DEF RevealVote, OpenDispute
  <2>2. jurorVotes' = Put(jurorVotes, <<other, juror>>, vote)
    BY <1>2 DEF RevealVote
  <2>3. \A voter \in Jurors :
          /\ <<id, voter>> \in DOMAIN jurorVotes' <=> <<id, voter>> \in DOMAIN jurorVotes
          /\ <<id, voter>> \in DOMAIN jurorVotes =>
               jurorVotes'[<<id, voter>>] = jurorVotes[<<id, voter>>]
    BY <2>1, <2>2 DEF Put
  <2> QED
    BY <2>3 DEF Side
<1>3. ASSUME NEW other \in EscrowIds, NEW juror \in Jurors, NEW commitment,
             CommitVote(other, juror, commitment)
      PROVE  jurorVotes' = jurorVotes
  BY <1>3 DEF CommitVote
<1> QED
  BY <1>1, <1>2, <1>3, BallotsUntouched DEF ballotVars

\* The dispute of a step is as it was, or has just been resolved.
LEMMA ResolvedDisputesStand ==
  ASSUME VaultInv, [Next]_vars, NEW id \in DOMAIN disputes', disputes'[id].resolved
  PROVE  \/ id \in DOMAIN disputes /\ disputes'[id] = disputes[id]
         \/ id \in EscrowIds /\ ResolveDispute(id)
<1>1. CASE QuietStep
  BY <1>1, QuietSteps
<1>2. ASSUME NEW depositor, NEW beneficiary, NEW amount, NEW milestones,
             OpenEscrow(depositor, beneficiary, amount, milestones)
      PROVE  disputes' = disputes
  BY <1>2 DEF OpenEscrow
<1>3. ASSUME NEW other \in DOMAIN escrows, NEW gross \in Int, NEW caller,
             NEW index \in DOMAIN escrows[other].milestones,
             ReleaseMilestoneTranche(other, index, gross, caller)
      PROVE  disputes' = disputes
  BY <1>3, ReleaseRecords
<1>4. ASSUME NEW other \in EscrowIds, NEW caller, RaiseDispute(other, caller)
      PROVE  id \in DOMAIN disputes /\ disputes'[id] = disputes[id]
  <2>1. id # other
    <3>1. ~disputes'[other].resolved
      BY <1>4, RaiseRecords, Zenon
    <3> QED
      BY <3>1, Zenon
  <2> QED
    BY <1>4, <2>1, RaiseRecords
<1>5. ASSUME NEW other \in EscrowIds, ResolveDispute(other), other # id
      PROVE  id \in DOMAIN disputes /\ disputes'[id] = disputes[id]
  BY <1>5, ResolveRecords
<1> QED
  BY <1>1, <1>2, <1>3, <1>4, <1>5, StepKinds

LEMMA RulingNext ==
  ASSUME RulingInv, [Next]_vars
  PROVE  RulingFollowsMajority'
<1> SUFFICES ASSUME NEW id \in DOMAIN disputes', disputes'[id].resolved
             PROVE  RulingIsRight(id)'
  BY Zenon DEF RulingFollowsMajority, RulingIsRight, Side
<1>1. CASE id \in EscrowIds /\ ResolveDispute(id)
  BY <1>1, ResolveRules DEF RulingInv
<1>2. CASE id \in DOMAIN disputes /\ disputes'[id] = disputes[id]
  <2>1. disputes[id].resolved
    BY <1>2, Zenon
  <2>2. RulingIsRight(id)
    BY <1>2, <2>1, RulingsAreRight, Zenon DEF RulingInv
  <2>3. Side(id, TRUE)' = Side(id, TRUE) /\ Side(id, FALSE)' = Side(id, FALSE)
    BY <1>2, <2>1, ResolvedSidesStand
  <2>4. disputes'[id].ruling_for_depositor <=> disputes[id].ruling_for_depositor
    BY <1>2, Zenon
  <2> QED
    BY <2>2, <2>3, <2>4, Zenon DEF RulingIsRight
<1> QED
  BY <1>1, <1>2, ResolvedDisputesStand DEF RulingInv, BallotInv

(***************************************************************************)
(* In every reachable state the ruling of a resolved dispute is the         *)
(* majority of the votes recorded for it, ties for the depositor, and at    *)
(* least one vote was recorded: later calls cannot make it wrong.           *)
(***************************************************************************)
THEOREM RulingCorrect == Spec => []RulingFollowsMajority
<1>1. Init => RulingInv
  <2> SUFFICES ASSUME Init PROVE RulingInv
    OBVIOUS
  <2>1. DOMAIN disputes = {}
    BY DEF Init, EmptyStore
  <2> QED
    BY <2>1, BallotInit DEF RulingInv, RulingFollowsMajority
<1>2. RulingInv /\ [Next]_vars => RulingInv'
  <2> SUFFICES ASSUME RulingInv, [Next]_vars PROVE RulingInv'
    OBVIOUS
  <2>1. BallotInv'
    BY VaultInvNext, IntegrityNext, VotersRevealedNext DEF RulingInv, BallotInv
  <2> QED
    BY <2>1, RulingNext DEF RulingInv
<1>3. RulingInv => RulingFollowsMajority
  BY DEF RulingInv
<1> QED
  BY <1>1, <1>2, <1>3, PTL DEF Spec

-----------------------------------------------------------------------------
(***************************************************************************)
(* Slashes.  resolve_dispute counts one for every entry of the voter list   *)
(* that disagrees with the ruling; the property looks back at all the       *)
(* disputes a juror lost.  The set of those grows by the dispute being      *)
(* resolved and by nothing else, as resolved disputes and their votes stand.*)
(***************************************************************************)

\* The dispute was ruled against the juror's vote.
LostBy(id, juror) ==
  disputes[id].resolved /\ juror \in Side(id, ~disputes[id].ruling_for_depositor)

Lost(juror) == {id \in DOMAIN disputes : LostBy(id, juror)}

SlashInv == BallotInv /\ \A juror \in Jurors : slashCounts[juror] = Cardinality(Lost(juror))

LEMMA VotesAreBoolean ==
  ASSUME BallotInv
  PROVE  /\ \A key \in DOMAIN jurorVotes : jurorVotes[key] \in BOOLEAN
         /\ \A id \in DOMAIN disputes : disputes[id].ruling_for_depositor \in BOOLEAN
         /\ DOMAIN disputes \subseteq EscrowIds
<1>1. /\ \A key \in DOMAIN jurorVotes : jurorVotes[key] \in BOOLEAN
      /\ \A id \in DOMAIN disputes : disputes[id] \in DisputeRecord
      /\ DOMAIN disputes \subseteq EscrowIds
  BY DEF BallotInv, VaultInv, FeeInv, TypeOK, IsStore
<1> QED
  BY <1>1 DEF DisputeRecord

LEMMA LostIsFinite ==
  ASSUME BallotInv, NEW juror
  PROVE  IsFiniteSet(Lost(juror))
<1>1. IsFiniteSet(EscrowIds)
  BY BoundsAssumption, FS_Interval DEF EscrowIds
<1>2. Lost(juror) \subseteq EscrowIds
  BY VotesAreBoolean DEF Lost
<1> QED
  BY <1>1, <1>2, FS_Subset

\* The two ways to say that a juror lost are the same.
LEMMA LostAgrees ==
  ASSUME BallotInv, NEW juror \in Jurors
  PROVE  Lost(juror) = {id \in DOMAIN disputes :
           /\ disputes[id].resolved
           /\ <<id, juror>> \in DOMAIN jurorVotes
           /\ jurorVotes[<<id, juror>>] # disputes[id].ruling_for_depositor}
<1>1. ASSUME NEW id \in DOMAIN disputes
      PROVE  juror \in Side(id, ~disputes[id].ruling_for_depositor) <=>
               /\ <<id, juror>> \in DOMAIN jurorVotes
               /\ jurorVotes[<<id, juror>>] # disputes[id].ruling_for_depositor
  <2>1. disputes[id].ruling_for_depositor \in BOOLEAN
    BY VotesAreBoolean
  <2>2. <<id, juror>> \in DOMAIN jurorVotes => jurorVotes[<<id, juror>>] \in BOOLEAN
    BY VotesAreBoolean
  <2>3. ASSUME <<id, juror>> \in DOMAIN jurorVotes
        PROVE  jurorVotes[<<id, juror>>] # disputes[id].ruling_for_depositor
                 <=> jurorVotes[<<id, juror>>] = ~disputes[id].ruling_for_depositor
    BY <2>1, <2>2, <2>3, Zenon
  <2> QED
    BY <2>3, Zenon DEF Side
<1> QED
  BY <1>1, Zenon DEF Lost, LostBy

\* The voters a ruling slashes are the jurors whose vote it went against.
LEMMA MinorityIsSide ==
  ASSUME BallotInv, NEW id \in EscrowIds, NEW ruling \in BOOLEAN
  PROVE  MinorityOf(id, ruling) = Side(id, ~ruling)
<1>1. ASSUME NEW juror \in Jurors
      PROVE  juror \in MinorityOf(id, ruling) <=> juror \in Side(id, ~ruling)
  <2>1. (\E k \in DOMAIN disputeVoters[id] : disputeVoters[id][k] = juror)
          <=> <<id, juror>> \in DOMAIN jurorVotes
    BY DEF BallotInv, BallotIntegrity
  <2>2. <<id, juror>> \in DOMAIN jurorVotes =>
          VoteOf(id, juror) = jurorVotes[<<id, juror>>] /\ jurorVotes[<<id, juror>>] \in BOOLEAN
    BY VotesAreBoolean DEF VoteOf, GetOr
  <2>3. ASSUME <<id, juror>> \in DOMAIN jurorVotes
        PROVE  VoteOf(id, juror) # ruling <=> jurorVotes[<<id, juror>>] = ~ruling
    <3>1. VoteOf(id, juror) = jurorVotes[<<id, juror>>]
      BY <2>2, <2>3
    <3>2. jurorVotes[<<id, juror>>] \in BOOLEAN
      BY <2>2, <2>3
    <3>3. jurorVotes[<<id, juror>>] # ruling <=> jurorVotes[<<id, juror>>] = ~ruling
      BY <3>2, Zenon
    <3> QED
      BY <3>1, <3>3, Zenon
  <2> QED
    BY <2>1, <2>3, Zenon DEF MinorityOf, Side
<1> QED
  BY <1>1, Zenon DEF MinorityOf, Side

\* A resolved dispute is never touched again: no second dispute takes its place.
LEMMA RulingsStand ==
  ASSUME VaultInv, [Next]_vars, NEW id \in DOMAIN disputes, disputes[id].resolved
  PROVE  id \in DOMAIN disputes' /\ disputes'[id] = disputes[id]
<1>1. CASE QuietStep
  BY <1>1, QuietSteps
<1>2. ASSUME NEW depositor, NEW beneficiary, NEW amount, NEW milestones,
             OpenEscrow(depositor, beneficiary, amount, milestones)
      PROVE  disputes' = disputes
  BY <1>2 DEF OpenEscrow
<1>3. ASSUME NEW other \in DOMAIN escrows, NEW gross \in Int, NEW caller,
             NEW index \in DOMAIN escrows[other].milestones,
             ReleaseMilestoneTranche(other, index, gross, caller)
      PROVE  disputes' = disputes
  BY <1>3, ReleaseRecords
<1>4. ASSUME NEW other \in EscrowIds, NEW caller, RaiseDispute(other, caller)
      PROVE  id \in DOMAIN disputes' /\ disputes'[id] = disputes[id]
  BY <1>4, RaiseRecords
<1>5. ASSUME NEW other \in EscrowIds, ResolveDispute(other)
      PROVE  id \in DOMAIN disputes' /\ disputes'[id] = disputes[id]
  <2>1. other # id
    BY <1>5, Zenon DEF ResolveDispute, OpenDispute
  <2> QED
    BY <1>5, <2>1, ResolveRecords
<1> QED
  BY <1>1, <1>2, <1>3, <1>4, <1>5, StepKinds

\* Only a resolution counts slashes.
LEMMA CountsKept ==
  ASSUME [Next]_vars, ~\E id \in EscrowIds : ResolveDispute(id)
  PROVE  slashCounts' = slashCounts
<1> USE DEF stakeVars
<1>1. CASE AdminStep
  BY <1>1 DEF AdminStep, SetFeeBps, SetTreasury, SetPauser, RevokePauser, Pause, Unpause
<1>2. CASE StakingStep
  BY <1>2 DEF StakingStep, Stake, Unstake
<1>3. CASE EscrowStep
  <2>1. \A depositor, beneficiary, amount, milestones :
          OpenEscrow(depositor, beneficiary, amount, milestones) => slashCounts' = slashCounts
    BY DEF OpenEscrow
  <2>2. \A id, index, gross, caller :
          ReleaseMilestoneTranche(id, index, gross, caller) => slashCounts' = slashCounts
    BY DEF ReleaseMilestoneTranche
  <2> QED
    BY <1>3, <2>1, <2>2 DEF EscrowStep, CreateEscrow, InitEscrow
<1>4. CASE DisputeStep
  <2>1. \A id, caller : RaiseDispute(id, caller) => slashCounts' = slashCounts
    BY DEF RaiseDispute
  <2>2. \A id, juror, commitment : CommitVote(id, juror, commitment) => slashCounts' = slashCounts
    BY DEF CommitVote
  <2>3. \A id, juror, vote, salt : RevealVote(id, juror, vote, salt) => slashCounts' = slashCounts
    BY DEF RevealVote
  <2> QED
    BY <1>4, <2>1, <2>2, <2>3 DEF DisputeStep
<1>5. CASE Tick \/ GiftStep
  BY <1>5 DEF Tick, GiftStep, Donate
<1>6. CASE UNCHANGED vars
  BY <1>6 DEF vars
<1> QED
  BY <1>1, <1>2, <1>3, <1>4, <1>5, <1>6 DEF Next

\* A step that resolves nothing loses nobody a dispute.
LEMMA LostKept ==
  ASSUME BallotInv, [Next]_vars, ~\E id \in EscrowIds : ResolveDispute(id), NEW juror \in Jurors
  PROVE  Lost(juror)' = Lost(juror)
<1>1. ASSUME NEW id \in DOMAIN disputes, disputes[id].resolved, disputes'[id] = disputes[id]
      PROVE  LostBy(id, juror)' <=> LostBy(id, juror)
  <2>1. \A side : Side(id, side)' = Side(id, side)
    BY <1>1, ResolvedSidesStand
  <2> QED
    BY <1>1, <2>1, Zenon DEF LostBy, Side
<1>2. ASSUME NEW id \in DOMAIN disputes, LostBy(id, juror)
      PROVE  id \in DOMAIN disputes' /\ LostBy(id, juror)'
  <2>1. disputes[id].resolved
    BY <1>2, Zenon DEF LostBy
  <2>2. id \in DOMAIN disputes' /\ disputes'[id] = disputes[id]
    BY <2>1, RulingsStand DEF BallotInv
  <2> QED
    BY <1>1, <1>2, <2>1, <2>2, Zenon
<1>3. ASSUME NEW id \in DOMAIN disputes', LostBy(id, juror)'
      PROVE  id \in DOMAIN disputes /\ LostBy(id, juror)
  <2>1. disputes'[id].resolved
    BY <1>3, Zenon DEF LostBy
  <2>2. id \in DOMAIN disputes /\ disputes'[id] = disputes[id]
    BY <2>1, ResolvedDisputesStand DEF BallotInv
  <2>3. disputes[id].resolved
    BY <2>1, <2>2, Zenon
  <2> QED
    BY <1>1, <1>3, <2>2, <2>3, Zenon
<1> QED
  BY <1>2, <1>3, Zenon DEF Lost

\* Resolving a dispute loses it for the minority, and nothing for anybody else.
LEMMA LostByRuling ==
  ASSUME BallotInv, [Next]_vars, NEW id \in EscrowIds, ResolveDispute(id), NEW juror \in Jurors
  PROVE  /\ id \notin Lost(juror)
         /\ juror \in MinorityOf(id, RulingFor(id)) => Lost(juror)' = Lost(juror) \union {id}
         /\ juror \notin MinorityOf(id, RulingFor(id)) => Lost(juror)' = Lost(juror)
<1>1. /\ id \in DOMAIN disputes /\ disputes[id] \in DisputeRecord
      /\ disputes' = [disputes EXCEPT ![id].resolved = TRUE,
                                      ![id].ruling_for_depositor = RulingFor(id)]
      /\ jurorVotes' = jurorVotes
  BY DEF ResolveDispute, OpenDispute, ballotVars, BallotInv, VaultInv, FeeInv, TypeOK, IsStore
<1>2. ~disputes[id].resolved /\ DOMAIN disputes' = DOMAIN disputes
      /\ \A other \in DOMAIN disputes \ {id} : disputes'[other] = disputes[other]
  BY ResolveRecords DEF BallotInv
<1>3. disputes'[id].resolved = TRUE
  BY ResolveRecords DEF BallotInv
<1>4. disputes'[id].ruling_for_depositor = RulingFor(id)
  BY <1>1 DEF DisputeRecord
<1>5. LostBy(id, juror)' <=> juror \in MinorityOf(id, RulingFor(id))
  <2>1. RulingFor(id) \in BOOLEAN
    BY DEF RulingFor
  <2>2. MinorityOf(id, RulingFor(id)) = Side(id, ~RulingFor(id))
    BY <2>1, MinorityIsSide
  <2>3. LostBy(id, juror)' <=> juror \in Side(id, ~RulingFor(id))
    BY <1>1, <1>3, <1>4, Zenon DEF LostBy, Side
  <2> QED
    BY <2>2, <2>3, Zenon
<1>6. ASSUME NEW other \in DOMAIN disputes \ {id}
      PROVE  LostBy(other, juror)' <=> LostBy(other, juror)
  <2>1. disputes'[other] = disputes[other]
    BY <1>2
  <2> QED
    BY <1>1, <2>1, Zenon DEF LostBy, Side
<1>7. ~LostBy(id, juror)
  BY <1>2, Zenon DEF LostBy
<1>8. \A any : any \in Lost(juror)' <=>
                 \/ any = id /\ juror \in MinorityOf(id, RulingFor(id))
                 \/ any \in Lost(juror) /\ any # id
  BY <1>1, <1>2, <1>5, <1>6, Zenon DEF Lost
<1>9. id \notin Lost(juror)
  BY <1>7 DEF Lost
<1> HIDE DEF Lost
<1> QED
  BY <1>8, <1>9

LEMMA SlashInvNext ==
  ASSUME SlashInv, [Next]_vars
  PROVE  SlashInv'
<1>1. BallotInv'
  BY VaultInvNext, IntegrityNext, VotersRevealedNext DEF SlashInv, BallotInv
<1>2. ASSUME NEW juror \in Jurors
      PROVE  slashCounts'[juror] = Cardinality(Lost(juror))'
  <2>0. slashCounts[juror] = Cardinality(Lost(juror)) /\ BallotInv
    BY DEF SlashInv
  <2>1. CASE ~\E id \in EscrowIds : ResolveDispute(id)
    <3>1. Lost(juror)' = Lost(juror) /\ slashCounts' = slashCounts
      BY <2>0, <2>1, LostKept, CountsKept
    <3> QED
      BY <2>0, <3>1
  <2>2. ASSUME NEW id \in EscrowIds, ResolveDispute(id)
        PROVE  slashCounts'[juror] = Cardinality(Lost(juror))'
    <3>1. slashCounts'[juror] = IF juror \in MinorityOf(id, RulingFor(id))
                                  THEN slashCounts[juror] + 1 ELSE slashCounts[juror]
      BY <2>2 DEF ResolveDispute, SlashMinority
    <3>2. CASE juror \in MinorityOf(id, RulingFor(id))
      <4>1. Lost(juror)' = Lost(juror) \union {id} /\ id \notin Lost(juror)
        BY <2>0, <2>2, <3>2, LostByRuling
      <4>2. Cardinality(Lost(juror) \union {id}) = Cardinality(Lost(juror)) + 1
        BY <2>0, <4>1, LostIsFinite, FS_AddElement
      <4> QED
        BY <2>0, <3>1, <3>2, <4>1, <4>2
    <3>3. CASE juror \notin MinorityOf(id, RulingFor(id))
      <4>1. Lost(juror)' = Lost(juror)
        BY <2>0, <2>2, <3>3, LostByRuling
      <4> QED
        BY <2>0, <3>1, <3>3, <4>1
    <3> QED
      BY <3>2, <3>3
  <2> QED
    BY <2>1, <2>2
<1> QED
  BY <1>1, <1>2 DEF SlashInv

(***************************************************************************)
(* In every reachable state a juror has been slashed once for each dispute  *)
(* ruled against the juror's vote and for no other, for every number of     *)
(* jurors and disputes, however they overlap: no second resolution, no vote *)
(* that comes late and no ballot of another dispute adds to the count.      *)
(***************************************************************************)
THEOREM SlashingCorrect == Spec => []SlashedOncePerLostDispute
<1>1. Init => SlashInv
  <2> SUFFICES ASSUME Init PROVE SlashInv
    OBVIOUS
  <2>1. DOMAIN disputes = {} /\ \A juror \in Jurors : slashCounts[juror] = 0
    BY DEF Init, EmptyStore
  <2>2. \A juror : Lost(juror) = {}
    BY <2>1 DEF Lost
  <2> QED
    BY <2>1, <2>2, BallotInit, FS_EmptySet DEF SlashInv
<1>2. SlashInv /\ [Next]_vars => SlashInv'
  BY SlashInvNext
<1>3. SlashInv => SlashedOncePerLostDispute
  <2> SUFFICES ASSUME SlashInv, NEW juror \in Jurors
               PROVE  slashCounts[juror] =
                        Cardinality({id \in DOMAIN disputes :
                          /\ disputes[id].resolved
                          /\ <<id, juror>> \in DOMAIN jurorVotes
                          /\ jurorVotes[<<id, juror>>] # disputes[id].ruling_for_depositor})
    BY Zenon DEF SlashedOncePerLostDispute
  <2> QED
    BY LostAgrees, Zenon DEF SlashInv
<1> QED
  BY <1>1, <1>2, <1>3, PTL DEF Spec

-----------------------------------------------------------------------------
(***************************************************************************)
(* The ballot implements SecretBallot.  A commitment seals a choice, a      *)
(* reveal opens it, a resolution closes the ballot, and every other step    *)
(* stutters.  The hash binds (HashVote is injective), the windows keep the  *)
(* first reveal behind the last commitment, and resolve_dispute counts what *)
(* was opened.                                                              *)
(***************************************************************************)

\* The choices, the voters who opened theirs and the outcome of every ballot,
\* as SecretBallot sees them.
sealedBar  == [id \in EscrowIds |-> [juror \in Jurors |-> Chosen(id, juror)]]
openedBar  == [id \in EscrowIds |-> Revealed(id)]
outcomeBar == [id \in EscrowIds |-> Ruling(id)]

\* Votes and commitments alone say what was chosen and opened.
LEMMA ChoicesFollowEntries ==
  ASSUME UNCHANGED ballotVars
  PROVE  sealedBar' = sealedBar /\ openedBar' = openedBar
  BY DEF ballotVars, sealedBar, openedBar, Chosen, Revealed

\* Only the resolution of a dispute changes its ruling.
LEMMA RulingKept ==
  ASSUME VaultInv, [Next]_vars, NEW id \in EscrowIds, ~ResolveDispute(id)
  PROVE  Ruling(id)' = Ruling(id)
<1>1. CASE id \in DOMAIN disputes /\ disputes[id].resolved
  <2>1. id \in DOMAIN disputes' /\ disputes'[id] = disputes[id]
    BY <1>1, RulingsStand
  <2> QED
    BY <2>1, <1>1, Zenon DEF Ruling
<1>2. CASE id \in DOMAIN disputes' /\ disputes'[id].resolved
  <2>1. id \in DOMAIN disputes /\ disputes'[id] = disputes[id]
    BY <1>2, ResolvedDisputesStand
  <2> QED
    BY <2>1, <1>2, Zenon DEF Ruling
<1>3. CASE /\ ~(id \in DOMAIN disputes /\ disputes[id].resolved)
           /\ ~(id \in DOMAIN disputes' /\ disputes'[id].resolved)
  BY <1>3, Zenon DEF Ruling
<1> QED
  BY <1>1, <1>2, <1>3, Zenon

\* While a dispute is open nobody can read a ruling from it.
LEMMA OpenHasNoRuling ==
  ASSUME NEW id \in EscrowIds, OpenDispute(id)
  PROVE  Ruling(id) = "None"
  BY Zenon DEF OpenDispute, Ruling

LEMMA CommitSeals ==
  ASSUME BallotInv, [Next]_vars, NEW id \in EscrowIds, NEW juror \in Jurors,
         NEW vote \in BOOLEAN, NEW salt, CommitVote(id, juror, HashVote(vote, salt))
  PROVE  Ballot!Seal(id, juror)
<1>1. /\ <<id, juror>> \notin DOMAIN jurorCommits
      /\ jurorVotes' = jurorVotes
      /\ disputes' = disputes
      /\ OpenDispute(id)
      /\ jurorCommits' = Put(jurorCommits, <<id, juror>>, <<vote, salt>>)
  BY DEF CommitVote, HashVote
<1>2. \A voter \in Jurors : <<id, voter>> \notin DOMAIN jurorVotes
  BY CommitBeforeVotes
<1>3. /\ \A key : key \in DOMAIN jurorCommits' <=> key \in DOMAIN jurorCommits \/ key = <<id, juror>>
      /\ jurorCommits'[<<id, juror>>] = <<vote, salt>>
      /\ \A key \in DOMAIN jurorCommits : key # <<id, juror>> =>
           jurorCommits'[key] = jurorCommits[key]
  BY <1>1 DEF Put
<1>4. Chosen(id, juror) = "None"
  BY <1>1, <1>2 DEF Chosen
<1>5. Chosen(id, juror)' = Choice(vote)
  <2>1. Chosen(id, juror)' = Choice(jurorCommits'[<<id, juror>>][1])
    BY <1>1, <1>2, <1>3 DEF Chosen, Choice
  <2>2. jurorCommits'[<<id, juror>>][1] = vote
    BY <1>3
  <2> QED
    BY <2>1, <2>2, Zenon
<1>6. ASSUME NEW other \in EscrowIds, NEW voter \in Jurors, other # id \/ voter # juror
      PROVE  Chosen(other, voter)' = Chosen(other, voter)
  <2>1. <<other, voter>> # <<id, juror>>
    BY <1>6
  <2>2. <<other, voter>> \in DOMAIN jurorCommits' <=> <<other, voter>> \in DOMAIN jurorCommits
    BY <1>3, <2>1
  <2>3. <<other, voter>> \in DOMAIN jurorCommits =>
          jurorCommits'[<<other, voter>>] = jurorCommits[<<other, voter>>]
    BY <1>3, <2>1
  <2> QED
    BY <1>1, <2>2, <2>3 DEF Chosen, Choice
<1>7. /\ sealedBar[id][juror] = "None"
      /\ openedBar[id] = {}
      /\ outcomeBar[id] = "None"
  BY <1>1, <1>2, <1>4, OpenHasNoRuling DEF sealedBar, openedBar, outcomeBar, Revealed
<1>8. openedBar' = openedBar /\ outcomeBar' = outcomeBar
  BY <1>1 DEF openedBar, outcomeBar, Revealed, Ruling
<1>9. sealedBar' = [sealedBar EXCEPT ![id][juror] = Choice(vote)]
  <2> HIDE DEF Chosen, Choice
  <2> QED
    BY <1>5, <1>6 DEF sealedBar
<1>10. Choice(vote) \in {"For", "Against"}
  BY DEF Choice
<1> QED
  BY <1>7, <1>8, <1>9, <1>10, Zenon
     DEF Ballot!Seal, Ballot!Choices, sealedBar, openedBar, outcomeBar

LEMMA RevealOpens ==
  ASSUME BallotInv, [Next]_vars, NEW id \in EscrowIds, NEW juror \in Jurors,
         NEW vote \in BOOLEAN, NEW salt, RevealVote(id, juror, vote, salt)
  PROVE  Ballot!Open(id, juror)
<1>1. /\ <<id, juror>> \in DOMAIN jurorCommits
      /\ <<id, juror>> \notin DOMAIN jurorVotes
      /\ jurorCommits[<<id, juror>>] = <<vote, salt>>
      /\ jurorVotes' = Put(jurorVotes, <<id, juror>>, vote)
      /\ jurorCommits' = Remove(jurorCommits, <<id, juror>>)
      /\ disputes' = disputes
      /\ OpenDispute(id)
  BY DEF RevealVote, HashVote, CommitCleared
<1>2. /\ \A key : key \in DOMAIN jurorVotes' <=> key \in DOMAIN jurorVotes \/ key = <<id, juror>>
      /\ \A key : key \in DOMAIN jurorCommits' <=> key \in DOMAIN jurorCommits /\ key # <<id, juror>>
  BY <1>1 DEF Put, Remove
<1>3. jurorVotes'[<<id, juror>>] = vote
  BY <1>1, Zenon DEF Put
<1>4. ASSUME NEW key, key # <<id, juror>>
      PROVE  /\ key \in DOMAIN jurorVotes => jurorVotes'[key] = jurorVotes[key]
             /\ key \in DOMAIN jurorCommits => jurorCommits'[key] = jurorCommits[key]
  BY <1>1, <1>4 DEF Put, Remove
<1>5. Chosen(id, juror) = Choice(vote)
  <2>1. Chosen(id, juror) = Choice(jurorCommits[<<id, juror>>][1])
    BY <1>1 DEF Chosen, Choice
  <2>2. jurorCommits[<<id, juror>>][1] = vote
    BY <1>1
  <2> QED
    BY <2>1, <2>2, Zenon
<1>6. Chosen(id, juror)' = Choice(vote)
  <2>1. <<id, juror>> \in DOMAIN jurorVotes'
    BY <1>2
  <2>2. Chosen(id, juror)' = Choice(jurorVotes'[<<id, juror>>])
    BY <1>2, <2>1 DEF Chosen
  <2> QED
    BY <1>3, <2>2, Zenon
<1>7. ASSUME NEW other \in EscrowIds, NEW voter \in Jurors, other # id \/ voter # juror
      PROVE  Chosen(other, voter)' = Chosen(other, voter)
  <2>1. <<other, voter>> # <<id, juror>>
    BY <1>7
  <2>2. /\ <<other, voter>> \in DOMAIN jurorVotes' <=> <<other, voter>> \in DOMAIN jurorVotes
        /\ <<other, voter>> \in DOMAIN jurorCommits' <=> <<other, voter>> \in DOMAIN jurorCommits
    BY <1>2, <2>1
  <2>3. /\ <<other, voter>> \in DOMAIN jurorVotes =>
             jurorVotes'[<<other, voter>>] = jurorVotes[<<other, voter>>]
        /\ <<other, voter>> \in DOMAIN jurorCommits =>
             jurorCommits'[<<other, voter>>] = jurorCommits[<<other, voter>>]
    BY <1>4, <2>1
  <2> QED
    BY <2>2, <2>3 DEF Chosen, Choice
<1>8. /\ outcomeBar[id] = "None"
      /\ sealedBar[id][juror] \in {"For", "Against"}
      /\ juror \notin openedBar[id]
  BY <1>1, <1>5, OpenHasNoRuling DEF sealedBar, openedBar, outcomeBar, Revealed, Choice
<1>9. sealedBar' = sealedBar /\ outcomeBar' = outcomeBar
  <2>1. outcomeBar' = outcomeBar
    BY <1>1 DEF outcomeBar, Ruling
  <2>2. \A other \in EscrowIds, voter \in Jurors : Chosen(other, voter)' = Chosen(other, voter)
    BY <1>5, <1>6, <1>7
  <2> HIDE DEF Chosen
  <2> QED
    BY <2>1, <2>2 DEF sealedBar
<1>10. openedBar' = [openedBar EXCEPT ![id] = @ \union {juror}]
  <2>1. Revealed(id)' = Revealed(id) \union {juror}
    BY <1>2 DEF Revealed
  <2>2. \A other \in EscrowIds \ {id} : Revealed(other)' = Revealed(other)
    BY <1>2 DEF Revealed
  <2> HIDE DEF Revealed
  <2> QED
    BY <2>1, <2>2 DEF openedBar
<1> QED
  BY <1>8, <1>9, <1>10, Zenon
     DEF Ballot!Open, Ballot!Choices, sealedBar, openedBar, outcomeBar

\* The jurors with a recorded vote for a side are those who opened that choice.
LEMMA SideIsVotersFor ==
  ASSUME BallotInv, NEW id \in EscrowIds, NEW side \in BOOLEAN
  PROVE  Side(id, side) = {juror \in openedBar[id] : sealedBar[id][juror] = Choice(side)}
<1>1. ASSUME NEW juror \in Jurors, <<id, juror>> \in DOMAIN jurorVotes
      PROVE  jurorVotes[<<id, juror>>] = side <=> Chosen(id, juror) = Choice(side)
  <2>1. jurorVotes[<<id, juror>>] \in BOOLEAN
    BY <1>1, VotesAreBoolean
  <2>2. Chosen(id, juror) = Choice(jurorVotes[<<id, juror>>])
    <3>1. <<id, juror>> \notin DOMAIN jurorCommits
      BY <1>1 DEF BallotInv, BallotIntegrity
    <3> QED
      BY <1>1, <3>1 DEF Chosen
  <2>3. \A a, b \in BOOLEAN : Choice(a) = Choice(b) <=> a = b
    <3>1. Choice(TRUE) # Choice(FALSE)
      BY SMT DEF Choice
    <3> QED
      BY <3>1, Zenon
  <2> QED
    BY <2>1, <2>2, <2>3, Zenon
<1>2. \A juror \in Jurors : sealedBar[id][juror] = Chosen(id, juror)
  BY DEF sealedBar
<1>3. openedBar[id] = Revealed(id)
  BY DEF openedBar
<1> QED
  BY <1>1, <1>2, <1>3, Zenon DEF Side, Revealed

\* Counting means the same to the abstract specification.
LEMMA CountsAgree ==
  ASSUME NEW S
  PROVE  Ballot!Cardinality(S) = Cardinality(S)
  BY Zenon DEF Cardinality, Ballot!Cardinality

LEMMA ResolveCloses ==
  ASSUME BallotInv, [Next]_vars, NEW id \in EscrowIds, ResolveDispute(id)
  PROVE  Ballot!Close(id)
<1>1. /\ OpenDispute(id)
      /\ UNCHANGED ballotVars
      /\ id \in DOMAIN disputes /\ disputes[id] \in DisputeRecord
      /\ disputes' = [disputes EXCEPT ![id].resolved = TRUE,
                                      ![id].ruling_for_depositor = RulingFor(id)]
  BY DEF ResolveDispute, OpenDispute, BallotInv, VaultInv, FeeInv, TypeOK, IsStore
<1>2. sealedBar' = sealedBar /\ openedBar' = openedBar
  BY <1>1, ChoicesFollowEntries
<1>3. outcomeBar[id] = "None"
  BY <1>1, OpenHasNoRuling DEF outcomeBar
<1>4. Cardinality(Side(id, TRUE)) >= Cardinality(Side(id, FALSE)) <=> RulingFor(id)
  BY VotesAreCounted, Zenon DEF RulingFor
<1>5. Ruling(id)' = Choice(RulingFor(id))
  <2>1. /\ id \in DOMAIN disputes'
        /\ disputes'[id].resolved = TRUE
        /\ disputes'[id].ruling_for_depositor = RulingFor(id)
    BY <1>1 DEF DisputeRecord
  <2> QED
    BY <2>1, Zenon DEF Ruling, Choice
<1>6. \A other \in EscrowIds \ {id} : Ruling(other)' = Ruling(other)
  BY <1>1, Zenon DEF Ruling
<1>7. openedBar[id] # {}
  <2>1. Side(id, TRUE)' \union Side(id, FALSE)' # {}
    BY ResolveRules, Zenon DEF RulingIsRight
  <2>2. Side(id, TRUE)' = Side(id, TRUE) /\ Side(id, FALSE)' = Side(id, FALSE)
    BY <1>1 DEF Side, ballotVars
  <2>3. Side(id, TRUE) \union Side(id, FALSE) \subseteq Revealed(id)
    BY DEF Side, Revealed
  <2> QED
    BY <2>1, <2>2, <2>3 DEF openedBar
<1>8. /\ Side(id, TRUE) = Ballot!VotersFor(id, "For")
      /\ Side(id, FALSE) = Ballot!VotersFor(id, "Against")
  <2>1. Choice(TRUE) = "For" /\ Choice(FALSE) = "Against"
    BY Zenon DEF Choice
  <2>2. /\ Side(id, TRUE) = {juror \in openedBar[id] : sealedBar[id][juror] = "For"}
        /\ Side(id, FALSE) = {juror \in openedBar[id] : sealedBar[id][juror] = "Against"}
    BY <2>1, SideIsVotersFor, Zenon
  <2> QED
    BY <2>2, Zenon DEF Ballot!VotersFor, openedBar, sealedBar
<1>9. outcomeBar' = [outcomeBar EXCEPT ![id] =
         IF Cardinality(Ballot!VotersFor(id, "For")) >= Cardinality(Ballot!VotersFor(id, "Against"))
           THEN "For" ELSE "Against"]
  <2> DEFINE outcome == IF Cardinality(Side(id, TRUE)) >= Cardinality(Side(id, FALSE))
                          THEN "For" ELSE "Against"
  <2>1. Ruling(id)' = outcome
    BY <1>4, <1>5, Zenon DEF Choice
  <2> HIDE DEF outcome, Ruling
  <2>2. outcomeBar' = [outcomeBar EXCEPT ![id] = outcome]
    BY <1>6, <2>1 DEF outcomeBar
  <2> QED
    BY <1>8, <2>2, Zenon DEF outcome
<1>10. /\ Cardinality(Ballot!VotersFor(id, "For")) = Ballot!Cardinality(Ballot!VotersFor(id, "For"))
       /\ Cardinality(Ballot!VotersFor(id, "Against")) =
            Ballot!Cardinality(Ballot!VotersFor(id, "Against"))
  BY CountsAgree, Zenon
<1> QED
  BY <1>2, <1>3, <1>7, <1>9, <1>10, Zenon
     DEF Ballot!Close, sealedBar, openedBar, outcomeBar

LEMMA BallotSteps ==
  ASSUME BallotInv, [Next]_vars
  PROVE  [Ballot!BallotNext]_(Ballot!secretVars)
<1>1. ASSUME NEW id \in EscrowIds, NEW juror \in Jurors, NEW vote \in BOOLEAN,
             NEW salt \in Salts,
             CommitVote(id, juror, HashVote(vote, salt)) \/ RevealVote(id, juror, vote, salt)
      PROVE  Ballot!BallotNext
  <2>1. Ballot!Seal(id, juror) \/ Ballot!Open(id, juror)
    BY <1>1, CommitSeals, RevealOpens
  <2> QED
    BY <2>1 DEF Ballot!BallotNext
<1>2. ASSUME NEW id \in EscrowIds, ResolveDispute(id)
      PROVE  Ballot!BallotNext
  <2>1. Ballot!Close(id)
    BY <1>2, ResolveCloses
  <2> QED
    BY <2>1 DEF Ballot!BallotNext
<1>3. CASE /\ UNCHANGED ballotVars
           /\ \A id \in EscrowIds : ~ResolveDispute(id)
  <2>1. sealedBar' = sealedBar /\ openedBar' = openedBar
    BY <1>3, ChoicesFollowEntries
  <2>2. \A id \in EscrowIds : Ruling(id)' = Ruling(id)
    BY <1>3, RulingKept DEF BallotInv
  <2>3. outcomeBar' = outcomeBar
    <3> HIDE DEF Ruling
    <3> QED
      BY <2>2 DEF outcomeBar
  <2> QED
    BY <2>1, <2>3, Zenon DEF Ballot!secretVars, sealedBar, openedBar, outcomeBar
<1> QED
  BY <1>1, <1>2, <1>3, BallotsUntouched

(***************************************************************************)
(* Every dispute's ballot behaves as SecretBallot promises, for every       *)
(* number of jurors and disputes and every length of the windows: a choice  *)
(* is sealed once and before any is known, is counted as it was sealed, and *)
(* the majority of the choices opened closes the ballot, once.              *)
(***************************************************************************)
THEOREM BallotImplemented == Spec => ImplementsBallot
<1>1. Init => Ballot!BallotInit
  <2> SUFFICES ASSUME Init PROVE Ballot!BallotInit
    OBVIOUS
  <2>1. DOMAIN disputes = {} /\ DOMAIN jurorVotes = {} /\ DOMAIN jurorCommits = {}
    BY DEF Init, EmptyStore
  <2> QED
    BY <2>1 DEF Ballot!BallotInit, Chosen, Revealed, Ruling
<1>2. BallotInv /\ [Next]_vars => [Ballot!BallotNext]_(Ballot!secretVars)
  BY BallotSteps
<1> QED
  BY <1>1, <1>2, BallotInvCorrect, PTL DEF Spec, ImplementsBallot, Ballot!BallotSpec
=============================================================================
