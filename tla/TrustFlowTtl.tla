---------------------------- MODULE TrustFlowTtl ----------------------------
(***************************************************************************)
(* State archival in the TrustFlow contract: every storage entry has a last *)
(* ledger, a call that needs an entry past it traps, and each call extends  *)
(* some of the entries it uses.  Keepers call bump_escrow_ttl and           *)
(* bump_juror_stake_ttl for what is left untouched.                         *)
(*                                                                          *)
(* Every action of TrustFlow is taken together with what it does to the     *)
(* lifetimes.  An archived entry is not lost: anyone can bring it back with *)
(* an operation of the network, RestoreFootprintOp, outside the contract.   *)
(***************************************************************************)
EXTENDS TrustFlow

CONSTANTS
  BUMP_AMOUNT, LIFETIME_THRESHOLD,  \* the same for the instance and the entries
  MIN_TTL,         \* ledgers the host keeps a new entry without a bump
  KEEPER_CADENCE   \* the most ledgers a keeper lets pass between two calls

VARIABLES
  liveUntil,   \* the last ledger of each entry, by the key of the entry
  escrowDue,   \* when the keeper of each escrow calls next, at the latest
  stakeDue     \* the same for the keeper of each juror's stake

ttlVars == <<vars, liveUntil, escrowDue, stakeDue>>

ASSUME TtlAssumption ==
  /\ LIFETIME_THRESHOLD \in Nat
  /\ BUMP_AMOUNT \in Nat /\ BUMP_AMOUNT >= LIFETIME_THRESHOLD
  /\ MIN_TTL \in Nat
  /\ KEEPER_CADENCE \in Nat \ {0}

\* The windows of a dispute are a day each, the threshold is 30 days.
ASSUME WindowAssumption ==
  COMMIT_WINDOW_LEDGERS + REVEAL_WINDOW_LEDGERS <= LIFETIME_THRESHOLD

-----------------------------------------------------------------------------
(***************************************************************************)
(* Keys (enum DataKey) and lifetimes                                        *)
(***************************************************************************)
InstanceKey              == <<"Instance">>
EscrowKey(id)            == <<"Escrow", id>>
FeeConfigKey(id)         == <<"EscrowFeeConfig", id>>
ReleasedKey(id)          == <<"EscrowReleased", id>>
MilestoneKey(id, index)  == <<"MilestoneReleased", id, index>>
DisputeKey(id)           == <<"Dispute", id>>
VotersKey(id)            == <<"DisputeVoters", id>>
CommitKey(id, juror)     == <<"JurorCommit", id, juror>>
VoteKey(id, juror)       == <<"JurorVote", id, juror>>
StakeKey(juror)          == <<"JurorStake", juror>>
SlashCountKey(juror)     == <<"JurorSlashCount", juror>>

\* storage().bump(key, LIFETIME_THRESHOLD, BUMP_AMOUNT): nothing happens to an
\* entry that has the threshold left.
Extended(until) ==
  IF until - now < LIFETIME_THRESHOLD THEN now + BUMP_AMOUNT ELSE until

Live(key) == key \in DOMAIN liveUntil => now <= liveUntil[key]

(***************************************************************************)
(* What a call does to the lifetimes, given the keys it reads, writes,      *)
(* extends and removes: it traps if one of them is archived, gives the ones *)
(* it creates the host's own lifetime, and extends the instance and those   *)
(* of the extended ones that exist (extend_persistent_ttl tests has).       *)
(***************************************************************************)
Access(read, written, extended, removed) ==
  LET present    == DOMAIN liveUntil
      until(key) == IF key \in present THEN liveUntil[key] ELSE now + MIN_TTL
  IN  /\ \A key \in {InstanceKey} \union read \union written \union extended \union removed :
           Live(key)
      /\ liveUntil' = [key \in (present \union written) \ removed |->
           IF key \in extended \union {InstanceKey} THEN Extended(until(key)) ELSE until(key)]

-----------------------------------------------------------------------------
(***************************************************************************)
(* The calls of TrustFlow with their lifetimes                              *)
(***************************************************************************)

AdminCall ==
  /\ AdminStep
  /\ Access({}, {}, {}, {})
  /\ UNCHANGED <<escrowDue, stakeDue>>

\* Whoever keeps a stake alive starts with the juror's first stake.  Later ones
\* do not stand for a keeper's call: they leave the slash count alone.
StakingCall ==
  \E juror \in Jurors, amount \in StakeAmounts :
    /\ Stake(juror, amount) \/ Unstake(juror, amount)
    /\ Access({}, {StakeKey(juror)}, {StakeKey(juror)}, {})
    /\ stakeDue' = Put(stakeDue, juror, GetOr(stakeDue, juror, now + KEEPER_CADENCE))
    /\ UNCHANGED escrowDue

OpeningCall ==
  LET id      == escrowCounter + 1
      entries == {EscrowKey(id), FeeConfigKey(id)}
  IN  /\ \E depositor \in Depositors, beneficiary \in Beneficiaries :
           \/ \E amount \in EscrowAmounts : CreateEscrow(depositor, beneficiary, amount)
           \/ \E milestones \in MilestonePlans : InitEscrow(depositor, beneficiary, milestones)
      /\ Access({}, entries, entries, {})
      /\ escrowDue' = Put(escrowDue, id, now + KEEPER_CADENCE)
      /\ UNCHANGED stakeDue

ReleaseCall ==
  \E id \in DOMAIN escrows, gross \in TrancheAmounts, caller \in Depositors :
    \E index \in DOMAIN escrows[id].milestones :
      LET written == {EscrowKey(id), ReleasedKey(id), MilestoneKey(id, index)}
      IN  /\ ReleaseMilestoneTranche(id, index, gross, caller)
          /\ Access({}, written, written \union {FeeConfigKey(id)}, {})
          /\ UNCHANGED <<escrowDue, stakeDue>>

RaiseCall ==
  \E id \in EscrowIds, caller \in (Depositors \union Beneficiaries) \ {Contract} :
    LET written == {EscrowKey(id), DisputeKey(id)}
    IN  /\ RaiseDispute(id, caller)
        /\ Access({}, written, written \union {ReleasedKey(id)}, {})
        /\ UNCHANGED <<escrowDue, stakeDue>>

\* Deviation: the commitment is left with the lifetime the host gave it.
DisputeOnly(id, juror) == {DisputeKey(id)}

ExtendedByCommit(id, juror) == {CommitKey(id, juror), DisputeKey(id)}

CommitCall ==
  \E id \in EscrowIds, juror \in Jurors, vote \in BOOLEAN, salt \in Salts :
    /\ CommitVote(id, juror, HashVote(vote, salt))
    /\ Access({StakeKey(juror)}, {CommitKey(id, juror)}, ExtendedByCommit(id, juror), {})
    /\ UNCHANGED <<escrowDue, stakeDue>>

RevealCall ==
  \E id \in EscrowIds, juror \in Jurors, vote \in BOOLEAN, salt \in Salts :
    LET written == {VoteKey(id, juror), VotersKey(id)}
    IN  /\ RevealVote(id, juror, vote, salt)
        /\ Access({}, written, written \union {DisputeKey(id)}, {CommitKey(id, juror)})
        /\ UNCHANGED <<escrowDue, stakeDue>>

\* What resolve_dispute reads besides what it writes.
BallotKeys(id) ==
  {VotersKey(id), ReleasedKey(id)}
    \union {VoteKey(id, disputeVoters[id][k]) : k \in DOMAIN disputeVoters[id]}

\* What it writes, all of which it extends.
RulingKeys(id) ==
  LET minority == MinorityOf(id, RulingFor(id))
  IN  {DisputeKey(id), EscrowKey(id)}
        \union {StakeKey(juror) : juror \in minority}
        \union {SlashCountKey(juror) : juror \in minority}

ResolveCallOn(id) ==
  /\ ResolveDispute(id)
  /\ Access(BallotKeys(id), RulingKeys(id), RulingKeys(id), {})
  /\ UNCHANGED <<escrowDue, stakeDue>>

ResolveCall == \E id \in EscrowIds : ResolveCallOn(id)

\* A transfer to the contract's address touches entries of the token only.
GiftCall ==
  /\ GiftStep
  /\ UNCHANGED <<liveUntil, escrowDue, stakeDue>>

-----------------------------------------------------------------------------
(***************************************************************************)
(* Maintenance                                                              *)
(***************************************************************************)

\* Deviation: the fee snapshot is forgotten.
BumpedWithoutFees(id) ==
  {EscrowKey(id), ReleasedKey(id), DisputeKey(id), VotersKey(id)}
    \union {MilestoneKey(id, index) : index \in DOMAIN escrows[id].milestones}

\* The voter list exists only with a dispute, so the nested test is the same.
Bumped(id) ==
  {EscrowKey(id), FeeConfigKey(id), ReleasedKey(id), DisputeKey(id), VotersKey(id)}
    \union {MilestoneKey(id, index) : index \in DOMAIN escrows[id].milestones}

BumpEscrowTtl(id) ==
  /\ id \in DOMAIN escrows
  /\ Access({}, {}, Bumped(id), {})
  /\ escrowDue' = [escrowDue EXCEPT ![id] = now + KEEPER_CADENCE]
  /\ UNCHANGED <<vars, stakeDue>>

\* Deviation: the slash count is forgotten.
BumpedStakeOnly(juror) == {StakeKey(juror)}

BumpedStake(juror) == {StakeKey(juror), SlashCountKey(juror)}

BumpJurorStakeTtl(juror) ==
  /\ StakeKey(juror) \in DOMAIN liveUntil
  /\ Access({}, {}, BumpedStake(juror), {})
  /\ stakeDue' = [stakeDue EXCEPT ![juror] = now + KEEPER_CADENCE]
  /\ UNCHANGED <<vars, escrowDue>>

\* What both calls return: sequence().saturating_add(PERSISTENT_BUMP_AMOUNT).
LiveUntilLedger == LaterLedger(now, BUMP_AMOUNT)

\* RestoreFootprintOp: an archived entry is back, with the host's own lifetime.
Restore(key) ==
  /\ key \in DOMAIN liveUntil
  /\ ~Live(key)
  /\ liveUntil' = [liveUntil EXCEPT ![key] = now + MIN_TTL]
  /\ UNCHANGED <<vars, escrowDue, stakeDue>>

\* A ledger closes; the keepers have called in time.
CloseLedger ==
  /\ \A id \in DOMAIN escrowDue : now < escrowDue[id]
  /\ \A juror \in DOMAIN stakeDue : now < stakeDue[juror]
  /\ Tick
  /\ UNCHANGED <<liveUntil, escrowDue, stakeDue>>

-----------------------------------------------------------------------------
TtlInit ==
  /\ Init
  /\ liveUntil = [key \in {InstanceKey} |-> Extended(now + MIN_TTL)]
  /\ escrowDue = EmptyStore
  /\ stakeDue = EmptyStore

DisputeCall == RaiseCall \/ CommitCall \/ RevealCall \/ ResolveCall

KeeperCall ==
  \/ \E id \in EscrowIds : BumpEscrowTtl(id)
  \/ \E juror \in Jurors : BumpJurorStakeTtl(juror)

TtlNext ==
  \/ AdminCall \/ StakingCall \/ OpeningCall \/ ReleaseCall \/ DisputeCall \/ GiftCall
  \/ KeeperCall \/ (\E key \in DOMAIN liveUntil : Restore(key)) \/ CloseLedger

TtlSpec == TtlInit /\ [][TtlNext]_ttlVars

UnpauseCall ==
  /\ \E caller \in Wardens : Unpause(caller)
  /\ Access({}, {}, {}, {})
  /\ UNCHANGED <<escrowDue, stakeDue>>

\* What resolve_dispute needs live, whoever is in the minority.
ResolveKeys(id) ==
  {InstanceKey, EscrowKey(id), DisputeKey(id), VotersKey(id), ReleasedKey(id)}
    \union UNION {{VoteKey(id, juror), StakeKey(juror), SlashCountKey(juror)} : juror \in Jurors}

(***************************************************************************)
(* Fairness: ledgers keep closing and the keepers keep their cadence; an    *)
(* administrator who paused the contract eventually resumes it; whoever     *)
(* wants a dispute resolved restores what resolve_dispute finds archived    *)
(* and calls it, if the contract keeps being able to take the call.  No     *)
(* juror is required to vote, and no party to do anything else.             *)
(***************************************************************************)
FairTtlSpec ==
  /\ TtlSpec
  /\ WF_ttlVars(CloseLedger)
  /\ WF_ttlVars(UnpauseCall)
  /\ \A juror \in Jurors : WF_ttlVars(BumpJurorStakeTtl(juror))
  /\ \A id \in EscrowIds :
       /\ WF_ttlVars(BumpEscrowTtl(id))
       /\ \A key \in ResolveKeys(id) : WF_ttlVars(Restore(key))
       /\ SF_ttlVars(ResolveCallOn(id))

-----------------------------------------------------------------------------
\* The entries an escrow has for itself, the ballot of its jurors excepted.
EscrowEntries(id) ==
  {EscrowKey(id), FeeConfigKey(id), ReleasedKey(id), DisputeKey(id), VotersKey(id)}
    \union {MilestoneKey(id, index) : index \in DOMAIN escrows[id].milestones}

(***************************************************************************)
(* No entry of an escrow is archived, nor is the contract, under a keeper   *)
(* that calls bump_escrow_ttl within a threshold of the last call, whatever *)
(* entries appear between two calls and however the bumps are skipped.      *)
(***************************************************************************)
EscrowKept ==
  \A id \in DOMAIN escrows : \A key \in EscrowEntries(id) \union {InstanceKey} : Live(key)

(***************************************************************************)
(* The same for a juror's stake and slash count, without which              *)
(* resolve_dispute cannot slash the juror.                                  *)
(***************************************************************************)
StakeKept ==
  \A juror \in DOMAIN stakeDue : Live(StakeKey(juror)) /\ Live(SlashCountKey(juror))

(***************************************************************************)
(* The ballot, which no keeper reaches, lasts as long as it has to: a       *)
(* commitment can be revealed while the reveal window of its dispute is     *)
(* open, and resolve_dispute finds everything it reads and writes for a     *)
(* threshold after the commit window closed.  Later the votes are archived, *)
(* however well the escrow and the stakes are kept, and the call traps      *)
(* until somebody restores them.                                            *)
(***************************************************************************)
BallotLasts ==
  \A id \in DOMAIN disputes :
    LET dispute == disputes[id]
    IN  /\ now < dispute.reveal_deadline =>
             \A juror \in Jurors :
               <<id, juror>> \in DOMAIN jurorCommits => Live(CommitKey(id, juror))
        /\ /\ OpenDispute(id) /\ VotesCast(id)
           /\ now <= dispute.commit_deadline + LIFETIME_THRESHOLD
           => \A key \in BallotKeys(id) \union RulingKeys(id) : Live(key)

(***************************************************************************)
(* A dispute with a revealed vote is settled in the end, however often the  *)
(* contract is paused and whatever is archived on the way: resolve_dispute  *)
(* may trap, but not for ever once its entries are restored.                *)
(***************************************************************************)
VotedDisputeSettles ==
  \A id \in EscrowIds :
    disputeVoters[id] # <<>> ~> EscrowPhase(id) = "Settled"

-----------------------------------------------------------------------------
(***************************************************************************)
(* What a comment says and the code does not do.                            *)
(***************************************************************************)

(***************************************************************************)
(* What bump_escrow_ttl returns is a ledger up to which everything it       *)
(* extends lives.                                                           *)
(***************************************************************************)
BumpGuarantees ==
  [][\A id \in DOMAIN escrows :
       BumpEscrowTtl(id) =>
         \A key \in EscrowEntries(id) :
           key \in DOMAIN liveUntil => liveUntil'[key] >= LiveUntilLedger]_ttlVars
=============================================================================
