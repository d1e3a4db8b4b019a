-------------------------- MODULE TrustFlowTtlProofs --------------------------
(***************************************************************************)
(* Keepers that call within a threshold of their last call keep every entry *)
(* of every escrow, the contract instance and every stake out of the        *)
(* archive, for every threshold, bump, window and number of escrows.        *)
(*                                                                          *)
(* No entry can be followed by itself: a bump is skipped when the entry has *)
(* a threshold left.  But whatever a call extends has a threshold left      *)
(* afterwards, and a call extends what it creates; so when the keeper is    *)
(* due, the entries it found and those that appeared since are still there. *)
(* Commitments and votes, which no keeper reaches, last as long as the      *)
(* ballot needs them.  Restoring an archived entry makes no lifetime        *)
(* shorter.                                                                 *)
(***************************************************************************)
EXTENDS TrustFlowTtl, TrustFlowBallotProofs

\* The instance is there, and last ledgers are ledgers.
Lifetimes ==
  /\ InstanceKey \in DOMAIN liveUntil
  /\ \A key \in DOMAIN liveUntil : liveUntil[key] \in Nat

\* A keeper that is due at the given ledger finds the entry alive.
Reaches(due, key) == key \in DOMAIN liveUntil => due <= liveUntil[key]

OnTime(due) == due \in Nat /\ now <= due /\ due <= now + KEEPER_CADENCE

EscrowsKept ==
  /\ DOMAIN escrowDue = DOMAIN escrows
  /\ \A id \in DOMAIN escrows :
       /\ OnTime(escrowDue[id])
       /\ \A key \in EscrowEntries(id) \union {InstanceKey} : Reaches(escrowDue[id], key)

\* The key is one of the entries an escrow of the id may have.
Belongs(key, id) ==
  \/ key \in {EscrowKey(id), FeeConfigKey(id), ReleasedKey(id), DisputeKey(id), VotersKey(id)}
  \/ \E index \in Nat : key = MilestoneKey(id, index)

\* An id not given out yet has no entry that a new escrow could inherit.
NoEarlyEntries ==
  \A key \in DOMAIN liveUntil, id \in EscrowIds \ DOMAIN escrows : ~Belongs(key, id)

KeeperInv == VaultInv /\ Lifetimes /\ EscrowsKept /\ NoEarlyEntries

-----------------------------------------------------------------------------
\* What is extended has a threshold left, and no lifetime gets shorter.
LEMMA ExtendedLonger ==
  ASSUME now \in Nat, NEW until \in Nat
  PROVE  /\ Extended(until) \in Nat
         /\ Extended(until) >= until
         /\ Extended(until) >= now + LIFETIME_THRESHOLD
  BY TtlAssumption DEF Extended

\* A call that extends whatever it writes.
LEMMA AccessGrows ==
  ASSUME now \in Nat, Lifetimes,
         NEW read, NEW written, NEW extended, NEW removed,
         Access(read, written, extended, removed),
         written \subseteq extended, InstanceKey \notin removed
  PROVE  /\ Lifetimes'
         /\ DOMAIN liveUntil' \subseteq DOMAIN liveUntil \union written
         /\ \A key \in DOMAIN liveUntil' :
              /\ key \in DOMAIN liveUntil => liveUntil'[key] >= liveUntil[key]
              /\ key \in extended \union {InstanceKey} => liveUntil'[key] >= now + LIFETIME_THRESHOLD
<1> DEFINE until(key) == IF key \in DOMAIN liveUntil THEN liveUntil[key] ELSE now + MIN_TTL
           after(key) == IF key \in extended \union {InstanceKey}
                           THEN Extended(until(key)) ELSE until(key)
<1>1. liveUntil' = [key \in (DOMAIN liveUntil \union written) \ removed |-> after(key)]
  BY DEF Access
<1>2. \A key : until(key) \in Nat /\ (key \in DOMAIN liveUntil => until(key) = liveUntil[key])
  BY TtlAssumption DEF Lifetimes
<1> HIDE DEF until
<1>3. \A key : /\ after(key) \in Nat /\ after(key) >= until(key)
               /\ key \in extended \union {InstanceKey} => after(key) >= now + LIFETIME_THRESHOLD
  BY <1>2, ExtendedLonger
<1> HIDE DEF after
<1>4. DOMAIN liveUntil' = (DOMAIN liveUntil \union written) \ removed
  BY <1>1
<1>5. \A key \in DOMAIN liveUntil' : liveUntil'[key] = after(key)
  BY <1>1
<1>6. Lifetimes'
  BY <1>3, <1>4, <1>5 DEF Lifetimes, InstanceKey
<1> QED
  BY <1>2, <1>3, <1>4, <1>5, <1>6

-----------------------------------------------------------------------------
LEMMA ClockType ==
  ASSUME VaultInv
  PROVE  now \in Nat
  BY BoundsAssumption DEF VaultInv, FeeInv, TypeOK, Ledgers

\* Two keys are different: of two kinds, or of two escrows.
LEMMA InstanceApart ==
  ASSUME NEW id
  PROVE  ~Belongs(InstanceKey, id)
<1>1. \A a, b : InstanceKey # <<a, b>>
  BY DEF InstanceKey
<1>2. \A a, b, c : InstanceKey # <<a, b, c>>
  BY DEF InstanceKey
<1> QED
  BY <1>1, <1>2 DEF Belongs, EscrowKey, FeeConfigKey, ReleasedKey, DisputeKey, VotersKey,
                    MilestoneKey

LEMMA EscrowsApart ==
  ASSUME NEW id, NEW other, NEW key, Belongs(key, id), Belongs(key, other)
  PROVE  id = other
<1>1. key[2] = id
  BY DEF Belongs, EscrowKey, FeeConfigKey, ReleasedKey, DisputeKey, VotersKey, MilestoneKey
<1>2. key[2] = other
  BY DEF Belongs, EscrowKey, FeeConfigKey, ReleasedKey, DisputeKey, VotersKey, MilestoneKey
<1> QED
  BY <1>1, <1>2

\* Belongs does not depend on the state.
LEMMA BelongsForGood ==
  ASSUME NEW key, NEW id
  PROVE  Belongs(key, id)' <=> Belongs(key, id)
  BY DEF Belongs, EscrowKey, FeeConfigKey, ReleasedKey, DisputeKey, VotersKey, MilestoneKey

\* What the parts of EscrowsKept say in the next state, spelled out.
LEMMA KeptNext ==
  ASSUME DOMAIN escrowDue' = DOMAIN escrows',
         \A id \in DOMAIN escrows' :
           /\ escrowDue'[id] \in Nat /\ now' <= escrowDue'[id]
           /\ escrowDue'[id] <= now' + KEEPER_CADENCE
           /\ \A key \in EscrowEntries(id)' \union {InstanceKey} :
                key \in DOMAIN liveUntil' => escrowDue'[id] <= liveUntil'[key]
  PROVE  EscrowsKept'
  BY DEF EscrowsKept, OnTime, Reaches, InstanceKey

\* The entries of an escrow that is there stay the same.
LEMMA EntriesKept ==
  ASSUME VaultInv, [Next]_vars, NEW id \in DOMAIN escrows
  PROVE  EscrowEntries(id)' = EscrowEntries(id)
<1>1. DOMAIN escrows'[id].milestones = DOMAIN escrows[id].milestones
  BY MilestonesKept
<1> QED
  BY <1>1 DEF EscrowEntries, EscrowKey, FeeConfigKey, ReleasedKey, DisputeKey, VotersKey,
              MilestoneKey

(***************************************************************************)
(* A keeper that was in time for an entry still is after a call, whether    *)
(* the entry was there or the call made it.                                 *)
(***************************************************************************)
LEMMA StillReached ==
  ASSUME KEEPER_CADENCE <= LIFETIME_THRESHOLD, now \in Nat, Lifetimes,
         NEW read, NEW written, NEW extended, NEW removed,
         Access(read, written, extended, removed),
         written \subseteq extended, InstanceKey \notin removed,
         NEW due, OnTime(due), NEW key \in DOMAIN liveUntil', Reaches(due, key)
  PROVE  due <= liveUntil'[key]
<1>0. LIFETIME_THRESHOLD \in Nat /\ KEEPER_CADENCE \in Nat
  BY TtlAssumption
<1>1. /\ Lifetimes'
      /\ DOMAIN liveUntil' \subseteq DOMAIN liveUntil \union written
      /\ key \in DOMAIN liveUntil => liveUntil'[key] >= liveUntil[key]
      /\ key \in extended \union {InstanceKey} => liveUntil'[key] >= now + LIFETIME_THRESHOLD
  BY AccessGrows
<1>2. liveUntil'[key] \in Nat
  BY <1>1 DEF Lifetimes
<1>3. CASE key \in DOMAIN liveUntil
  <2>1. liveUntil[key] \in Nat /\ due <= liveUntil[key]
    BY <1>3 DEF Lifetimes, Reaches
  <2>2. liveUntil'[key] >= liveUntil[key] /\ due \in Nat
    BY <1>1, <1>3 DEF OnTime
  <2> QED
    BY <1>2, <2>1, <2>2
<1>4. CASE key \notin DOMAIN liveUntil
  <2>1. liveUntil'[key] >= now + LIFETIME_THRESHOLD
    BY <1>1, <1>4
  <2>2. due \in Nat /\ due <= now + KEEPER_CADENCE
    BY DEF OnTime
  <2> QED
    BY <1>0, <1>2, <2>1, <2>2
<1> QED
  BY <1>3, <1>4

-----------------------------------------------------------------------------
(***************************************************************************)
(* A call that opens no escrow and is no keeper's: it leaves the due times  *)
(* alone, and writes nothing for an id that is not given out.               *)
(***************************************************************************)
LEMMA CallKeeps ==
  ASSUME KEEPER_CADENCE <= LIFETIME_THRESHOLD,
         KeeperInv, VaultInv', [Next]_vars, now' = now,
         DOMAIN escrows' = DOMAIN escrows, escrowDue' = escrowDue,
         NEW read, NEW written, NEW extended, NEW removed,
         Access(read, written, extended, removed),
         written \subseteq extended, InstanceKey \notin removed,
         \A key \in written, id \in EscrowIds \ DOMAIN escrows : ~Belongs(key, id)
  PROVE  KeeperInv'
<1>0. now \in Nat /\ Lifetimes /\ VaultInv
  BY ClockType DEF KeeperInv
<1>1. Lifetimes' /\ DOMAIN liveUntil' \subseteq DOMAIN liveUntil \union written
  BY <1>0, AccessGrows
<1>2. NoEarlyEntries'
  <2>1. \A key \in DOMAIN liveUntil', id \in EscrowIds \ DOMAIN escrows : ~Belongs(key, id)
    BY <1>1 DEF KeeperInv, NoEarlyEntries
  <2> QED
    BY <2>1, BelongsForGood DEF NoEarlyEntries
<1>3. EscrowsKept'
  <2>1. ASSUME NEW id \in DOMAIN escrows
        PROVE  /\ escrowDue[id] \in Nat /\ now <= escrowDue[id]
               /\ escrowDue[id] <= now + KEEPER_CADENCE
               /\ \A key \in EscrowEntries(id)' \union {InstanceKey} :
                    key \in DOMAIN liveUntil' => escrowDue[id] <= liveUntil'[key]
    <3>1. OnTime(escrowDue[id])
      BY DEF KeeperInv, EscrowsKept
    <3>2. \A key \in EscrowEntries(id)' \union {InstanceKey} : Reaches(escrowDue[id], key)
      BY <1>0, EntriesKept DEF KeeperInv, EscrowsKept
    <3>3. \A key \in EscrowEntries(id)' \union {InstanceKey} :
            key \in DOMAIN liveUntil' => escrowDue[id] <= liveUntil'[key]
      BY <1>0, <3>1, <3>2, StillReached
    <3> QED
      BY <3>1, <3>3 DEF OnTime
  <2>2. DOMAIN escrowDue' = DOMAIN escrows'
    BY DEF KeeperInv, EscrowsKept
  <2> QED
    BY <2>1, <2>2, KeptNext
<1> QED
  BY <1>1, <1>2, <1>3 DEF KeeperInv

\* The keeper's own call.
LEMMA BumpKeeps ==
  ASSUME KEEPER_CADENCE <= LIFETIME_THRESHOLD,
         KeeperInv, NEW id \in EscrowIds, BumpEscrowTtl(id)
  PROVE  KeeperInv'
<1>0. now \in Nat /\ Lifetimes /\ VaultInv /\ LIFETIME_THRESHOLD \in Nat /\ KEEPER_CADENCE \in Nat
  BY ClockType, TtlAssumption DEF KeeperInv
<1>a. /\ UNCHANGED vars /\ Access({}, {}, Bumped(id), {}) /\ id \in DOMAIN escrows
      /\ escrowDue' = [escrowDue EXCEPT ![id] = now + KEEPER_CADENCE]
  BY DEF BumpEscrowTtl
<1>b. UNCHANGED <<escrows, now>>
  BY <1>a DEF vars, escrowVars
<1>c. VaultInv'
  BY <1>0, <1>a, VaultInvNext
<1>1. /\ Lifetimes' /\ DOMAIN liveUntil' \subseteq DOMAIN liveUntil \union {}
      /\ \A key \in DOMAIN liveUntil' :
           key \in Bumped(id) \union {InstanceKey} => liveUntil'[key] >= now + LIFETIME_THRESHOLD
  BY <1>0, <1>a, AccessGrows
<1>2. NoEarlyEntries'
  <2>1. \A key \in DOMAIN liveUntil', any \in EscrowIds \ DOMAIN escrows : ~Belongs(key, any)
    BY <1>1 DEF KeeperInv, NoEarlyEntries
  <2> QED
    BY <1>b, <2>1, BelongsForGood DEF NoEarlyEntries
<1>3. EscrowsKept'
  <2>1. ASSUME NEW any \in DOMAIN escrows
        PROVE  /\ escrowDue'[any] \in Nat /\ now <= escrowDue'[any]
               /\ escrowDue'[any] <= now + KEEPER_CADENCE
               /\ \A key \in EscrowEntries(any)' \union {InstanceKey} :
                    key \in DOMAIN liveUntil' => escrowDue'[any] <= liveUntil'[key]
    <3>1. EscrowEntries(any)' = EscrowEntries(any)
      BY <1>0, <1>a, EntriesKept
    <3>2. OnTime(escrowDue[any]) /\ any \in DOMAIN escrowDue
      BY DEF KeeperInv, EscrowsKept
    <3>3. CASE any = id
      <4>1. escrowDue'[any] = now + KEEPER_CADENCE
        BY <1>a, <3>2, <3>3
      <4>2. \A key \in EscrowEntries(any)' \union {InstanceKey} :
              key \in DOMAIN liveUntil' =>
                liveUntil'[key] \in Nat /\ liveUntil'[key] >= now + LIFETIME_THRESHOLD
        BY <1>1, <3>1, <3>3 DEF EscrowEntries, Bumped, Lifetimes
      <4> QED
        BY <1>0, <4>1, <4>2
    <3>4. CASE any # id
      <4>1. escrowDue'[any] = escrowDue[any]
        BY <1>a, <3>2, <3>4
      <4>2. \A key \in EscrowEntries(any)' \union {InstanceKey} : Reaches(escrowDue[any], key)
        BY <3>1 DEF KeeperInv, EscrowsKept
      <4>3. \A key \in EscrowEntries(any)' \union {InstanceKey} :
              key \in DOMAIN liveUntil' => escrowDue[any] <= liveUntil'[key]
        BY <1>0, <1>a, <3>2, <4>2, StillReached
      <4> QED
        BY <3>2, <4>1, <4>3 DEF OnTime
    <3> QED
      BY <3>3, <3>4
  <2>2. DOMAIN escrowDue' = DOMAIN escrows'
    BY <1>a, <1>b DEF KeeperInv, EscrowsKept
  <2> QED
    BY <1>b, <2>1, <2>2, KeptNext
<1> QED
  BY <1>1, <1>2, <1>3, <1>c DEF KeeperInv

\* Opening an escrow: nothing of the new id was there before.
LEMMA OpeningKeeps ==
  ASSUME KEEPER_CADENCE <= LIFETIME_THRESHOLD,
         KeeperInv, VaultInv', [Next]_vars, OpeningCall
  PROVE  KeeperInv'
<1> DEFINE id == escrowCounter + 1
           entries == {EscrowKey(id), FeeConfigKey(id)}
<1>0. /\ now \in Nat /\ Lifetimes /\ VaultInv /\ FeeInv
      /\ LIFETIME_THRESHOLD \in Nat /\ KEEPER_CADENCE \in Nat
  BY ClockType, TtlAssumption DEF KeeperInv, VaultInv
<1>a. /\ \E depositor, beneficiary, amount, milestones :
           OpenEscrow(depositor, beneficiary, amount, milestones)
      /\ Access({}, entries, entries, {})
      /\ escrowDue' = Put(escrowDue, id, now + KEEPER_CADENCE)
  BY DEF OpeningCall, CreateEscrow, InitEscrow
<1>b. now' = now /\ id \in EscrowIds \ DOMAIN escrows /\ DOMAIN escrows' = DOMAIN escrows \union {id}
  <2>1. id \notin DOMAIN escrows
    BY <1>0 DEF FeeInv, TypeOK, Registry
  <2>2. now' = now /\ id \in EscrowIds /\ DOMAIN escrows' = DOMAIN escrows \union {id}
    BY <1>a DEF OpenEscrow, Put
  <2> QED
    BY <2>1, <2>2
<1>c. \A key \in entries : Belongs(key, id)
  BY DEF Belongs
<1> HIDE DEF id
<1>1. /\ Lifetimes' /\ DOMAIN liveUntil' \subseteq DOMAIN liveUntil \union entries
      /\ \A key \in DOMAIN liveUntil' :
           key \in entries \union {InstanceKey} => liveUntil'[key] >= now + LIFETIME_THRESHOLD
  BY <1>0, <1>a, AccessGrows, InstanceApart, <1>c
<1> HIDE DEF entries
<1>2. NoEarlyEntries'
  <2>1. ASSUME NEW key \in DOMAIN liveUntil', NEW any \in EscrowIds \ DOMAIN escrows',
               Belongs(key, any)
        PROVE  FALSE
    <3>1. any # id /\ any \in EscrowIds \ DOMAIN escrows
      BY <1>b
    <3>2. key \notin entries
      BY <1>c, <2>1, <3>1, EscrowsApart
    <3> QED
      BY <1>1, <2>1, <3>1, <3>2 DEF KeeperInv, NoEarlyEntries
  <2> QED
    BY <2>1, BelongsForGood DEF NoEarlyEntries
<1>3. EscrowsKept'
  <2>1. ASSUME NEW any \in DOMAIN escrows'
        PROVE  /\ escrowDue'[any] \in Nat /\ now <= escrowDue'[any]
               /\ escrowDue'[any] <= now + KEEPER_CADENCE
               /\ \A key \in EscrowEntries(any)' \union {InstanceKey} :
                    key \in DOMAIN liveUntil' => escrowDue'[any] <= liveUntil'[key]
    <3>1. CASE any = id
      <4>1. escrowDue'[any] = now + KEEPER_CADENCE
        BY <1>a, <3>1 DEF Put
      <4>2. \A key \in EscrowEntries(any)' : Belongs(key, id)
        <5>1. DOMAIN escrows'[any].milestones \subseteq Nat
          BY DEF VaultInv, FeeInv, TypeOK, IsStore, EscrowRecord
        <5> QED
          BY <3>1, <5>1 DEF EscrowEntries, Belongs, EscrowKey, FeeConfigKey, ReleasedKey, DisputeKey,
                            VotersKey, MilestoneKey
      <4>3. \A key \in EscrowEntries(any)' \union {InstanceKey} :
              key \in DOMAIN liveUntil' => key \in entries \union {InstanceKey}
        BY <1>1, <1>b, <4>2 DEF KeeperInv, NoEarlyEntries
      <4>4. \A key \in EscrowEntries(any)' \union {InstanceKey} :
              key \in DOMAIN liveUntil' =>
                liveUntil'[key] \in Nat /\ liveUntil'[key] >= now + LIFETIME_THRESHOLD
        BY <1>1, <4>3 DEF Lifetimes
      <4> QED
        BY <1>0, <4>1, <4>4
    <3>2. CASE any # id
      <4>0. any \in DOMAIN escrows
        BY <1>b, <3>2
      <4>1. OnTime(escrowDue[any]) /\ any \in DOMAIN escrowDue
        BY <4>0 DEF KeeperInv, EscrowsKept
      <4>2. escrowDue'[any] = escrowDue[any]
        BY <1>a, <3>2, <4>1 DEF Put
      <4>3. \A key \in EscrowEntries(any)' \union {InstanceKey} : Reaches(escrowDue[any], key)
        BY <1>0, <4>0, EntriesKept DEF KeeperInv, EscrowsKept
      <4>4. \A key \in EscrowEntries(any)' \union {InstanceKey} :
              key \in DOMAIN liveUntil' => escrowDue[any] <= liveUntil'[key]
        BY <1>0, <1>a, <4>1, <4>3, StillReached DEF entries
      <4> QED
        BY <4>1, <4>2, <4>4 DEF OnTime
    <3> QED
      BY <3>1, <3>2
  <2>2. DOMAIN escrowDue' = DOMAIN escrows'
    BY <1>a, <1>b DEF KeeperInv, EscrowsKept, Put
  <2> QED
    BY <1>b, <2>1, <2>2, KeptNext
<1> QED
  BY <1>1, <1>2, <1>3 DEF KeeperInv

-----------------------------------------------------------------------------
\* Keys of jurors and keys of escrows with a juror in them belong to no escrow.
LEMMA JurorKeysApart ==
  ASSUME NEW id, NEW other, NEW juror
  PROVE  /\ ~Belongs(StakeKey(juror), id)
         /\ ~Belongs(SlashCountKey(juror), id)
         /\ ~Belongs(CommitKey(other, juror), id)
         /\ ~Belongs(VoteKey(other, juror), id)
         /\ InstanceKey # CommitKey(other, juror)
<1>1. \A a \in {"JurorStake", "JurorSlashCount"}, index \in Nat :
        <<a, juror>> # MilestoneKey(id, index)
  BY DEF MilestoneKey
<1>2. \A a, b : <<a, other, juror>> # <<b, id>>
  OBVIOUS
<1>3. <<"JurorCommit", other, juror>>[1] = "JurorCommit" /\ <<"JurorVote", other, juror>>[1] = "JurorVote"
  OBVIOUS
<1>4. \A index \in Nat : MilestoneKey(id, index)[1] = "MilestoneReleased"
  BY DEF MilestoneKey
<1>5. ~Belongs(StakeKey(juror), id) /\ ~Belongs(SlashCountKey(juror), id)
  BY <1>1 DEF Belongs, StakeKey, SlashCountKey, EscrowKey, FeeConfigKey, ReleasedKey, DisputeKey,
              VotersKey
<1>6. ~Belongs(CommitKey(other, juror), id) /\ ~Belongs(VoteKey(other, juror), id)
  BY <1>2, <1>3, <1>4 DEF Belongs, CommitKey, VoteKey, EscrowKey, FeeConfigKey, ReleasedKey,
                          DisputeKey, VotersKey
<1>7. InstanceKey # CommitKey(other, juror)
  BY DEF InstanceKey, CommitKey
<1> QED
  BY <1>5, <1>6, <1>7

\* The juror has no part in the contract.
Bystander(juror) ==
  /\ jurorStakes[juror] = 0
  /\ \A id \in EscrowIds :
       /\ <<id, juror>> \notin DOMAIN jurorCommits
       /\ \A k \in DOMAIN disputeVoters[id] : disputeVoters[id][k] # juror

StakeEntries(juror) == {StakeKey(juror), SlashCountKey(juror)}

\* The entries of two jurors are different, and no entry of an escrow is a juror's.
LEMMA StakeEntriesApart ==
  ASSUME NEW juror, NEW key \in StakeEntries(juror)
  PROVE  /\ \A other : key \in StakeEntries(other) => other = juror
         /\ \A id : ~Belongs(key, id)
         /\ \A id, other : key # CommitKey(id, other) /\ key # VoteKey(id, other)
<1>1. \A other : key \in StakeEntries(other) => other = juror
  BY DEF StakeEntries, StakeKey, SlashCountKey
<1>2. \A id : ~Belongs(key, id)
  BY JurorKeysApart DEF StakeEntries
<1>3. \A id, other : key # CommitKey(id, other) /\ key # VoteKey(id, other)
  BY DEF StakeEntries, StakeKey, SlashCountKey, CommitKey, VoteKey
<1> QED
  BY <1>1, <1>2, <1>3

(***************************************************************************)
(* What a call may write, but for the stake of its own caller: entries of   *)
(* an escrow that is there afterwards, of a juror who has a part in the     *)
(* contract, and of a ballot in the phase the entry is for.                 *)
(***************************************************************************)
MayWrite(key) ==
  \/ \E id \in DOMAIN escrows' : Belongs(key, id)
  \/ \E juror \in Jurors : key \in StakeEntries(juror) /\ ~Bystander(juror)
  \/ \E id \in DOMAIN disputes, juror \in Jurors :
       \/ key = CommitKey(id, juror)
       \/ key = VoteKey(id, juror) /\ now >= disputes[id].commit_deadline

Call(read, written, extended, removed) ==
  /\ now' = now
  /\ Access(read, written, extended, removed)
  /\ written \subseteq extended /\ InstanceKey \notin removed
  /\ \A key \in written : MayWrite(key)

\* Which entries the calls write, case by case.
LEMMA CallShape ==
  ASSUME VaultInv, AdminCall \/ OpeningCall \/ ReleaseCall \/ DisputeCall \/ KeeperCall
  PROVE  \E read, written, extended, removed : Call(read, written, extended, removed)
<1>1. ASSUME NEW written, NEW id \in DOMAIN escrows', \A key \in written : Belongs(key, id)
      PROVE  \A key \in written : MayWrite(key)
  BY <1>1 DEF MayWrite
<1>2. CASE AdminCall
  <2>1. now' = now
    BY <1>2 DEF AdminCall, AdminStep, SetFeeBps, SetTreasury, SetPauser, RevokePauser, Pause, Unpause
  <2>2. Call({}, {}, {}, {})
    BY <1>2, <2>1 DEF AdminCall, Call
  <2> QED
    BY <2>2
<1>3. CASE OpeningCall
  <2> DEFINE id == escrowCounter + 1
             written == {EscrowKey(id), FeeConfigKey(id)}
  <2>1. /\ \E depositor, beneficiary, amount, milestones :
             OpenEscrow(depositor, beneficiary, amount, milestones)
        /\ Access({}, written, written, {})
    BY <1>3 DEF OpeningCall, CreateEscrow, InitEscrow
  <2>2. now' = now /\ id \in DOMAIN escrows'
    BY <2>1 DEF OpenEscrow, Put
  <2>3. \A key \in written : Belongs(key, id)
    BY DEF Belongs
  <2> HIDE DEF written, id
  <2>4. Call({}, written, written, {})
    BY <1>1, <2>1, <2>2, <2>3 DEF Call
  <2> QED
    BY <2>4
<1>4. CASE ReleaseCall
  <2>1. PICK id \in DOMAIN escrows, gross \in TrancheAmounts, caller \in Depositors :
          \E index \in DOMAIN escrows[id].milestones :
            LET written == {EscrowKey(id), ReleasedKey(id), MilestoneKey(id, index)}
            IN  /\ ReleaseMilestoneTranche(id, index, gross, caller)
                /\ Access({}, written, written \union {FeeConfigKey(id)}, {})
    BY <1>4 DEF ReleaseCall
  <2>2. PICK index \in DOMAIN escrows[id].milestones :
            LET written == {EscrowKey(id), ReleasedKey(id), MilestoneKey(id, index)}
            IN  /\ ReleaseMilestoneTranche(id, index, gross, caller)
                /\ Access({}, written, written \union {FeeConfigKey(id)}, {})
    BY <2>1
  <2> DEFINE written == {EscrowKey(id), ReleasedKey(id), MilestoneKey(id, index)}
  <2>3. now' = now /\ id \in DOMAIN escrows'
    BY <2>2 DEF ReleaseMilestoneTranche
  <2>4. index \in Nat
    <3>1. escrows[id] \in EscrowRecord
      BY DEF VaultInv, FeeInv, TypeOK, IsStore
    <3>2. escrows[id].milestones \in Seq(Milestone)
      BY <3>1 DEF EscrowRecord
    <3> QED
      BY <3>2
  <2>5. \A key \in written : Belongs(key, id)
    BY <2>4 DEF Belongs
  <2>6. Access({}, written, written \union {FeeConfigKey(id)}, {})
    BY <2>2
  <2> HIDE DEF written
  <2>7. Call({}, written, written \union {FeeConfigKey(id)}, {})
    BY <1>1, <2>3, <2>5, <2>6 DEF Call
  <2> QED
    BY <2>7
<1>5. CASE RaiseCall
  <2>1. PICK id \in EscrowIds, caller \in Depositors \union Beneficiaries :
          LET written == {EscrowKey(id), DisputeKey(id)}
          IN  /\ RaiseDispute(id, caller)
              /\ Access({}, written, written \union {ReleasedKey(id)}, {})
    BY <1>5 DEF RaiseCall
  <2> DEFINE written == {EscrowKey(id), DisputeKey(id)}
  <2>2. now' = now /\ id \in DOMAIN escrows'
    BY <2>1 DEF RaiseDispute
  <2>3. \A key \in written : Belongs(key, id)
    BY DEF Belongs
  <2>4. Access({}, written, written \union {ReleasedKey(id)}, {})
    BY <2>1
  <2> HIDE DEF written
  <2>5. Call({}, written, written \union {ReleasedKey(id)}, {})
    BY <1>1, <2>2, <2>3, <2>4 DEF Call
  <2> QED
    BY <2>5
<1>6. CASE CommitCall
  <2>1. PICK id \in EscrowIds, juror \in Jurors, vote \in BOOLEAN, salt \in Salts :
          /\ CommitVote(id, juror, HashVote(vote, salt))
          /\ Access({StakeKey(juror)}, {CommitKey(id, juror)}, ExtendedByCommit(id, juror), {})
    BY <1>6 DEF CommitCall
  <2>2. now' = now /\ id \in DOMAIN disputes
    BY <2>1 DEF CommitVote, OpenDispute
  <2>3. \A key \in {CommitKey(id, juror)} : MayWrite(key)
    BY <2>2 DEF MayWrite
  <2>4. {CommitKey(id, juror)} \subseteq ExtendedByCommit(id, juror)
    BY DEF ExtendedByCommit
  <2>5. Call({StakeKey(juror)}, {CommitKey(id, juror)}, ExtendedByCommit(id, juror), {})
    BY <2>1, <2>2, <2>3, <2>4 DEF Call
  <2> QED
    BY <2>5
<1>7. CASE RevealCall
  <2>1. PICK id \in EscrowIds, juror \in Jurors, vote \in BOOLEAN, salt \in Salts :
          LET written == {VoteKey(id, juror), VotersKey(id)}
          IN  /\ RevealVote(id, juror, vote, salt)
              /\ Access({}, written, written \union {DisputeKey(id)}, {CommitKey(id, juror)})
    BY <1>7 DEF RevealCall
  <2> DEFINE written == {VoteKey(id, juror), VotersKey(id)}
  <2>2. /\ now' = now /\ escrows' = escrows /\ id \in DOMAIN disputes
        /\ now >= disputes[id].commit_deadline
    BY <2>1 DEF RevealVote, escrowVars, OpenDispute
  <2>3. id \in DOMAIN escrows' /\ Belongs(VotersKey(id), id)
    BY <2>2 DEF VaultInv, Lifecycle, Belongs
  <2>4. \A key \in written : MayWrite(key)
    BY <2>2, <2>3 DEF MayWrite
  <2>5. Access({}, written, written \union {DisputeKey(id)}, {CommitKey(id, juror)})
    BY <2>1
  <2>6. InstanceKey \notin {CommitKey(id, juror)}
    BY JurorKeysApart
  <2> HIDE DEF written
  <2>7. Call({}, written, written \union {DisputeKey(id)}, {CommitKey(id, juror)})
    BY <2>2, <2>4, <2>5, <2>6 DEF Call
  <2> QED
    BY <2>7
<1>8. CASE ResolveCall
  <2>1. PICK id \in EscrowIds :
          /\ ResolveDispute(id)
          /\ Access(BallotKeys(id), RulingKeys(id), RulingKeys(id), {})
    BY <1>8 DEF ResolveCall, ResolveCallOn
  <2>2. now' = now /\ id \in DOMAIN escrows'
    BY <2>1 DEF ResolveDispute
  <2>3. Belongs(DisputeKey(id), id) /\ Belongs(EscrowKey(id), id)
    BY DEF Belongs
  <2>4. \A juror \in MinorityOf(id, RulingFor(id)) : juror \in Jurors /\ ~Bystander(juror)
    BY DEF Bystander, MinorityOf
  <2>5. \A key \in RulingKeys(id) :
          \/ key \in {DisputeKey(id), EscrowKey(id)}
          \/ \E juror \in MinorityOf(id, RulingFor(id)) : key \in StakeEntries(juror)
    BY DEF RulingKeys, StakeEntries
  <2>6. \A key \in RulingKeys(id) : MayWrite(key)
    BY <2>2, <2>3, <2>4, <2>5 DEF MayWrite
  <2>7. Call(BallotKeys(id), RulingKeys(id), RulingKeys(id), {})
    BY <2>1, <2>2, <2>6 DEF Call
  <2> QED
    BY <2>7
<1>9. CASE KeeperCall
  <2>1. \E extended : now' = now /\ Access({}, {}, extended, {})
    BY <1>9 DEF KeeperCall, BumpEscrowTtl, BumpJurorStakeTtl, vars
  <2>2. \E extended : Call({}, {}, extended, {})
    BY <2>1 DEF Call
  <2> QED
    BY <2>2
<1> QED
  BY <1>2, <1>3, <1>4, <1>5, <1>6, <1>7, <1>8, <1>9 DEF DisputeCall

-----------------------------------------------------------------------------
\* The calls that open no escrow and are no keeper's.
LEMMA EscrowsStay ==
  ASSUME AdminCall \/ StakingCall \/ ReleaseCall \/ DisputeCall
  PROVE  DOMAIN escrows' = DOMAIN escrows /\ escrowDue' = escrowDue
<1> USE DEF escrowVars
<1>1. CASE AdminCall
  BY <1>1 DEF AdminCall, AdminStep, SetFeeBps, SetTreasury, SetPauser, RevokePauser, Pause, Unpause
<1>2. CASE StakingCall
  BY <1>2 DEF StakingCall, Stake, Unstake
<1>3. CASE ReleaseCall
  <2>1. \A id, index, gross, caller :
          ReleaseMilestoneTranche(id, index, gross, caller) => DOMAIN escrows' = DOMAIN escrows
    BY DEF ReleaseMilestoneTranche
  <2> QED
    BY <1>3, <2>1 DEF ReleaseCall
<1>4. CASE DisputeCall
  <2>1. \A id, caller : RaiseDispute(id, caller) => DOMAIN escrows' = DOMAIN escrows
    BY DEF RaiseDispute
  <2>2. \A id, juror, commitment : CommitVote(id, juror, commitment) => escrows' = escrows
    BY DEF CommitVote
  <2>3. \A id, juror, vote, salt : RevealVote(id, juror, vote, salt) => escrows' = escrows
    BY DEF RevealVote
  <2>4. \A id : ResolveDispute(id) => DOMAIN escrows' = DOMAIN escrows
    BY DEF ResolveDispute
  <2> QED
    BY <1>4, <2>1, <2>2, <2>3, <2>4 DEF DisputeCall, RaiseCall, CommitCall, RevealCall, ResolveCall,
      ResolveCallOn
<1> QED
  BY <1>1, <1>2, <1>3, <1>4

LEMMA ContractCallKeeps ==
  ASSUME KEEPER_CADENCE <= LIFETIME_THRESHOLD, KeeperInv, VaultInv', [Next]_vars,
         AdminCall \/ StakingCall \/ ReleaseCall \/ DisputeCall
  PROVE  KeeperInv'
<1>1. DOMAIN escrows' = DOMAIN escrows /\ escrowDue' = escrowDue
  BY EscrowsStay
<1>2. CASE AdminCall \/ ReleaseCall \/ DisputeCall
  <2>1. PICK read, written, extended, removed : Call(read, written, extended, removed)
    BY <1>2, CallShape DEF KeeperInv
  <2>2. \A key \in written, id \in EscrowIds \ DOMAIN escrows : ~Belongs(key, id)
    <3> SUFFICES ASSUME NEW key \in written, NEW id \in EscrowIds \ DOMAIN escrows, Belongs(key, id)
                 PROVE  FALSE
      OBVIOUS
    <3>1. MayWrite(key)
      BY <2>1 DEF Call
    <3> QED
      BY <1>1, <3>1, EscrowsApart, StakeEntriesApart, JurorKeysApart DEF MayWrite
  <2> QED
    BY <1>1, <2>1, <2>2, CallKeeps DEF Call
<1>3. CASE StakingCall
  <2>1. PICK juror \in Jurors, amount \in StakeAmounts :
          /\ Stake(juror, amount) \/ Unstake(juror, amount)
          /\ Access({}, {StakeKey(juror)}, {StakeKey(juror)}, {})
    BY <1>3 DEF StakingCall
  <2>2. now' = now
    BY <2>1 DEF Stake, Unstake
  <2>3. \A key \in {StakeKey(juror)}, id \in EscrowIds \ DOMAIN escrows : ~Belongs(key, id)
    BY JurorKeysApart
  <2> QED
    BY <1>1, <2>1, <2>2, <2>3, CallKeeps
<1> QED
  BY <1>2, <1>3

(***************************************************************************)
(* What happens outside the contract: a gift, and the restoration of an     *)
(* archived entry, which lives longer than before.                          *)
(***************************************************************************)
OutsideStep ==
  GiftCall \/ (\E key \in DOMAIN liveUntil : Restore(key)) \/ UNCHANGED ttlVars

LEMMA OutsideSteps ==
  ASSUME now \in Nat, Lifetimes, OutsideStep
  PROVE  /\ UNCHANGED <<now, escrows, disputes, jurorStakes, jurorCommits, disputeVoters>>
         /\ UNCHANGED <<escrowDue, stakeDue>>
         /\ DOMAIN liveUntil' = DOMAIN liveUntil
         /\ \A key \in DOMAIN liveUntil :
              liveUntil'[key] \in Nat /\ liveUntil'[key] >= liveUntil[key]
<1>1. UNCHANGED <<now, escrows, disputes, jurorStakes, jurorCommits, disputeVoters>>
  BY DEF OutsideStep, GiftCall, GiftStep, Donate, Restore, ttlVars, vars, escrowVars, stakeVars,
         ballotVars
<1>2. UNCHANGED <<escrowDue, stakeDue>>
  BY DEF OutsideStep, GiftCall, Restore, ttlVars
<1>3. CASE liveUntil' = liveUntil
  BY <1>1, <1>2, <1>3 DEF Lifetimes
<1>4. ASSUME NEW archived \in DOMAIN liveUntil, Restore(archived)
      PROVE  /\ DOMAIN liveUntil' = DOMAIN liveUntil
             /\ \A key \in DOMAIN liveUntil :
                  liveUntil'[key] \in Nat /\ liveUntil'[key] >= liveUntil[key]
  <2>1. /\ liveUntil' = [liveUntil EXCEPT ![archived] = now + MIN_TTL]
        /\ ~(now <= liveUntil[archived]) /\ MIN_TTL \in Nat
    BY <1>4, TtlAssumption DEF Restore, Live
  <2>2. \A key \in DOMAIN liveUntil : liveUntil[key] \in Nat
    BY DEF Lifetimes
  <2> QED
    BY <2>1, <2>2
<1> QED
  BY <1>1, <1>2, <1>3, <1>4 DEF OutsideStep, GiftCall, ttlVars

\* What lives longer still reaches as far.
LEMMA OutsideKeeps ==
  ASSUME KeeperInv, VaultInv', OutsideStep
  PROVE  KeeperInv'
<1>0. now \in Nat /\ Lifetimes /\ VaultInv
  BY ClockType DEF KeeperInv
<1>1. /\ UNCHANGED <<now, escrows, escrowDue>> /\ DOMAIN liveUntil' = DOMAIN liveUntil
      /\ \A key \in DOMAIN liveUntil :
           liveUntil'[key] \in Nat /\ liveUntil'[key] >= liveUntil[key]
  BY <1>0, OutsideSteps
<1>2. Lifetimes' /\ NoEarlyEntries'
  BY <1>1, BelongsForGood DEF KeeperInv, Lifetimes, NoEarlyEntries, InstanceKey
<1>3. ASSUME NEW id \in DOMAIN escrows
      PROVE  /\ OnTime(escrowDue[id])
             /\ \A key \in EscrowEntries(id) \union {InstanceKey} :
                  key \in DOMAIN liveUntil => escrowDue[id] <= liveUntil[key]
             /\ EscrowEntries(id)' = EscrowEntries(id)
  <2>1. EscrowEntries(id)' = EscrowEntries(id)
    BY <1>1 DEF EscrowEntries, EscrowKey, FeeConfigKey, ReleasedKey, DisputeKey, VotersKey,
                MilestoneKey
  <2> QED
    BY <2>1 DEF KeeperInv, EscrowsKept, Reaches
<1>4. ASSUME NEW id \in DOMAIN escrows, NEW key \in EscrowEntries(id)' \union {InstanceKey},
             key \in DOMAIN liveUntil'
      PROVE  escrowDue[id] <= liveUntil'[key]
  <2>1. /\ escrowDue[id] \in Nat /\ escrowDue[id] <= liveUntil[key]
        /\ liveUntil'[key] \in Nat /\ liveUntil'[key] >= liveUntil[key]
    BY <1>1, <1>3, <1>4 DEF OnTime
  <2>2. liveUntil[key] \in Nat
    BY <1>0, <1>1, <1>4 DEF Lifetimes
  <2> QED
    BY <2>1, <2>2
<1>5. DOMAIN escrowDue' = DOMAIN escrows'
  BY <1>1 DEF KeeperInv, EscrowsKept
<1>6. EscrowsKept'
  BY <1>1, <1>3, <1>4, <1>5, KeptNext DEF OnTime
<1> QED
  BY <1>2, <1>6 DEF KeeperInv

\* A ledger closes: no keeper was due.
LEMMA ClosingKeeps ==
  ASSUME KeeperInv, VaultInv', CloseLedger
  PROVE  KeeperInv'
<1>1. /\ now' = now + 1 /\ UNCHANGED <<escrows, liveUntil, escrowDue>> /\ now \in Nat
      /\ KEEPER_CADENCE \in Nat
  BY ClockType, TtlAssumption DEF CloseLedger, Tick, escrowVars, KeeperInv
<1>2. Lifetimes' /\ NoEarlyEntries'
  BY <1>1, BelongsForGood DEF KeeperInv, Lifetimes, NoEarlyEntries, InstanceKey
<1>3. EscrowsKept'
  <2>1. ASSUME NEW id \in DOMAIN escrows
        PROVE  /\ escrowDue[id] \in Nat /\ now + 1 <= escrowDue[id]
               /\ escrowDue[id] <= now + 1 + KEEPER_CADENCE
               /\ \A key \in EscrowEntries(id)' \union {InstanceKey} :
                    key \in DOMAIN liveUntil => escrowDue[id] <= liveUntil[key]
    <3>1. EscrowEntries(id)' = EscrowEntries(id)
      BY <1>1 DEF EscrowEntries, EscrowKey, FeeConfigKey, ReleasedKey, DisputeKey, VotersKey,
                  MilestoneKey
    <3>2. /\ escrowDue[id] \in Nat /\ escrowDue[id] <= now + KEEPER_CADENCE
          /\ id \in DOMAIN escrowDue
          /\ \A key \in EscrowEntries(id) \union {InstanceKey} :
               key \in DOMAIN liveUntil => escrowDue[id] <= liveUntil[key]
      BY DEF KeeperInv, EscrowsKept, OnTime, Reaches
    <3>3. now < escrowDue[id]
      BY <3>2 DEF CloseLedger
    <3> QED
      BY <1>1, <3>1, <3>2, <3>3
  <2>2. DOMAIN escrowDue' = DOMAIN escrows'
    BY <1>1 DEF KeeperInv, EscrowsKept
  <2> QED
    BY <1>1, <2>1, <2>2, KeptNext
<1> QED
  BY <1>2, <1>3 DEF KeeperInv

\* A step of this module is a step of TrustFlow, or leaves its variables alone.
LEMMA TtlStepIsStep ==
  ASSUME [TtlNext]_ttlVars
  PROVE  [Next]_vars
<1>1. AdminCall => Next
  BY DEF AdminCall, Next
<1>2. StakingCall => Next
  BY DEF StakingCall, StakingStep, Next
<1>3. OpeningCall => Next
  BY DEF OpeningCall, EscrowStep, Next
<1>4. ReleaseCall => Next
  BY DEF ReleaseCall, EscrowStep, Next
<1>5. DisputeCall => Next
  BY DEF DisputeCall, RaiseCall, CommitCall, RevealCall, ResolveCall, ResolveCallOn,
       DisputeStep, Next
<1>6. KeeperCall => UNCHANGED vars
  BY DEF KeeperCall, BumpEscrowTtl, BumpJurorStakeTtl
<1>7. CloseLedger => Next
  BY DEF CloseLedger, Next
<1>8. GiftCall => Next
  BY DEF GiftCall, Next
<1>9. OutsideStep => Next \/ UNCHANGED vars
  BY <1>8 DEF OutsideStep, Restore, ttlVars
<1> QED
  BY <1>1, <1>2, <1>3, <1>4, <1>5, <1>6, <1>7, <1>9 DEF TtlNext, OutsideStep

\* The keeper of a stake extends what belongs to no escrow.
LEMMA StakeBumpKeeps ==
  ASSUME KEEPER_CADENCE <= LIFETIME_THRESHOLD, KeeperInv, VaultInv',
         NEW juror \in Jurors, BumpJurorStakeTtl(juror)
  PROVE  KeeperInv'
<1>1. /\ UNCHANGED vars /\ escrowDue' = escrowDue
      /\ Access({}, {}, BumpedStake(juror), {})
  BY DEF BumpJurorStakeTtl
<1>2. UNCHANGED <<escrows, now>>
  BY <1>1 DEF vars, escrowVars
<1> QED
  BY <1>1, <1>2, CallKeeps

LEMMA KeeperInvInit == TtlInit => KeeperInv
<1> SUFFICES ASSUME TtlInit PROVE KeeperInv
  OBVIOUS
<1>1. VaultInv
  BY VaultInvInit DEF TtlInit
<1>2. DOMAIN escrows = {} /\ DOMAIN escrowDue = {}
  BY DEF TtlInit, Init, EmptyStore
<1>3. now \in Nat /\ MIN_TTL \in Nat
  BY <1>1, ClockType, TtlAssumption
<1>4. Lifetimes
  BY <1>3, ExtendedLonger DEF TtlInit, Lifetimes
<1>5. DOMAIN liveUntil = {InstanceKey}
  BY DEF TtlInit
<1> QED
  BY <1>1, <1>2, <1>4, <1>5, InstanceApart DEF KeeperInv, EscrowsKept, NoEarlyEntries

LEMMA KeeperInvNext ==
  ASSUME KEEPER_CADENCE <= LIFETIME_THRESHOLD, KeeperInv, [TtlNext]_ttlVars
  PROVE  KeeperInv'
<1>1. [Next]_vars
  BY TtlStepIsStep
<1>2. VaultInv'
  BY <1>1, VaultInvNext DEF KeeperInv
<1>3. CASE AdminCall \/ StakingCall \/ ReleaseCall \/ DisputeCall
  BY <1>1, <1>2, <1>3, ContractCallKeeps
<1>4. CASE OpeningCall
  BY <1>1, <1>2, <1>4, OpeningKeeps
<1>5. CASE KeeperCall
  BY <1>2, <1>5, BumpKeeps, StakeBumpKeeps DEF KeeperCall
<1>6. CASE CloseLedger
  BY <1>2, <1>6, ClosingKeeps
<1>7. CASE OutsideStep
  BY <1>2, <1>7, OutsideKeeps
<1> QED
  BY <1>3, <1>4, <1>5, <1>6, <1>7 DEF TtlNext, OutsideStep

(***************************************************************************)
(* An escrow whose keeper calls bump_escrow_ttl within the threshold of the *)
(* last call never has an archived entry, and the contract with it: not the *)
(* entries that were there, nor those that releases and disputes add, for   *)
(* every threshold, bump, window, amount and number of escrows.             *)
(***************************************************************************)
THEOREM EscrowKeptCorrect ==
  ASSUME KEEPER_CADENCE <= LIFETIME_THRESHOLD
  PROVE  TtlSpec => []EscrowKept
<1>1. KeeperInv => EscrowKept
  <2> SUFFICES ASSUME KeeperInv, NEW id \in DOMAIN escrows,
                      NEW key \in EscrowEntries(id) \union {InstanceKey}, key \in DOMAIN liveUntil
               PROVE  now <= liveUntil[key]
    BY DEF EscrowKept, Live
  <2>1. escrowDue[id] \in Nat /\ now <= escrowDue[id] /\ escrowDue[id] <= liveUntil[key]
    BY DEF KeeperInv, EscrowsKept, OnTime, Reaches
  <2>2. now \in Nat /\ liveUntil[key] \in Nat
    BY ClockType DEF KeeperInv, Lifetimes
  <2> QED
    BY <2>1, <2>2
<1>2. KeeperInv /\ [TtlNext]_ttlVars => KeeperInv'
  BY KeeperInvNext
<1> QED
  BY <1>1, <1>2, KeeperInvInit, PTL DEF TtlSpec

-----------------------------------------------------------------------------
(***************************************************************************)
(* Stakes.  A slash writes the count of a juror that no stake call touched; *)
(* that it only ever meets jurors with a keeper follows from the ballot:    *)
(* who votes has committed, and who commits has a stake.                    *)
(***************************************************************************)

StakesKept ==
  /\ DOMAIN stakeDue \subseteq Jurors
  /\ \A juror \in DOMAIN stakeDue :
       OnTime(stakeDue[juror]) /\ \A key \in StakeEntries(juror) : Reaches(stakeDue[juror], key)
  /\ \A juror \in Jurors \ DOMAIN stakeDue :
       Bystander(juror) /\ \A key \in StakeEntries(juror) : key \notin DOMAIN liveUntil

StakeInv == KeeperInv /\ StakesKept

LEMMA StakesKeptNext ==
  ASSUME DOMAIN stakeDue' \subseteq Jurors,
         \A juror \in DOMAIN stakeDue' :
           /\ stakeDue'[juror] \in Nat /\ now' <= stakeDue'[juror]
           /\ stakeDue'[juror] <= now' + KEEPER_CADENCE
           /\ \A key \in StakeEntries(juror) :
                key \in DOMAIN liveUntil' => stakeDue'[juror] <= liveUntil'[key],
         \A juror \in Jurors \ DOMAIN stakeDue' :
           Bystander(juror)' /\ \A key \in StakeEntries(juror) : key \notin DOMAIN liveUntil'
  PROVE  StakesKept'
  BY DEF StakesKept, OnTime, Reaches, StakeEntries, StakeKey, SlashCountKey

\* Only a stake of one's own makes one a party.
LEMMA BystandersStay ==
  ASSUME VaultInv, NEW juror \in Jurors, Bystander(juror),
         AdminCall \/ OpeningCall \/ ReleaseCall \/ DisputeCall \/ KeeperCall \/ CloseLedger
           \/ GiftCall \/ (\E key \in DOMAIN liveUntil : Restore(key)) \/ UNCHANGED ttlVars
  PROVE  Bystander(juror)'
<1>0. TypeOK
  BY DEF VaultInv, FeeInv
<1> DEFINE Idle == UNCHANGED <<jurorStakes, jurorCommits, disputeVoters>>
<1>a. Idle => Bystander(juror)'
  BY DEF Bystander
<1> USE DEF stakeVars, ballotVars
<1>1. CASE AdminCall
  <2>1. Idle
    BY <1>1 DEF AdminCall, AdminStep, SetFeeBps, SetTreasury, SetPauser, RevokePauser, Pause, Unpause
  <2> QED
    BY <1>a, <2>1
<1>2. CASE OpeningCall
  <2>0. PICK depositor, beneficiary, amount, milestones :
          OpenEscrow(depositor, beneficiary, amount, milestones)
    BY <1>2 DEF OpeningCall, CreateEscrow, InitEscrow
  <2>1. Idle
    BY <2>0 DEF OpenEscrow
  <2> QED
    BY <1>a, <2>1
<1>3. CASE ReleaseCall
  <2>0. PICK id, index, gross, caller : ReleaseMilestoneTranche(id, index, gross, caller)
    BY <1>3 DEF ReleaseCall
  <2>1. Idle
    BY <2>0 DEF ReleaseMilestoneTranche
  <2> QED
    BY <1>a, <2>1
<1>4. CASE RaiseCall
  <2>1. Idle
    BY <1>4 DEF RaiseCall, RaiseDispute
  <2> QED
    BY <1>a, <2>1
<1>5. CASE CommitCall
  <2>1. PICK id \in EscrowIds, other \in Jurors, vote \in BOOLEAN, salt \in Salts :
          CommitVote(id, other, HashVote(vote, salt))
    BY <1>5 DEF CommitCall
  <2>2. other # juror
    BY <2>1 DEF CommitVote, Bystander
  <2>3. /\ jurorStakes' = jurorStakes /\ disputeVoters' = disputeVoters
        /\ DOMAIN jurorCommits' = DOMAIN jurorCommits \union {<<id, other>>}
    BY <2>1 DEF CommitVote, Put
  <2> QED
    BY <2>2, <2>3 DEF Bystander
<1>6. CASE RevealCall
  <2>1. PICK id \in EscrowIds, other \in Jurors, vote \in BOOLEAN, salt \in Salts :
          RevealVote(id, other, vote, salt)
    BY <1>6 DEF RevealCall
  <2>2. other # juror
    BY <2>1 DEF RevealVote, Bystander
  <2>3. /\ jurorStakes' = jurorStakes
        /\ DOMAIN jurorCommits' \subseteq DOMAIN jurorCommits
        /\ disputeVoters' = [disputeVoters EXCEPT ![id] = Append(@, other)]
    BY <2>1 DEF RevealVote, CommitCleared, Remove
  <2>4. /\ disputeVoters \in [EscrowIds -> Seq(Jurors)]
    BY <1>0 DEF TypeOK
  <2>5. ASSUME NEW any \in EscrowIds, NEW k \in DOMAIN disputeVoters'[any]
        PROVE  disputeVoters'[any][k] # juror
    <3>1. CASE any # id
      BY <2>3, <2>4, <2>5, <3>1 DEF Bystander
    <3>2. CASE any = id
      <4>1. disputeVoters'[id] = Append(disputeVoters[id], other) /\ disputeVoters[id] \in Seq(Jurors)
        BY <2>3, <2>4
      <4>2. k \in 1 .. Len(disputeVoters[id]) + 1
        BY <2>5, <3>2, <4>1
      <4>3. CASE k \in 1 .. Len(disputeVoters[id])
        <5>1. disputeVoters'[any][k] = disputeVoters[id][k] /\ k \in DOMAIN disputeVoters[id]
          BY <3>2, <4>1, <4>3
        <5> QED
          BY <5>1 DEF Bystander
      <4>4. CASE k = Len(disputeVoters[id]) + 1
        BY <2>2, <3>2, <4>1, <4>4
      <4> QED
        BY <4>1, <4>2, <4>3, <4>4
    <3> QED
      BY <3>1, <3>2
  <2> QED
    BY <2>3, <2>5 DEF Bystander
<1>7. CASE ResolveCall
  <2>1. PICK id \in EscrowIds : ResolveDispute(id)
    BY <1>7 DEF ResolveCall, ResolveCallOn
  <2>2. juror \notin MinorityOf(id, RulingFor(id))
    BY DEF Bystander, MinorityOf
  <2>3. jurorStakes'[juror] = jurorStakes[juror] - 0
    BY <2>1, <2>2 DEF ResolveDispute, SlashMinority
  <2>4. UNCHANGED <<jurorCommits, disputeVoters>>
    BY <2>1 DEF ResolveDispute
  <2> QED
    BY <2>3, <2>4 DEF Bystander
<1>8. CASE KeeperCall \/ CloseLedger \/ GiftCall \/ (\E key \in DOMAIN liveUntil : Restore(key))
             \/ UNCHANGED ttlVars
  <2>1. Idle
    BY <1>8 DEF KeeperCall, BumpEscrowTtl, BumpJurorStakeTtl, CloseLedger, Tick, GiftCall, GiftStep,
                Donate, Restore, ttlVars, vars
  <2> QED
    BY <1>a, <2>1
<1> QED
  BY <1>1, <1>2, <1>3, <1>4, <1>5, <1>6, <1>7, <1>8 DEF DisputeCall

\* A call that leaves the due times of the stakes alone.
LEMMA CallKeepsStakes ==
  ASSUME KEEPER_CADENCE <= LIFETIME_THRESHOLD, StakeInv,
         now' = now, stakeDue' = stakeDue,
         NEW read, NEW written, NEW extended, NEW removed,
         Access(read, written, extended, removed),
         written \subseteq extended, InstanceKey \notin removed,
         \A juror \in Jurors \ DOMAIN stakeDue :
           Bystander(juror)' /\ \A key \in StakeEntries(juror) : key \notin written
  PROVE  StakesKept'
<1>0. now \in Nat /\ Lifetimes
  BY ClockType DEF StakeInv, KeeperInv
<1>1. ASSUME NEW juror \in DOMAIN stakeDue
      PROVE  /\ stakeDue[juror] \in Nat /\ now <= stakeDue[juror]
             /\ stakeDue[juror] <= now + KEEPER_CADENCE
             /\ \A key \in StakeEntries(juror) :
                  key \in DOMAIN liveUntil' => stakeDue[juror] <= liveUntil'[key]
  <2>1. OnTime(stakeDue[juror]) /\ \A key \in StakeEntries(juror) : Reaches(stakeDue[juror], key)
    BY DEF StakeInv, StakesKept
  <2>2. \A key \in StakeEntries(juror) :
          key \in DOMAIN liveUntil' => stakeDue[juror] <= liveUntil'[key]
    BY <1>0, <2>1, StillReached
  <2> QED
    BY <2>1, <2>2 DEF OnTime
<1>2. ASSUME NEW juror \in Jurors \ DOMAIN stakeDue
      PROVE  Bystander(juror)' /\ \A key \in StakeEntries(juror) : key \notin DOMAIN liveUntil'
  <2>1. DOMAIN liveUntil' \subseteq DOMAIN liveUntil \union written
    BY <1>0, AccessGrows
  <2> QED
    BY <2>1 DEF StakeInv, StakesKept
<1>3. DOMAIN stakeDue' \subseteq Jurors
  BY DEF StakeInv, StakesKept
<1> QED
  BY <1>1, <1>2, <1>3, StakesKeptNext

\* The calls that leave the due times of the stakes alone.
LEMMA StakesStay ==
  ASSUME \/ AdminCall \/ OpeningCall \/ ReleaseCall \/ DisputeCall
         \/ \E id \in EscrowIds : BumpEscrowTtl(id)
  PROVE  stakeDue' = stakeDue
BY DEF AdminCall, OpeningCall, ReleaseCall, DisputeCall, RaiseCall, CommitCall, RevealCall,
       ResolveCall, ResolveCallOn, BumpEscrowTtl

LEMMA OtherCallsKeepStakes ==
  ASSUME KEEPER_CADENCE <= LIFETIME_THRESHOLD, StakeInv,
         \/ AdminCall \/ OpeningCall \/ ReleaseCall \/ DisputeCall
         \/ \E id \in EscrowIds : BumpEscrowTtl(id)
  PROVE  StakesKept'
<1>1. PICK read, written, extended, removed : Call(read, written, extended, removed)
  BY CallShape DEF StakeInv, KeeperInv, KeeperCall
<1>2. ASSUME NEW juror \in Jurors \ DOMAIN stakeDue
      PROVE  Bystander(juror)' /\ \A key \in StakeEntries(juror) : key \notin written
  <2>1. Bystander(juror)
    BY DEF StakeInv, StakesKept
  <2>2. Bystander(juror)'
    BY <2>1, BystandersStay DEF StakeInv, KeeperInv, KeeperCall
  <2>3. ASSUME NEW key \in StakeEntries(juror), key \in written
        PROVE  FALSE
    <3>1. MayWrite(key)
      BY <1>1, <2>3 DEF Call
    <3> QED
      BY <2>1, <3>1, StakeEntriesApart DEF MayWrite
  <2> QED
    BY <2>2, <2>3
<1> QED
  BY <1>1, <1>2, StakesStay, CallKeepsStakes DEF Call

(***************************************************************************)
(* A call that extends the entries of one juror, who has a keeper from then *)
(* on, and is the only one it can make a party.                             *)
(***************************************************************************)
LEMMA OwnCallKeepsStakes ==
  ASSUME KEEPER_CADENCE <= LIFETIME_THRESHOLD, StakeInv,
         now' = now, NEW juror \in Jurors, NEW written, NEW extended,
         Access({}, written, extended, {}), written \subseteq extended,
         written \subseteq {StakeKey(juror)},
         DOMAIN stakeDue' = DOMAIN stakeDue \union {juror},
         \A other \in DOMAIN stakeDue : other # juror => stakeDue'[other] = stakeDue[other],
         \/ juror \in DOMAIN stakeDue /\ stakeDue'[juror] = stakeDue[juror]
         \/ stakeDue'[juror] = now + KEEPER_CADENCE
            /\ (juror \in DOMAIN stakeDue => StakeEntries(juror) \subseteq extended)
            /\ (juror \notin DOMAIN stakeDue => written = {StakeKey(juror)}),
         \A other \in Jurors : other # juror /\ Bystander(other) => Bystander(other)'
  PROVE  StakesKept'
<1>0. now \in Nat /\ Lifetimes /\ LIFETIME_THRESHOLD \in Nat /\ KEEPER_CADENCE \in Nat
  BY ClockType, TtlAssumption DEF StakeInv, KeeperInv
<1>1. /\ Lifetimes' /\ DOMAIN liveUntil' \subseteq DOMAIN liveUntil \union written
      /\ \A key \in DOMAIN liveUntil' :
           key \in extended \union {InstanceKey} => liveUntil'[key] >= now + LIFETIME_THRESHOLD
  BY <1>0, AccessGrows
<1>2. ASSUME NEW other \in DOMAIN stakeDue, stakeDue'[other] = stakeDue[other]
      PROVE  /\ stakeDue'[other] \in Nat /\ now <= stakeDue'[other]
             /\ stakeDue'[other] <= now + KEEPER_CADENCE
             /\ \A key \in StakeEntries(other) :
                  key \in DOMAIN liveUntil' => stakeDue'[other] <= liveUntil'[key]
  <2>1. OnTime(stakeDue[other]) /\ \A key \in StakeEntries(other) : Reaches(stakeDue[other], key)
    BY DEF StakeInv, StakesKept
  <2>2. \A key \in StakeEntries(other) :
          key \in DOMAIN liveUntil' => stakeDue[other] <= liveUntil'[key]
    BY <1>0, <2>1, StillReached
  <2> QED
    BY <1>2, <2>1, <2>2 DEF OnTime
<1>3. ASSUME stakeDue'[juror] = now + KEEPER_CADENCE,
             juror \in DOMAIN stakeDue => StakeEntries(juror) \subseteq extended,
             juror \notin DOMAIN stakeDue => written = {StakeKey(juror)}
      PROVE  /\ stakeDue'[juror] \in Nat /\ now <= stakeDue'[juror]
             /\ stakeDue'[juror] <= now + KEEPER_CADENCE
             /\ \A key \in StakeEntries(juror) :
                  key \in DOMAIN liveUntil' => stakeDue'[juror] <= liveUntil'[key]
  <2>1. ASSUME NEW key \in StakeEntries(juror), key \in DOMAIN liveUntil'
        PROVE  key \in extended
    BY <1>1, <1>3, <2>1 DEF StakeInv, StakesKept
  <2>2. \A key \in StakeEntries(juror) :
          key \in DOMAIN liveUntil' =>
            liveUntil'[key] \in Nat /\ liveUntil'[key] >= now + LIFETIME_THRESHOLD
    BY <1>1, <2>1 DEF Lifetimes
  <2> QED
    BY <1>0, <1>3, <2>2
<1>4. \A other \in DOMAIN stakeDue' :
        /\ stakeDue'[other] \in Nat /\ now' <= stakeDue'[other]
        /\ stakeDue'[other] <= now' + KEEPER_CADENCE
        /\ \A key \in StakeEntries(other) :
             key \in DOMAIN liveUntil' => stakeDue'[other] <= liveUntil'[key]
  BY <1>2, <1>3
<1>5. ASSUME NEW other \in Jurors \ DOMAIN stakeDue'
      PROVE  Bystander(other)' /\ \A key \in StakeEntries(other) : key \notin DOMAIN liveUntil'
  <2>1. other # juror /\ other \in Jurors \ DOMAIN stakeDue
    OBVIOUS
  <2>2. \A key \in StakeEntries(other) : key \notin written
    BY <2>1, StakeEntriesApart DEF StakeEntries
  <2> QED
    BY <1>1, <2>1, <2>2 DEF StakeInv, StakesKept
<1>6. DOMAIN stakeDue' \subseteq Jurors
  BY DEF StakeInv, StakesKept
<1> QED
  BY <1>4, <1>5, <1>6, StakesKeptNext

\* A stake call makes nobody but its caller a party.
LEMMA OthersStandBy ==
  ASSUME VaultInv, NEW juror \in Jurors, NEW amount, Stake(juror, amount) \/ Unstake(juror, amount),
         NEW other \in Jurors, other # juror, Bystander(other)
  PROVE  Bystander(other)'
<1>1. jurorStakes \in [Jurors -> 0 .. I128_MAX]
  BY DEF VaultInv, FeeInv, TypeOK
<1>2. jurorStakes'[other] = jurorStakes[other] /\ UNCHANGED <<jurorCommits, disputeVoters>>
  BY <1>1 DEF Stake, Unstake, ballotVars
<1> QED
  BY <1>2 DEF Bystander

LEMMA StakingKeepsStakes ==
  ASSUME KEEPER_CADENCE <= LIFETIME_THRESHOLD, StakeInv, StakingCall
  PROVE  StakesKept'
<1>1. PICK juror \in Jurors, amount \in StakeAmounts :
        /\ Stake(juror, amount) \/ Unstake(juror, amount)
        /\ Access({}, {StakeKey(juror)}, {StakeKey(juror)}, {})
        /\ stakeDue' = Put(stakeDue, juror, GetOr(stakeDue, juror, now + KEEPER_CADENCE))
  BY DEF StakingCall
<1>2. now' = now
  BY <1>1 DEF Stake, Unstake
<1>3. \A other \in Jurors : other # juror /\ Bystander(other) => Bystander(other)'
  BY <1>1, OthersStandBy DEF StakeInv, KeeperInv
<1>4. /\ DOMAIN stakeDue' = DOMAIN stakeDue \union {juror}
      /\ \A other \in DOMAIN stakeDue : other # juror => stakeDue'[other] = stakeDue[other]
      /\ juror \in DOMAIN stakeDue => stakeDue'[juror] = stakeDue[juror]
      /\ juror \notin DOMAIN stakeDue => stakeDue'[juror] = now + KEEPER_CADENCE
  BY <1>1 DEF Put, GetOr
<1> QED
  BY <1>1, <1>2, <1>3, <1>4, OwnCallKeepsStakes

LEMMA StakeBumpKeepsStakes ==
  ASSUME KEEPER_CADENCE <= LIFETIME_THRESHOLD, StakeInv,
         NEW juror \in Jurors, BumpJurorStakeTtl(juror)
  PROVE  StakesKept'
<1>1. /\ UNCHANGED vars /\ Access({}, {}, BumpedStake(juror), {})
      /\ stakeDue' = [stakeDue EXCEPT ![juror] = now + KEEPER_CADENCE]
      /\ StakeKey(juror) \in DOMAIN liveUntil
  BY DEF BumpJurorStakeTtl
<1>2. juror \in DOMAIN stakeDue
  BY <1>1 DEF StakeInv, StakesKept, StakeEntries
<1>3. UNCHANGED <<now, jurorStakes, jurorCommits, disputeVoters>>
  BY <1>1 DEF vars, stakeVars, ballotVars
<1>4. \A other \in Jurors : other # juror /\ Bystander(other) => Bystander(other)'
  BY <1>3 DEF Bystander
<1>5. /\ DOMAIN stakeDue' = DOMAIN stakeDue \union {juror}
      /\ \A other \in DOMAIN stakeDue : other # juror => stakeDue'[other] = stakeDue[other]
      /\ stakeDue'[juror] = now + KEEPER_CADENCE
  BY <1>1, <1>2
<1>6. StakeEntries(juror) \subseteq BumpedStake(juror)
  BY DEF StakeEntries, BumpedStake
<1> QED
  BY <1>1, <1>2, <1>3, <1>4, <1>5, <1>6, OwnCallKeepsStakes

\* The clock moves, and no keeper was due; or nothing but lifetimes and gifts.
LEMMA TimeKeepsStakes ==
  ASSUME StakeInv, CloseLedger \/ OutsideStep
  PROVE  StakesKept'
<1>0. now \in Nat /\ KEEPER_CADENCE \in Nat /\ Lifetimes
  BY ClockType, TtlAssumption DEF StakeInv, KeeperInv
<1>1. /\ stakeDue' = stakeDue
      /\ DOMAIN liveUntil' = DOMAIN liveUntil
      /\ \A key \in DOMAIN liveUntil :
           /\ liveUntil[key] \in Nat /\ liveUntil'[key] \in Nat
           /\ liveUntil'[key] >= liveUntil[key]
      /\ \/ now' = now
         \/ now' = now + 1 /\ \A juror \in DOMAIN stakeDue : now < stakeDue[juror]
  <2>1. CASE CloseLedger
    BY <1>0, <2>1 DEF CloseLedger, Tick, Lifetimes
  <2>2. CASE OutsideStep
    BY <1>0, <2>2, OutsideSteps DEF Lifetimes
  <2> QED
    BY <2>1, <2>2
<1>2. \A juror \in Jurors \ DOMAIN stakeDue : Bystander(juror)'
  BY BystandersStay DEF StakeInv, KeeperInv, StakesKept, OutsideStep
<1>3. ASSUME NEW juror \in DOMAIN stakeDue
      PROVE  /\ stakeDue'[juror] \in Nat /\ now' <= stakeDue'[juror]
             /\ stakeDue'[juror] <= now' + KEEPER_CADENCE
             /\ \A key \in StakeEntries(juror) :
                  key \in DOMAIN liveUntil' => stakeDue'[juror] <= liveUntil'[key]
  <2>1. /\ stakeDue[juror] \in Nat /\ now <= stakeDue[juror]
        /\ stakeDue[juror] <= now + KEEPER_CADENCE
        /\ \A key \in StakeEntries(juror) :
             key \in DOMAIN liveUntil => stakeDue[juror] <= liveUntil[key]
    BY DEF StakeInv, StakesKept, OnTime, Reaches
  <2> QED
    BY <1>0, <1>1, <2>1
<1> QED
  BY <1>1, <1>2, <1>3, StakesKeptNext DEF StakeInv, StakesKept

LEMMA StakeInvNext ==
  ASSUME KEEPER_CADENCE <= LIFETIME_THRESHOLD, StakeInv, [TtlNext]_ttlVars
  PROVE  StakeInv'
<1>1. KeeperInv'
  BY KeeperInvNext DEF StakeInv
<1>2. StakesKept'
  BY OtherCallsKeepStakes, StakingKeepsStakes, StakeBumpKeepsStakes, TimeKeepsStakes
     DEF TtlNext, KeeperCall, OutsideStep
<1> QED
  BY <1>1, <1>2 DEF StakeInv

LEMMA StakeInvInit == TtlInit => StakeInv
<1> SUFFICES ASSUME TtlInit PROVE StakeInv
  OBVIOUS
<1>1. KeeperInv
  BY KeeperInvInit
<1>2. /\ DOMAIN stakeDue = {} /\ DOMAIN liveUntil = {InstanceKey} /\ DOMAIN jurorCommits = {}
      /\ \A juror \in Jurors : jurorStakes[juror] = 0
      /\ \A id \in EscrowIds : disputeVoters[id] = <<>>
  BY DEF TtlInit, Init, EmptyStore
<1>3. \A juror \in Jurors : Bystander(juror)
  BY <1>2 DEF Bystander
<1>4. \A juror \in Jurors : \A key \in StakeEntries(juror) : key # InstanceKey
  BY DEF StakeEntries, StakeKey, SlashCountKey, InstanceKey
<1> QED
  BY <1>1, <1>2, <1>3, <1>4 DEF StakeInv, StakesKept

(***************************************************************************)
(* A juror's stake and slash count are never archived under a keeper that   *)
(* calls bump_juror_stake_ttl within the threshold of its last call, the    *)
(* slash count included that a lost dispute writes in between: whatever is  *)
(* slashed belongs to a juror whose stake has a keeper.                     *)
(***************************************************************************)
THEOREM StakeKeptCorrect ==
  ASSUME KEEPER_CADENCE <= LIFETIME_THRESHOLD
  PROVE  TtlSpec => []StakeKept
<1>1. StakeInv => StakeKept
  <2> SUFFICES ASSUME StakeInv, NEW juror \in DOMAIN stakeDue,
                      NEW key \in StakeEntries(juror), key \in DOMAIN liveUntil
               PROVE  now <= liveUntil[key]
    BY DEF StakeKept, Live, StakeEntries
  <2>1. stakeDue[juror] \in Nat /\ now <= stakeDue[juror] /\ stakeDue[juror] <= liveUntil[key]
    BY DEF StakeInv, StakesKept, OnTime, Reaches
  <2>2. now \in Nat /\ liveUntil[key] \in Nat
    BY ClockType DEF StakeInv, KeeperInv, Lifetimes
  <2> QED
    BY <2>1, <2>2
<1>2. StakeInv /\ [TtlNext]_ttlVars => StakeInv'
  BY StakeInvNext
<1> QED
  BY <1>1, <1>2, StakeInvInit, PTL DEF TtlSpec

-----------------------------------------------------------------------------
(***************************************************************************)
(* Ballots.  No keeper extends a commitment or a vote, so their lifetimes   *)
(* are what the call that wrote them gave: a threshold from then, which the *)
(* windows of the dispute fit in.                                           *)
(***************************************************************************)

\* An id without a dispute has no ballot that a later dispute could inherit.
NoEarlyBallots ==
  \A id \in EscrowIds \ DOMAIN disputes, juror \in Jurors :
    CommitKey(id, juror) \notin DOMAIN liveUntil /\ VoteKey(id, juror) \notin DOMAIN liveUntil

\* The reveal window of a dispute ends within a threshold.
WindowsFit ==
  \A id \in DOMAIN disputes : disputes[id].reveal_deadline <= now + LIFETIME_THRESHOLD

BallotsKept ==
  \A id \in DOMAIN disputes, juror \in Jurors :
    /\ Reaches(disputes[id].reveal_deadline, CommitKey(id, juror))
    /\ Reaches(disputes[id].commit_deadline + LIFETIME_THRESHOLD, VoteKey(id, juror))

LastingInv == StakeInv /\ NoEarlyBallots /\ WindowsFit /\ BallotsKept

\* Ledgers, deadlines and the threshold are numbers.
LEMMA BallotTypes ==
  ASSUME VaultInv
  PROVE  /\ now \in Nat /\ LIFETIME_THRESHOLD \in Nat
         /\ DOMAIN disputes \subseteq EscrowIds
         /\ \A id \in DOMAIN disputes :
              disputes[id].commit_deadline \in Nat /\ disputes[id].reveal_deadline \in Nat
<1>1. \A id \in DOMAIN disputes : disputes[id] \in DisputeRecord
  BY DEF VaultInv, FeeInv, TypeOK, IsStore
<1>2. Ledgers \subseteq Nat
  BY BoundsAssumption DEF Ledgers
<1>3. \A id \in DOMAIN disputes :
        disputes[id].commit_deadline \in Nat /\ disputes[id].reveal_deadline \in Nat
  BY <1>1, <1>2 DEF DisputeRecord
<1>4. DOMAIN disputes \subseteq EscrowIds
  BY DEF VaultInv, FeeInv, TypeOK, IsStore
<1> QED
  BY <1>3, <1>4, ClockType, TtlAssumption

\* A dispute opens with both windows ahead of it, which fit in a threshold.
LEMMA WindowsNext ==
  ASSUME VaultInv, [Next]_vars, WindowsFit
  PROVE  WindowsFit'
<1>0. /\ now \in Nat /\ now' \in Int /\ now' >= now /\ LIFETIME_THRESHOLD \in Nat
      /\ \A id \in DOMAIN disputes : disputes[id].reveal_deadline \in Nat
  BY BallotTypes, TimePasses DEF VaultInv, FeeInv
<1> SUFFICES ASSUME NEW id \in DOMAIN disputes'
             PROVE  disputes'[id].reveal_deadline <= now' + LIFETIME_THRESHOLD
  BY DEF WindowsFit
<1>1. CASE id \in DOMAIN disputes
  <2>1. /\ disputes'[id].reveal_deadline \in Nat
        /\ disputes'[id].reveal_deadline <= now + LIFETIME_THRESHOLD
    BY <1>0, <1>1, DisputesKept DEF WindowsFit
  <2> QED
    BY <1>0, <2>1
<1>2. CASE id \notin DOMAIN disputes
  <2>1. PICK caller : RaiseDispute(id, caller)
    <3>1. QuietStep => disputes' = disputes
      BY QuietSteps
    <3>2. ASSUME NEW depositor, NEW beneficiary, NEW amount, NEW milestones,
                 OpenEscrow(depositor, beneficiary, amount, milestones)
          PROVE  disputes' = disputes
      BY <3>2 DEF OpenEscrow
    <3>3. ASSUME NEW other \in DOMAIN escrows, NEW gross \in Int, NEW caller,
                 NEW index \in DOMAIN escrows[other].milestones,
                 ReleaseMilestoneTranche(other, index, gross, caller)
          PROVE  disputes' = disputes
      BY <3>3, ReleaseRecords
    <3>4. ASSUME NEW other \in EscrowIds, NEW caller, RaiseDispute(other, caller)
          PROVE  other = id
      BY <1>2, <3>4, RaiseRecords
    <3>5. ASSUME NEW other \in EscrowIds, ResolveDispute(other)
          PROVE  DOMAIN disputes' = DOMAIN disputes
      BY <3>5, ResolveRecords
    <3> QED
      BY <1>2, <3>1, <3>2, <3>3, <3>4, <3>5, StepKinds
  <2> DEFINE commitDeadline == LaterLedger(now, COMMIT_WINDOW_LEDGERS)
  <2>2. disputes'[id].reveal_deadline = LaterLedger(commitDeadline, REVEAL_WINDOW_LEDGERS)
        /\ now' = now
    BY <2>1 DEF RaiseDispute, Put
  <2>3. /\ COMMIT_WINDOW_LEDGERS \in Nat /\ REVEAL_WINDOW_LEDGERS \in Nat /\ MaxLedger \in Nat
    BY BoundsAssumption
  <2>4. commitDeadline \in Nat /\ commitDeadline <= now + COMMIT_WINDOW_LEDGERS
    BY <1>0, <2>3 DEF LaterLedger
  <2> HIDE DEF commitDeadline
  <2>5. /\ disputes'[id].reveal_deadline \in Nat
        /\ disputes'[id].reveal_deadline <= commitDeadline + REVEAL_WINDOW_LEDGERS
    BY <2>2, <2>3, <2>4 DEF LaterLedger
  <2> QED
    BY <1>0, <2>2, <2>3, <2>4, <2>5, WindowAssumption
<1> QED
  BY <1>1, <1>2

\* A commitment is written while a dispute is there, a vote when commits are over.
LEMMA BallotWrites ==
  ASSUME NEW id, NEW juror
  PROVE  /\ MayWrite(CommitKey(id, juror)) => id \in DOMAIN disputes
         /\ MayWrite(VoteKey(id, juror)) =>
              id \in DOMAIN disputes /\ now >= disputes[id].commit_deadline
<1> DEFINE keys == {CommitKey(id, juror), VoteKey(id, juror)}
<1>1. \A key \in keys : \A other : ~Belongs(key, other) /\ key \notin StakeEntries(other)
  BY JurorKeysApart, StakeEntriesApart
<1>2. \A any, other : /\ CommitKey(id, juror) # VoteKey(any, other)
                      /\ VoteKey(id, juror) # CommitKey(any, other)
                      /\ CommitKey(id, juror) = CommitKey(any, other) => any = id
                      /\ VoteKey(id, juror) = VoteKey(any, other) => any = id
  BY DEF CommitKey, VoteKey
<1> QED
  BY <1>1, <1>2 DEF MayWrite

\* The keys of a ballot do not depend on the state.
LEMMA BallotsKeptNext ==
  ASSUME \A id \in EscrowIds \ DOMAIN disputes', juror \in Jurors :
           /\ CommitKey(id, juror) \notin DOMAIN liveUntil'
           /\ VoteKey(id, juror) \notin DOMAIN liveUntil',
         \A id \in DOMAIN disputes', juror \in Jurors :
           /\ CommitKey(id, juror) \in DOMAIN liveUntil' =>
                disputes'[id].reveal_deadline <= liveUntil'[CommitKey(id, juror)]
           /\ VoteKey(id, juror) \in DOMAIN liveUntil' =>
                disputes'[id].commit_deadline + LIFETIME_THRESHOLD <= liveUntil'[VoteKey(id, juror)]
  PROVE  NoEarlyBallots' /\ BallotsKept'
BY DEF NoEarlyBallots, BallotsKept, Reaches, CommitKey, VoteKey

(***************************************************************************)
(* A call that writes only the ballot entries it may: what it creates has a *)
(* threshold left, what was there does not get shorter.                     *)
(***************************************************************************)
LEMMA CallKeepsBallots ==
  ASSUME LastingInv, [Next]_vars,
         NEW read, NEW written, NEW extended, NEW removed,
         Access(read, written, extended, removed),
         written \subseteq extended, InstanceKey \notin removed,
         \A id, juror :
           /\ CommitKey(id, juror) \in written => id \in DOMAIN disputes
           /\ VoteKey(id, juror) \in written =>
                id \in DOMAIN disputes /\ now >= disputes[id].commit_deadline
  PROVE  NoEarlyBallots' /\ BallotsKept'
<1>0. VaultInv /\ Lifetimes /\ NoEarlyBallots /\ WindowsFit /\ BallotsKept
  BY DEF LastingInv, StakeInv, KeeperInv
<1>1. /\ now \in Nat /\ LIFETIME_THRESHOLD \in Nat
      /\ DOMAIN disputes \subseteq EscrowIds
      /\ \A id \in DOMAIN disputes :
           disputes[id].commit_deadline \in Nat /\ disputes[id].reveal_deadline \in Nat
  BY <1>0, BallotTypes
<1>2. /\ Lifetimes'
      /\ DOMAIN liveUntil' \subseteq DOMAIN liveUntil \union written
      /\ \A key \in DOMAIN liveUntil' :
           /\ key \in DOMAIN liveUntil => liveUntil'[key] >= liveUntil[key]
           /\ key \in written => liveUntil'[key] >= now + LIFETIME_THRESHOLD
  BY <1>0, <1>1, AccessGrows
<1>3. \A id \in DOMAIN disputes :
        /\ id \in DOMAIN disputes'
        /\ disputes'[id].commit_deadline = disputes[id].commit_deadline
        /\ disputes'[id].reveal_deadline = disputes[id].reveal_deadline
  BY <1>0, DisputesKept
<1>4. \A id \in EscrowIds \ DOMAIN disputes, juror \in Jurors :
        CommitKey(id, juror) \notin DOMAIN liveUntil' /\ VoteKey(id, juror) \notin DOMAIN liveUntil'
  BY <1>0, <1>2 DEF NoEarlyBallots
<1>5. ASSUME NEW id \in DOMAIN disputes, NEW juror \in Jurors,
             NEW key \in DOMAIN liveUntil', key = CommitKey(id, juror)
      PROVE  disputes[id].reveal_deadline <= liveUntil'[key]
  <2>1. liveUntil'[key] \in Nat
    BY <1>2, <1>5 DEF Lifetimes
  <2>2. CASE key \in DOMAIN liveUntil
    <3>1. disputes[id].reveal_deadline <= liveUntil[key] /\ liveUntil[key] \in Nat
      BY <1>0, <1>5, <2>2 DEF BallotsKept, Reaches, Lifetimes
    <3>2. liveUntil'[key] >= liveUntil[key]
      BY <1>2, <1>5, <2>2
    <3> QED
      BY <1>1, <2>1, <3>1, <3>2
  <2>3. CASE key \in written
    <3>1. liveUntil'[key] >= now + LIFETIME_THRESHOLD
      BY <1>2, <1>5, <2>3
    <3>2. disputes[id].reveal_deadline <= now + LIFETIME_THRESHOLD
      BY <1>0 DEF WindowsFit
    <3> QED
      BY <1>1, <2>1, <3>1, <3>2
  <2> QED
    BY <1>2, <1>5, <2>2, <2>3
<1>6. ASSUME NEW id \in DOMAIN disputes, NEW juror \in Jurors,
             NEW key \in DOMAIN liveUntil', key = VoteKey(id, juror)
      PROVE  disputes[id].commit_deadline + LIFETIME_THRESHOLD <= liveUntil'[key]
  <2>1. liveUntil'[key] \in Nat
    BY <1>2, <1>6 DEF Lifetimes
  <2>2. CASE key \in DOMAIN liveUntil
    <3>1. disputes[id].commit_deadline + LIFETIME_THRESHOLD <= liveUntil[key] /\ liveUntil[key] \in Nat
      BY <1>0, <1>6, <2>2 DEF BallotsKept, Reaches, Lifetimes
    <3>2. liveUntil'[key] >= liveUntil[key]
      BY <1>2, <1>6, <2>2
    <3> QED
      BY <1>1, <2>1, <3>1, <3>2
  <2>3. CASE key \in written
    <3>1. liveUntil'[key] >= now + LIFETIME_THRESHOLD
      BY <1>2, <1>6, <2>3
    <3>2. now >= disputes[id].commit_deadline
      BY <1>6, <2>3
    <3> QED
      BY <1>1, <2>1, <3>1, <3>2
  <2> QED
    BY <1>2, <1>6, <2>2, <2>3
<1>7. ASSUME NEW id \in DOMAIN disputes', NEW juror \in Jurors
      PROVE  /\ CommitKey(id, juror) \in DOMAIN liveUntil' =>
                  disputes'[id].reveal_deadline <= liveUntil'[CommitKey(id, juror)]
             /\ VoteKey(id, juror) \in DOMAIN liveUntil' =>
                  disputes'[id].commit_deadline + LIFETIME_THRESHOLD <= liveUntil'[VoteKey(id, juror)]
  <2>1. CASE id \in DOMAIN disputes
    BY <1>3, <1>5, <1>6, <2>1
  <2>2. CASE id \notin DOMAIN disputes
    <3>0. VaultInv'
      BY <1>0, VaultInvNext
    <3>1. id \in EscrowIds
      BY <3>0 DEF VaultInv, FeeInv, TypeOK, IsStore
    <3> QED
      BY <1>4, <2>2, <3>1
  <2> QED
    BY <2>1, <2>2
<1> QED
  BY <1>3, <1>4, <1>7, BallotsKeptNext

LEMMA LastingInvNext ==
  ASSUME KEEPER_CADENCE <= LIFETIME_THRESHOLD, LastingInv, [TtlNext]_ttlVars
  PROVE  LastingInv'
<1>1. StakeInv' /\ VaultInv /\ VaultInv' /\ [Next]_vars
  BY StakeInvNext, TtlStepIsStep DEF LastingInv, StakeInv, KeeperInv
<1>2. WindowsFit'
  BY <1>1, WindowsNext DEF LastingInv
<1>3. CASE AdminCall \/ OpeningCall \/ ReleaseCall \/ DisputeCall \/ KeeperCall
  <2>1. PICK read, written, extended, removed : Call(read, written, extended, removed)
    BY <1>3, CallShape DEF LastingInv, StakeInv, KeeperInv
  <2>2. \A id, juror :
          /\ CommitKey(id, juror) \in written => id \in DOMAIN disputes
          /\ VoteKey(id, juror) \in written =>
               id \in DOMAIN disputes /\ now >= disputes[id].commit_deadline
    BY <2>1, BallotWrites DEF Call
  <2>3. NoEarlyBallots' /\ BallotsKept'
    BY <1>1, <2>1, <2>2, CallKeepsBallots DEF Call
  <2> QED
    BY <1>1, <1>2, <2>3 DEF LastingInv
<1>4. CASE StakingCall
  <2>1. PICK juror \in Jurors : Access({}, {StakeKey(juror)}, {StakeKey(juror)}, {})
    BY <1>4 DEF StakingCall
  <2>2. \A id, other : CommitKey(id, other) # StakeKey(juror) /\ VoteKey(id, other) # StakeKey(juror)
    BY StakeEntriesApart DEF StakeEntries
  <2>3. NoEarlyBallots' /\ BallotsKept'
    BY <1>1, <2>1, <2>2, CallKeepsBallots
  <2> QED
    BY <1>1, <1>2, <2>3 DEF LastingInv
<1>5. CASE CloseLedger \/ OutsideStep
  <2>0. /\ now \in Nat /\ Lifetimes /\ LIFETIME_THRESHOLD \in Nat
        /\ \A id \in DOMAIN disputes :
             disputes[id].commit_deadline \in Nat /\ disputes[id].reveal_deadline \in Nat
    BY <1>1, BallotTypes DEF LastingInv, StakeInv, KeeperInv
  <2>1. /\ disputes' = disputes /\ DOMAIN liveUntil' = DOMAIN liveUntil
        /\ \A key \in DOMAIN liveUntil :
             /\ liveUntil[key] \in Nat /\ liveUntil'[key] \in Nat
             /\ liveUntil'[key] >= liveUntil[key]
    <3>1. CASE CloseLedger
      BY <2>0, <3>1 DEF CloseLedger, Tick, Lifetimes
    <3>2. CASE OutsideStep
      BY <2>0, <3>2, OutsideSteps DEF Lifetimes
    <3> QED
      BY <1>5, <3>1, <3>2
  <2>2. \A id \in EscrowIds \ DOMAIN disputes', juror \in Jurors :
          CommitKey(id, juror) \notin DOMAIN liveUntil' /\ VoteKey(id, juror) \notin DOMAIN liveUntil'
    BY <2>1 DEF LastingInv, NoEarlyBallots
  <2>3. ASSUME NEW id \in DOMAIN disputes', NEW juror \in Jurors
        PROVE  /\ CommitKey(id, juror) \in DOMAIN liveUntil' =>
                    disputes'[id].reveal_deadline <= liveUntil'[CommitKey(id, juror)]
               /\ VoteKey(id, juror) \in DOMAIN liveUntil' =>
                    disputes'[id].commit_deadline + LIFETIME_THRESHOLD
                      <= liveUntil'[VoteKey(id, juror)]
    <3>1. /\ CommitKey(id, juror) \in DOMAIN liveUntil =>
               disputes[id].reveal_deadline <= liveUntil[CommitKey(id, juror)]
          /\ VoteKey(id, juror) \in DOMAIN liveUntil =>
               disputes[id].commit_deadline + LIFETIME_THRESHOLD
                 <= liveUntil[VoteKey(id, juror)]
      BY <2>1 DEF LastingInv, BallotsKept, Reaches
    <3> QED
      BY <2>0, <2>1, <3>1
  <2>4. NoEarlyBallots' /\ BallotsKept'
    BY <2>2, <2>3, BallotsKeptNext
  <2> QED
    BY <1>1, <1>2, <2>4 DEF LastingInv
<1> QED
  BY <1>3, <1>4, <1>5 DEF TtlNext, OutsideStep

LEMMA LastingInvInit == TtlInit => LastingInv
<1> SUFFICES ASSUME TtlInit PROVE LastingInv
  OBVIOUS
<1>1. StakeInv
  BY StakeInvInit
<1>2. DOMAIN disputes = {} /\ DOMAIN liveUntil = {InstanceKey}
  BY DEF TtlInit, Init, EmptyStore
<1>3. \A id, juror : CommitKey(id, juror) # InstanceKey /\ VoteKey(id, juror) # InstanceKey
  BY DEF CommitKey, VoteKey, InstanceKey
<1> QED
  BY <1>1, <1>2, <1>3 DEF LastingInv, NoEarlyBallots, WindowsFit, BallotsKept

(***************************************************************************)
(* Commitments outlive the reveal window of their dispute, and for a        *)
(* threshold after the commit window resolve_dispute finds every entry it   *)
(* needs, under keepers in time and windows that fit in the threshold: its  *)
(* own and the escrow's by the escrow's keeper, those of the slashed jurors *)
(* by theirs, the votes because each was written after that window closed.  *)
(***************************************************************************)
THEOREM BallotLastsCorrect ==
  ASSUME KEEPER_CADENCE <= LIFETIME_THRESHOLD
  PROVE  TtlSpec => []BallotLasts
<1>1. LastingInv => BallotLasts
  <2> SUFFICES ASSUME LastingInv, NEW id \in DOMAIN disputes
               PROVE  /\ now < disputes[id].reveal_deadline =>
                           \A juror \in Jurors :
                             <<id, juror>> \in DOMAIN jurorCommits => Live(CommitKey(id, juror))
                      /\ /\ OpenDispute(id) /\ VotesCast(id)
                         /\ now <= disputes[id].commit_deadline + LIFETIME_THRESHOLD
                         => \A key \in BallotKeys(id) \union RulingKeys(id) : Live(key)
    BY DEF BallotLasts
  <2>0. VaultInv /\ Lifetimes /\ EscrowsKept /\ StakesKept /\ BallotsKept
    BY DEF LastingInv, StakeInv, KeeperInv
  <2>1. /\ now \in Nat /\ LIFETIME_THRESHOLD \in Nat /\ id \in EscrowIds
        /\ disputes[id].commit_deadline \in Nat /\ disputes[id].reveal_deadline \in Nat
        /\ \A key \in DOMAIN liveUntil : liveUntil[key] \in Nat
    BY <2>0, BallotTypes DEF Lifetimes
  <2>2. ASSUME NEW due \in Nat, NEW key, now <= due, Reaches(due, key)
        PROVE  Live(key)
    BY <2>1, <2>2 DEF Reaches, Live
  <2>3. \A key \in EscrowEntries(id) : Live(key)
    <3>1. id \in DOMAIN escrows
      BY <2>0 DEF VaultInv, Lifecycle
    <3>2. OnTime(escrowDue[id]) /\ \A key \in EscrowEntries(id) : Reaches(escrowDue[id], key)
      BY <2>0, <3>1 DEF EscrowsKept
    <3> QED
      BY <2>2, <3>2 DEF OnTime
  <2>4. ASSUME NEW juror \in Jurors, ~Bystander(juror)
        PROVE  \A key \in StakeEntries(juror) : Live(key)
    <3>1. juror \in DOMAIN stakeDue
      BY <2>0, <2>4 DEF StakesKept
    <3>2. OnTime(stakeDue[juror]) /\ \A key \in StakeEntries(juror) : Reaches(stakeDue[juror], key)
      BY <2>0, <3>1 DEF StakesKept
    <3> QED
      BY <2>2, <3>2 DEF OnTime
  <2>5. ASSUME now < disputes[id].reveal_deadline, NEW juror \in Jurors
        PROVE  Live(CommitKey(id, juror))
    <3>1. Reaches(disputes[id].reveal_deadline, CommitKey(id, juror))
      BY <2>0 DEF BallotsKept
    <3> QED
      BY <2>1, <2>2, <2>5, <3>1
  <2>6. ASSUME now <= disputes[id].commit_deadline + LIFETIME_THRESHOLD,
               NEW key \in BallotKeys(id)
        PROVE  Live(key)
    <3>1. CASE key \in {VotersKey(id), ReleasedKey(id)}
      BY <2>3, <3>1 DEF EscrowEntries
    <3>2. ASSUME NEW k \in DOMAIN disputeVoters[id], key = VoteKey(id, disputeVoters[id][k])
          PROVE  Live(key)
      <4>1. disputeVoters[id] \in Seq(Jurors)
        BY <2>0, <2>1 DEF VaultInv, FeeInv, TypeOK
      <4>2. disputeVoters[id][k] \in Jurors
        BY <4>1
      <4>3. Reaches(disputes[id].commit_deadline + LIFETIME_THRESHOLD, key)
        BY <2>0, <3>2, <4>2 DEF BallotsKept
      <4>4. disputes[id].commit_deadline + LIFETIME_THRESHOLD \in Nat
        BY <2>1
      <4> QED
        BY <2>2, <2>6, <4>3, <4>4
    <3> QED
      BY <3>1, <3>2 DEF BallotKeys
  <2>7. ASSUME NEW key \in RulingKeys(id)
        PROVE  Live(key)
    <3>1. CASE key \in {DisputeKey(id), EscrowKey(id)}
      BY <2>3, <3>1 DEF EscrowEntries
    <3>2. ASSUME NEW juror \in MinorityOf(id, RulingFor(id)), key \in StakeEntries(juror)
          PROVE  Live(key)
      <4>1. juror \in Jurors /\ ~Bystander(juror)
        BY <2>1 DEF MinorityOf, Bystander
      <4> QED
        BY <2>4, <3>2, <4>1
    <3> QED
      BY <3>1, <3>2 DEF RulingKeys, StakeEntries
  <2> QED
    BY <2>5, <2>6, <2>7
<1>2. LastingInv /\ [TtlNext]_ttlVars => LastingInv'
  BY LastingInvNext
<1> QED
  BY <1>1, <1>2, LastingInvInit, PTL DEF TtlSpec

===============================================================================
