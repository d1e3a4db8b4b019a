------------------------- MODULE TrustFlowVaultProofs -------------------------
(***************************************************************************)
(* The life of an escrow, for every value of the constants: the fees it     *)
(* pays (FeeLaw), the records its calls leave behind (VaultInv), and a      *)
(* paused contract that stands still.                                       *)
(*                                                                          *)
(* FeeLaw needs to know which escrows exist: ids are given out in order, an *)
(* escrow keeps its fee snapshot from the call that opens it, and an id not *)
(* given out yet has released and paid nothing.  VaultInv, on which the     *)
(* proofs about the money rest, adds two facts: a dispute is open exactly   *)
(* while its escrow is disputed, and an unsettled escrow has not released   *)
(* everything.                                                              *)
(***************************************************************************)
EXTENDS TrustFlowTypeProofs

-----------------------------------------------------------------------------
\* What create_escrow, init_escrow and nobody else register.
Registry ==
  /\ DOMAIN escrows = 1 .. escrowCounter
  /\ DOMAIN feeConfigs = DOMAIN escrows
  /\ \A id \in EscrowIds \ DOMAIN escrows : escrowReleased[id] = 0 /\ feesPaid[id] = 0

FeeInv == TypeOK /\ Registry /\ FeeLaw

-----------------------------------------------------------------------------
LEMMA FeeInit == Init => FeeInv
<1> SUFFICES ASSUME Init PROVE FeeInv
  OBVIOUS
<1>1. TypeOK
  BY InitType
<1>2. escrowCounter = 0
  BY DEF Init, Initialize
<1>3. DOMAIN escrows = {} /\ DOMAIN feeConfigs = {}
  BY DEF Init, EmptyStore
<1>4. Registry
  BY <1>2, <1>3 DEF Init, Registry
<1> QED
  BY <1>1, <1>3, <1>4 DEF FeeInv, FeeLaw

\* A step that opens no escrow and releases nothing.
LEMMA FeeFrame ==
  ASSUME FeeInv, TypeOK', DOMAIN escrows' = DOMAIN escrows,
         UNCHANGED <<escrowCounter, feeConfigs, escrowReleased, feesPaid>>
  PROVE  FeeInv'
  BY DEF FeeInv, Registry, FeeLaw

LEMMA OtherStepsAreFramed ==
  ASSUME AdminStep \/ StakingStep \/ DisputeStep \/ GiftStep \/ Tick \/ UNCHANGED vars
  PROVE  /\ DOMAIN escrows' = DOMAIN escrows
         /\ UNCHANGED <<escrowCounter, feeConfigs, escrowReleased, feesPaid>>
<1> USE DEF escrowVars
<1>1. CASE AdminStep
  BY <1>1 DEF AdminStep, SetFeeBps, SetTreasury, SetPauser, RevokePauser, Pause, Unpause
<1>2. CASE StakingStep
  BY <1>2 DEF StakingStep, Stake, Unstake
<1>3. CASE DisputeStep
  <2> DEFINE Framed == /\ DOMAIN escrows' = DOMAIN escrows
                       /\ UNCHANGED <<escrowCounter, feeConfigs, escrowReleased, feesPaid>>
  <2>1. \A id, caller : RaiseDispute(id, caller) => Framed
    BY DEF RaiseDispute
  <2>2. \A id, juror, commitment : CommitVote(id, juror, commitment) => Framed
    BY DEF CommitVote
  <2>3. \A id, juror, vote, salt : RevealVote(id, juror, vote, salt) => Framed
    BY DEF RevealVote
  <2>4. \A id : ResolveDispute(id) => Framed
    BY DEF ResolveDispute
  <2> HIDE DEF Framed
  <2>5. Framed
    BY <1>3, <2>1, <2>2, <2>3, <2>4, Zenon DEF DisputeStep
  <2> QED
    BY <2>5 DEF Framed
<1>4. CASE Tick
  BY <1>4 DEF Tick
<1>5. CASE GiftStep
  BY <1>5 DEF GiftStep, Donate
<1>6. CASE UNCHANGED vars
  BY <1>6 DEF vars
<1> QED
  BY <1>1, <1>2, <1>3, <1>4, <1>5, <1>6

-----------------------------------------------------------------------------
LEMMA OpenEscrowFee ==
  ASSUME FeeInv, TypeOK', NEW depositor, NEW beneficiary, NEW amount, NEW milestones,
         OpenEscrow(depositor, beneficiary, amount, milestones)
  PROVE  FeeInv'
<1> DEFINE id == escrowCounter + 1
<1>1. /\ escrowCounter \in Nat /\ id \in EscrowIds /\ id \notin DOMAIN escrows
      /\ escrowReleased[id] = 0 /\ feesPaid[id] = 0
  BY DEF FeeInv, TypeOK, Registry, OpenEscrow, EscrowIds
<1>2. /\ escrowCounter' = id
      /\ DOMAIN escrows' = DOMAIN escrows \union {id}
      /\ DOMAIN feeConfigs' = DOMAIN feeConfigs \union {id}
      /\ \A other \in DOMAIN feeConfigs : feeConfigs'[other] = feeConfigs[other]
      /\ escrowReleased' = escrowReleased /\ feesPaid' = feesPaid
  BY <1>1 DEF OpenEscrow, Put, FeeInv, Registry
<1>3. Registry'
  BY <1>1, <1>2 DEF FeeInv, Registry
<1>4. FeeLaw'
  <2> SUFFICES ASSUME NEW any \in DOMAIN escrows'
               PROVE  feesPaid'[any] =
                        (escrowReleased'[any] * feeConfigs'[any].fee_bps) \div BPS_DENOMINATOR
    BY DEF FeeLaw
  <2>1. CASE any = id
    <3>1. feeConfigs'[any].fee_bps \in Nat
      BY <1>2, <2>1 DEF TypeOK, IsStore, EscrowFeeConfig, Bps
    <3>2. 0 * feeConfigs'[any].fee_bps = 0
      BY <3>1
    <3>3. 0 \div BPS_DENOMINATOR = 0
      BY BpsAssumption
    <3> QED
      BY <1>1, <1>2, <2>1, <3>2, <3>3
  <2>2. CASE any \in DOMAIN escrows
    BY <1>2, <2>2 DEF FeeInv, Registry, FeeLaw
  <2> QED
    BY <1>2, <2>1, <2>2
<1> QED
  BY <1>3, <1>4 DEF FeeInv

LEMMA ReleaseFee ==
  ASSUME FeeInv, TypeOK', NEW id \in DOMAIN escrows,
         NEW index \in DOMAIN escrows[id].milestones, NEW gross \in Int, NEW caller,
         ReleaseMilestoneTranche(id, index, gross, caller)
  PROVE  FeeInv'
<1> DEFINE before == escrowReleased[id]
           after  == escrowReleased[id] + gross
           bps    == feeConfigs[id].fee_bps
<1>1. /\ id \in EscrowIds /\ id \in DOMAIN feeConfigs
      /\ before \in Nat /\ after \in Nat /\ bps \in Nat
      /\ feesPaid[id] \in Nat
  <2>1. /\ id \in EscrowIds /\ id \in DOMAIN feeConfigs
        /\ before \in Nat /\ feesPaid[id] \in Nat
    BY DEF FeeInv, TypeOK, Registry, IsStore
  <2>2. bps \in Nat
    BY <2>1 DEF FeeInv, TypeOK, IsStore, EscrowFeeConfig, Bps
  <2>3. gross > 0
    BY DEF ReleaseMilestoneTranche
  <2> QED
    BY <2>1, <2>2, <2>3
<1>2. /\ DOMAIN escrows' = DOMAIN escrows
      /\ UNCHANGED <<escrowCounter, feeConfigs>>
      /\ escrowReleased' = [escrowReleased EXCEPT ![id] = after]
      /\ feesPaid' = [feesPaid EXCEPT ![id] = @ + TrancheFee(id, before, after)]
  <2>1. DOMAIN escrows' = DOMAIN escrows
    BY DEF ReleaseMilestoneTranche
  <2>2. UNCHANGED <<escrowCounter, feeConfigs>>
    BY DEF ReleaseMilestoneTranche
  <2>3. escrowReleased' = [escrowReleased EXCEPT ![id] = after]
    BY DEF ReleaseMilestoneTranche
  <2>4. feesPaid' = [feesPaid EXCEPT ![id] = @ + TrancheFee(id, before, after)]
    BY DEF ReleaseMilestoneTranche
  <2> QED
    BY <2>1, <2>2, <2>3, <2>4
<1>3. Registry'
  BY <1>1, <1>2 DEF FeeInv, TypeOK, Registry
<1>4. feesPaid'[id] = (after * bps) \div BPS_DENOMINATOR
  <2>1. feesPaid[id] = CumulativeFee(before, bps)
    BY <1>1, CumulativeFeeIsFloor DEF FeeInv, FeeLaw
  <2>2. feesPaid'[id] = feesPaid[id] + TrancheFee(id, before, after)
    BY <1>1, <1>2 DEF FeeInv, TypeOK
  <2>3. TrancheFee(id, before, after) = CumulativeFee(after, bps) - CumulativeFee(before, bps)
    BY DEF TrancheFee
  <2>4. CumulativeFee(after, bps) = (after * bps) \div BPS_DENOMINATOR
    BY <1>1, CumulativeFeeIsFloor
  <2>5. CumulativeFee(after, bps) \in Int
    BY <1>1, <2>4, BpsAssumption
  <2> QED
    BY <1>1, <2>1, <2>2, <2>3, <2>4, <2>5
<1>5. FeeLaw'
  <2> SUFFICES ASSUME NEW any \in DOMAIN escrows
               PROVE  feesPaid'[any] =
                        (escrowReleased'[any] * feeConfigs'[any].fee_bps) \div BPS_DENOMINATOR
    BY <1>2 DEF FeeLaw
  <2>1. any \in EscrowIds /\ escrowReleased \in [EscrowIds -> 0 .. I128_MAX]
        /\ feesPaid \in [EscrowIds -> Nat]
    BY DEF FeeInv, TypeOK, IsStore
  <2>2. CASE any = id
    <3>1. escrowReleased'[any] = after /\ feeConfigs'[any].fee_bps = bps
      BY <1>2, <2>1, <2>2
    <3> HIDE DEF after, bps
    <3> QED
      BY <1>4, <2>2, <3>1
  <2>3. CASE any # id
    <3>1. /\ escrowReleased'[any] = escrowReleased[any]
          /\ feesPaid'[any] = feesPaid[any]
          /\ feeConfigs' = feeConfigs
      BY <1>2, <2>1, <2>3
    <3>2. feesPaid[any] = (escrowReleased[any] * feeConfigs[any].fee_bps) \div BPS_DENOMINATOR
      BY Zenon DEF FeeInv, FeeLaw
    <3> QED
      BY <3>1, <3>2
  <2> QED
    BY <2>2, <2>3
<1> QED
  BY <1>3, <1>5 DEF FeeInv

LEMMA FeeNext ==
  ASSUME FeeInv, [Next]_vars
  PROVE  FeeInv'
<1>1. TypeOK'
  BY NextType, StutterType DEF FeeInv
<1>2. CASE EscrowStep
  <2>1. ASSUME NEW depositor \in Depositors, NEW beneficiary \in Beneficiaries,
               NEW amount \in EscrowAmounts, CreateEscrow(depositor, beneficiary, amount)
        PROVE  FeeInv'
    BY <1>1, <2>1, OpenEscrowFee DEF CreateEscrow
  <2>2. ASSUME NEW depositor \in Depositors, NEW beneficiary \in Beneficiaries,
               NEW milestones \in MilestonePlans,
               InitEscrow(depositor, beneficiary, milestones)
        PROVE  FeeInv'
    BY <1>1, <2>2, OpenEscrowFee DEF InitEscrow
  <2>3. ASSUME NEW id \in DOMAIN escrows, NEW gross \in TrancheAmounts,
               NEW caller \in Depositors, NEW index \in DOMAIN escrows[id].milestones,
               ReleaseMilestoneTranche(id, index, gross, caller)
        PROVE  FeeInv'
    BY <1>1, <2>3, InputsAssumption, ReleaseFee
  <2> QED
    BY <1>2, <2>1, <2>2, <2>3 DEF EscrowStep
<1>3. CASE AdminStep \/ StakingStep \/ DisputeStep \/ GiftStep \/ Tick \/ UNCHANGED vars
  BY <1>1, <1>3, OtherStepsAreFramed, FeeFrame
<1> QED
  BY <1>2, <1>3 DEF Next

LEMMA FeeInvCorrect == Spec => []FeeInv
  BY FeeInit, FeeNext, PTL DEF Spec

(***************************************************************************)
(* The fees an escrow has paid are the floor of its snapshotted rate on     *)
(* everything it released: the split of a release into tranches and the     *)
(* changes of the default rate make no difference.                          *)
(***************************************************************************)
THEOREM FeeLawCorrect == Spec => []FeeLaw
<1>1. FeeInv => FeeLaw
  BY DEF FeeInv
<1> QED
  BY <1>1, FeeInvCorrect, PTL

-----------------------------------------------------------------------------
\* The dispute and the escrow of an id tell the same story.
Lifecycle ==
  \A id \in DOMAIN disputes :
    /\ id \in DOMAIN escrows
    /\ disputes[id].resolved => escrows[id].status = "Settled"
    /\ ~disputes[id].resolved => escrows[id].status = "Disputed"

\* An escrow that is not settled has not paid everything out.
Funded ==
  \A id \in DOMAIN escrows :
    escrows[id].status # "Settled" => escrowReleased[id] < escrows[id].amount

VaultInv == FeeInv /\ Lifecycle /\ Funded

-----------------------------------------------------------------------------
LEMMA VaultInvInit == Init => VaultInv
<1> SUFFICES ASSUME Init PROVE VaultInv
  OBVIOUS
<1>1. DOMAIN escrows = {} /\ DOMAIN disputes = {}
  BY DEF Init, EmptyStore
<1> QED
  BY <1>1, FeeInit DEF VaultInv, Lifecycle, Funded

\* The steps that touch neither escrows nor disputes.
QuietStep ==
  \/ AdminStep \/ StakingStep \/ GiftStep \/ Tick \/ UNCHANGED vars
  \/ \E id \in EscrowIds, juror \in Jurors, vote \in BOOLEAN, salt \in Salts :
       \/ CommitVote(id, juror, HashVote(vote, salt))
       \/ RevealVote(id, juror, vote, salt)

LEMMA QuietSteps ==
  ASSUME QuietStep
  PROVE  UNCHANGED <<escrows, escrowReleased, disputes>>
<1> USE DEF escrowVars
<1>1. CASE AdminStep
  BY <1>1 DEF AdminStep, SetFeeBps, SetTreasury, SetPauser, RevokePauser, Pause, Unpause
<1>2. CASE StakingStep
  BY <1>2 DEF StakingStep, Stake, Unstake
<1>3. CASE Tick \/ GiftStep
  BY <1>3 DEF Tick, GiftStep, Donate
<1>4. CASE UNCHANGED vars
  BY <1>4 DEF vars
<1>5. CASE \E id \in EscrowIds, juror \in Jurors, vote \in BOOLEAN, salt \in Salts :
             \/ CommitVote(id, juror, HashVote(vote, salt))
             \/ RevealVote(id, juror, vote, salt)
  BY <1>5 DEF CommitVote, RevealVote
<1> QED
  BY <1>1, <1>2, <1>3, <1>4, <1>5 DEF QuietStep

\* A step is quiet, or one of four calls.
LEMMA StepKinds ==
  ASSUME [Next]_vars
  PROVE  \/ QuietStep
         \/ \E depositor, beneficiary, amount, milestones :
              OpenEscrow(depositor, beneficiary, amount, milestones)
         \/ \E caller : \E id \in DOMAIN escrows, gross \in Int :
              \E index \in DOMAIN escrows[id].milestones :
                ReleaseMilestoneTranche(id, index, gross, caller)
         \/ \E caller : \E id \in EscrowIds : RaiseDispute(id, caller)
         \/ \E id \in EscrowIds : ResolveDispute(id)
<1>1. CASE EscrowStep
  BY <1>1, InputsAssumption DEF EscrowStep, CreateEscrow, InitEscrow
<1>2. CASE DisputeStep
  BY <1>2 DEF DisputeStep, QuietStep
<1> QED
  BY <1>1, <1>2 DEF Next, QuietStep

\* What opening an escrow does to the records.
LEMMA OpenEscrowRecords ==
  ASSUME FeeInv, NEW depositor, NEW beneficiary, NEW amount, NEW milestones,
         OpenEscrow(depositor, beneficiary, amount, milestones)
  PROVE  \E id \in EscrowIds \ DOMAIN escrows :
           /\ DOMAIN escrows' = DOMAIN escrows \union {id}
           /\ escrows'[id].status = "Active"
           /\ escrows'[id].amount = amount
           /\ \A other \in DOMAIN escrows : escrows'[other] = escrows[other]
           /\ amount \in 1 .. I128_MAX
           /\ escrowReleased[id] = 0
           /\ UNCHANGED <<escrowReleased, disputes>>
<1> DEFINE id == escrowCounter + 1
<1>1. id \in EscrowIds /\ id \notin DOMAIN escrows /\ escrowReleased[id] = 0
  BY DEF FeeInv, TypeOK, Registry, OpenEscrow, EscrowIds
<1>2. amount \in 1 .. I128_MAX /\ UNCHANGED <<escrowReleased, disputes>>
  BY DEF OpenEscrow, FitsI128
<1>3. /\ DOMAIN escrows' = DOMAIN escrows \union {id}
      /\ escrows'[id].status = "Active" /\ escrows'[id].amount = amount
      /\ \A other \in DOMAIN escrows : escrows'[other] = escrows[other]
  BY <1>1 DEF OpenEscrow, Put
<1> QED
  BY <1>1, <1>2, <1>3

\* What releasing a tranche does to the records.
LEMMA ReleaseRecords ==
  ASSUME VaultInv, NEW id \in DOMAIN escrows,
         NEW index \in DOMAIN escrows[id].milestones, NEW gross \in Int, NEW caller,
         ReleaseMilestoneTranche(id, index, gross, caller)
  PROVE  /\ id \in EscrowIds
         /\ escrows[id].status = "Active" /\ gross > 0
         /\ escrows[id].amount \in 1 .. I128_MAX
         /\ escrowReleased[id] \in Nat
         /\ escrowReleased[id] + gross <= escrows[id].amount
         /\ DOMAIN escrows' = DOMAIN escrows
         /\ \A other \in DOMAIN escrows \ {id} : escrows'[other] = escrows[other]
         /\ escrows'[id].amount = escrows[id].amount
         /\ escrows'[id].status = IF escrowReleased[id] + gross = escrows[id].amount
                                    THEN "Settled" ELSE "Active"
         /\ escrowReleased' = [escrowReleased EXCEPT ![id] = @ + gross]
         /\ disputes' = disputes
<1>1. /\ id \in EscrowIds /\ escrows[id] \in EscrowRecord
      /\ escrowReleased[id] \in Nat /\ escrowReleased \in [EscrowIds -> 0 .. I128_MAX]
  BY DEF VaultInv, FeeInv, TypeOK, IsStore
<1>2. escrows[id].amount \in 1 .. I128_MAX
  BY <1>1 DEF EscrowRecord
<1>3. /\ escrows[id].status = "Active" /\ gross > 0
      /\ escrowReleased[id] + gross <= escrows[id].amount
      /\ escrowReleased' = [escrowReleased EXCEPT ![id] = escrowReleased[id] + gross]
      /\ disputes' = disputes
  BY DEF ReleaseMilestoneTranche, Releasable
<1> DEFINE milestones == [escrows[id].milestones EXCEPT ![index].approved = TRUE]
             status == IF escrowReleased[id] + gross = escrows[id].amount
                         THEN "Settled" ELSE escrows[id].status
             paid == [escrows[id] EXCEPT !.milestones = milestones, !.status = status]
<1>4. escrows' = [escrows EXCEPT ![id] = paid]
  BY DEF ReleaseMilestoneTranche
<1>5. paid.amount = escrows[id].amount /\ paid.status = status
  <2> HIDE DEF milestones, status
  <2> QED
    BY <1>1 DEF EscrowRecord
<1>6. /\ DOMAIN escrows' = DOMAIN escrows
      /\ escrows'[id] = paid
      /\ \A other \in DOMAIN escrows \ {id} : escrows'[other] = escrows[other]
  <2> HIDE DEF paid
  <2> QED
    BY <1>4
<1> HIDE DEF paid
<1> QED
  BY <1>1, <1>2, <1>3, <1>5, <1>6

\* What raising and resolving a dispute do to the records.
LEMMA RaiseRecords ==
  ASSUME VaultInv, NEW id \in EscrowIds, NEW caller, RaiseDispute(id, caller)
  PROVE  /\ id \in DOMAIN escrows /\ id \notin DOMAIN disputes
         /\ escrows[id].status = "Active"
         /\ DOMAIN escrows' = DOMAIN escrows
         /\ \A other \in DOMAIN escrows \ {id} : escrows'[other] = escrows[other]
         /\ escrows'[id].status = "Disputed" /\ escrows'[id].amount = escrows[id].amount
         /\ escrowReleased' = escrowReleased
         /\ DOMAIN disputes' = DOMAIN disputes \union {id}
         /\ disputes'[id].resolved = FALSE
         /\ \A other \in DOMAIN disputes : disputes'[other] = disputes[other]
<1>1. /\ id \in DOMAIN escrows /\ escrows[id].status = "Active"
      /\ escrows' = [escrows EXCEPT ![id].status = "Disputed"]
      /\ escrowReleased' = escrowReleased
  BY DEF RaiseDispute
<1>2. escrows[id] \in EscrowRecord
  BY <1>1 DEF VaultInv, FeeInv, TypeOK, IsStore
<1>3. id \notin DOMAIN disputes
  <2> SUFFICES ASSUME id \in DOMAIN disputes PROVE FALSE
    OBVIOUS
  <2>1. escrows[id].status \in {"Settled", "Disputed"}
    BY Zenon DEF VaultInv, Lifecycle
  <2> QED
    BY <1>1, <2>1
<1>4. /\ DOMAIN disputes' = DOMAIN disputes \union {id}
      /\ \A other \in DOMAIN disputes : disputes'[other] = disputes[other]
  BY <1>3 DEF RaiseDispute, Put
<1>5. disputes'[id].resolved = FALSE
  BY DEF RaiseDispute, Put
<1>6. /\ DOMAIN escrows' = DOMAIN escrows
      /\ \A other \in DOMAIN escrows \ {id} : escrows'[other] = escrows[other]
      /\ escrows'[id].status = "Disputed" /\ escrows'[id].amount = escrows[id].amount
  BY <1>1, <1>2 DEF EscrowRecord
<1> QED
  BY <1>1, <1>3, <1>4, <1>5, <1>6

LEMMA ResolveRecords ==
  ASSUME VaultInv, NEW id \in EscrowIds, ResolveDispute(id)
  PROVE  /\ id \in DOMAIN escrows /\ id \in DOMAIN disputes
         /\ ~disputes[id].resolved
         /\ escrows[id].status = "Disputed"
         /\ DOMAIN escrows' = DOMAIN escrows
         /\ \A other \in DOMAIN escrows \ {id} : escrows'[other] = escrows[other]
         /\ escrows'[id].status = "Settled"
         /\ escrowReleased' = escrowReleased
         /\ DOMAIN disputes' = DOMAIN disputes
         /\ disputes'[id].resolved = TRUE
         /\ disputes'[id].commit_deadline = disputes[id].commit_deadline
         /\ disputes'[id].reveal_deadline = disputes[id].reveal_deadline
         /\ \A other \in DOMAIN disputes \ {id} : disputes'[other] = disputes[other]
<1>1. /\ id \in DOMAIN escrows /\ id \in DOMAIN disputes /\ ~disputes[id].resolved
      /\ escrows' = [escrows EXCEPT ![id].status = "Settled"]
      /\ escrowReleased' = escrowReleased
      /\ disputes' = [disputes EXCEPT ![id].resolved = TRUE,
                                      ![id].ruling_for_depositor = RulingFor(id)]
  BY DEF ResolveDispute, OpenDispute
<1>2. escrows[id] \in EscrowRecord /\ disputes[id] \in DisputeRecord
  BY <1>1 DEF VaultInv, FeeInv, TypeOK, IsStore
<1>3. escrows[id].status = "Disputed"
  BY <1>1, Zenon DEF VaultInv, Lifecycle
<1>4. /\ DOMAIN escrows' = DOMAIN escrows
      /\ \A other \in DOMAIN escrows \ {id} : escrows'[other] = escrows[other]
      /\ escrows'[id].status = "Settled"
  BY <1>1, <1>2 DEF EscrowRecord
<1>5. /\ DOMAIN disputes' = DOMAIN disputes
      /\ disputes'[id].resolved = TRUE
      /\ disputes'[id].commit_deadline = disputes[id].commit_deadline
      /\ disputes'[id].reveal_deadline = disputes[id].reveal_deadline
      /\ \A other \in DOMAIN disputes \ {id} : disputes'[other] = disputes[other]
  BY <1>1, <1>2 DEF DisputeRecord
<1> QED
  BY <1>1, <1>3, <1>4, <1>5

(***************************************************************************)
(* The milestones of an escrow are never renumbered, and their amounts      *)
(* never change: an approval is all a call writes to them.                  *)
(***************************************************************************)
LEMMA MilestonesKept ==
  ASSUME VaultInv, [Next]_vars, NEW any \in DOMAIN escrows
  PROVE  /\ any \in DOMAIN escrows'
         /\ DOMAIN escrows'[any].milestones = DOMAIN escrows[any].milestones
         /\ \A i \in DOMAIN escrows[any].milestones :
              escrows'[any].milestones[i].amount = escrows[any].milestones[i].amount
<1> DEFINE Kept == /\ any \in DOMAIN escrows'
                   /\ DOMAIN escrows'[any].milestones = DOMAIN escrows[any].milestones
                   /\ \A i \in DOMAIN escrows[any].milestones :
                        escrows'[any].milestones[i].amount = escrows[any].milestones[i].amount
<1>0. any \in EscrowIds /\ escrows[any] \in EscrowRecord
  BY DEF VaultInv, FeeInv, TypeOK, IsStore
<1>1. QuietStep => Kept
  BY QuietSteps
<1>2. ASSUME NEW depositor, NEW beneficiary, NEW amount, NEW milestones,
             OpenEscrow(depositor, beneficiary, amount, milestones)
      PROVE  Kept
  <2>1. FeeInv
    BY DEF VaultInv
  <2> QED
    BY <1>2, <2>1, OpenEscrowRecords
<1>3. ASSUME NEW id \in DOMAIN escrows, NEW gross \in Int, NEW caller,
             NEW index \in DOMAIN escrows[id].milestones,
             ReleaseMilestoneTranche(id, index, gross, caller)
      PROVE  Kept
  <2>1. CASE any # id
    BY <1>3, <2>1, ReleaseRecords
  <2>2. CASE any = id
    <3> DEFINE milestones == escrows[id].milestones
               approved == [milestones EXCEPT ![index].approved = TRUE]
               status == IF escrowReleased[id] + gross = escrows[id].amount
                           THEN "Settled" ELSE escrows[id].status
               paid == [escrows[id] EXCEPT !.milestones = approved, !.status = status]
    <3>1. escrows' = [escrows EXCEPT ![id] = paid]
      BY <1>3 DEF ReleaseMilestoneTranche
    <3>2. milestones \in Seq(Milestone)
      BY <1>0, <2>2 DEF EscrowRecord
    <3>3. paid.milestones = approved
      <4> HIDE DEF approved, status
      <4> QED
        BY <1>0, <2>2 DEF EscrowRecord
    <3> HIDE DEF paid
    <3>4. DOMAIN approved = DOMAIN milestones
      OBVIOUS
    <3>5. \A i \in DOMAIN milestones : approved[i].amount = milestones[i].amount
      <4> HIDE DEF milestones
      <4> QED
        BY <3>2 DEF Milestone
    <3> HIDE DEF approved
    <3> QED
      BY <2>2, <3>1, <3>3, <3>4, <3>5
  <2> QED
    BY <2>1, <2>2
<1>4. ASSUME NEW id \in EscrowIds, NEW caller, RaiseDispute(id, caller)
      PROVE  Kept
  BY <1>0, <1>4 DEF RaiseDispute, EscrowRecord
<1>5. ASSUME NEW id \in EscrowIds, ResolveDispute(id)
      PROVE  Kept
  BY <1>0, <1>5 DEF ResolveDispute, EscrowRecord
<1> QED
  BY <1>1, <1>2, <1>3, <1>4, <1>5, StepKinds

-----------------------------------------------------------------------------
\* A step that changes the dispute and the escrow of one id only.
LEMMA LifecycleOfOne ==
  ASSUME Lifecycle, NEW id \in DOMAIN escrows,
         DOMAIN escrows' = DOMAIN escrows,
         \A other \in DOMAIN escrows \ {id} : escrows'[other] = escrows[other],
         DOMAIN disputes' = DOMAIN disputes \union {id},
         \A other \in DOMAIN disputes \ {id} : disputes'[other] = disputes[other],
         disputes'[id].resolved => escrows'[id].status = "Settled",
         ~disputes'[id].resolved => escrows'[id].status = "Disputed"
  PROVE  Lifecycle'
<1>1. ASSUME NEW other \in DOMAIN disputes \ {id}
      PROVE  /\ other \in DOMAIN escrows
             /\ disputes'[other].resolved => escrows'[other].status = "Settled"
             /\ ~disputes'[other].resolved => escrows'[other].status = "Disputed"
  <2>1. /\ other \in DOMAIN escrows
        /\ disputes[other].resolved => escrows[other].status = "Settled"
        /\ ~disputes[other].resolved => escrows[other].status = "Disputed"
    BY Zenon DEF Lifecycle
  <2>2. escrows'[other] = escrows[other] /\ disputes'[other] = disputes[other]
    BY <2>1
  <2> QED
    BY <2>1, <2>2, Zenon
<1>2. SUFFICES ASSUME NEW any \in DOMAIN disputes'
               PROVE  /\ any \in DOMAIN escrows'
                      /\ disputes'[any].resolved => escrows'[any].status = "Settled"
                      /\ ~disputes'[any].resolved => escrows'[any].status = "Disputed"
  BY Zenon DEF Lifecycle
<1>3. CASE any = id
  BY <1>3, Zenon
<1>4. CASE any # id
  <2>1. any \in DOMAIN disputes \ {id}
    BY <1>4
  <2> QED
    BY <1>1, <2>1, Zenon
<1> QED
  BY <1>3, <1>4

LEMMA VaultInvNext ==
  ASSUME VaultInv, [Next]_vars
  PROVE  VaultInv'
<1>1. FeeInv'
  BY FeeNext DEF VaultInv
<1>2. CASE QuietStep
  BY <1>1, <1>2, QuietSteps DEF VaultInv, Lifecycle, Funded
<1>3. ASSUME NEW depositor, NEW beneficiary, NEW amount, NEW milestones,
             OpenEscrow(depositor, beneficiary, amount, milestones)
      PROVE  VaultInv'
  <2>1. PICK id \in EscrowIds \ DOMAIN escrows :
           /\ DOMAIN escrows' = DOMAIN escrows \union {id}
           /\ escrows'[id].status = "Active"
           /\ escrows'[id].amount = amount
           /\ \A other \in DOMAIN escrows : escrows'[other] = escrows[other]
           /\ amount \in 1 .. I128_MAX
           /\ escrowReleased[id] = 0
           /\ UNCHANGED <<escrowReleased, disputes>>
    BY <1>3, OpenEscrowRecords DEF VaultInv
  <2>2. Lifecycle'
    BY <2>1 DEF VaultInv, Lifecycle
  <2>3. escrowReleased'[id] < escrows'[id].amount
    BY <2>1
  <2>4. Funded'
    BY <2>1, <2>3 DEF VaultInv, Funded
  <2> QED
    BY <1>1, <2>2, <2>4 DEF VaultInv
<1>4. ASSUME NEW id \in DOMAIN escrows, NEW gross \in Int, NEW caller,
             NEW index \in DOMAIN escrows[id].milestones,
             ReleaseMilestoneTranche(id, index, gross, caller)
      PROVE  VaultInv'
  <2>1. id \notin DOMAIN disputes
    BY <1>4, ReleaseRecords DEF VaultInv, Lifecycle
  <2>2. Lifecycle'
    BY <1>4, <2>1, ReleaseRecords DEF VaultInv, Lifecycle
  <2>3. Funded'
    <3> SUFFICES ASSUME NEW any \in DOMAIN escrows, escrows'[any].status # "Settled"
                 PROVE  escrowReleased'[any] < escrows'[any].amount
      BY <1>4, ReleaseRecords DEF Funded
    <3>1. any \in EscrowIds /\ escrowReleased \in [EscrowIds -> 0 .. I128_MAX]
      BY DEF VaultInv, FeeInv, TypeOK, IsStore
    <3>2. CASE any = id
      <4> DEFINE amount == escrows[id].amount
                 after  == escrowReleased[id] + gross
      <4>1. /\ amount \in 1 .. I128_MAX /\ escrowReleased[id] \in Nat /\ after <= amount
            /\ escrows'[id].amount = amount
            /\ escrows'[id].status = IF after = amount THEN "Settled" ELSE "Active"
            /\ escrowReleased' = [escrowReleased EXCEPT ![id] = @ + gross]
        BY <1>4, ReleaseRecords
      <4>2. escrowReleased'[id] = after
        BY <3>1, <3>2, <4>1
      <4>3. after # amount
        BY <3>2, <4>1
      <4>4. after < amount
        BY <4>1, <4>3
      <4> HIDE DEF amount, after
      <4> QED
        BY <3>2, <4>1, <4>2, <4>4
    <3>3. CASE any # id
      BY <1>4, <3>1, <3>3, ReleaseRecords DEF VaultInv, Funded
    <3> QED
      BY <3>2, <3>3
  <2> QED
    BY <1>1, <2>2, <2>3 DEF VaultInv
<1>5. ASSUME NEW id \in EscrowIds, NEW caller, RaiseDispute(id, caller)
      PROVE  VaultInv'
  <2>1. Lifecycle'
    <3>1. ~disputes'[id].resolved
      BY <1>5, RaiseRecords, Zenon
    <3> QED
      BY <1>5, <3>1, RaiseRecords, LifecycleOfOne, Zenon DEF VaultInv
  <2>2. Funded'
    BY <1>5, RaiseRecords DEF VaultInv, Funded
  <2> QED
    BY <1>1, <2>1, <2>2 DEF VaultInv
<1>6. ASSUME NEW id \in EscrowIds, ResolveDispute(id)
      PROVE  VaultInv'
  <2>1. Lifecycle'
    <3>1. /\ DOMAIN disputes' = DOMAIN disputes \union {id}
          /\ disputes'[id].resolved
      BY <1>6, ResolveRecords, Zenon
    <3> QED
      BY <1>6, <3>1, ResolveRecords, LifecycleOfOne, Zenon DEF VaultInv
  <2>2. Funded'
    BY <1>6, ResolveRecords DEF VaultInv, Funded
  <2> QED
    BY <1>1, <2>1, <2>2 DEF VaultInv
<1> QED
  BY <1>2, <1>3, <1>4, <1>5, <1>6, StepKinds

LEMMA VaultInvCorrect == Spec => []VaultInv
  BY VaultInvInit, VaultInvNext, PTL DEF Spec

-----------------------------------------------------------------------------
\* What a transfer from or to the contract does to its balance.
LEMMA TransferMoves ==
  ASSUME NEW money \in [Accounts -> Nat], NEW other \in Accounts, NEW amount \in Int
  PROVE  /\ Transfer(money, Contract, other, amount)[Contract]
              = (money[Contract] - amount) + SelfPaid(other, amount)
         /\ other # Contract =>
              Transfer(money, other, Contract, amount)[Contract] = money[Contract] + amount
<1>1. Contract \in Accounts /\ money[Contract] \in Int
  BY PartiesAssumption
<1>2. CASE other = Contract
  BY <1>1, <1>2 DEF Transfer, SelfPaid
<1>3. CASE other # Contract
  BY <1>1, <1>3 DEF Transfer, SelfPaid
<1> QED
  BY <1>2, <1>3

\* A gift adds the same to the balance and to what was given.
LEMMA GiftKeepsCustody ==
  ASSUME TypeOK, GiftStep
  PROVE  Custody' = Custody
<1>1. PICK from \in Accounts \ {Contract}, amount \in GiftAmounts : Donate(from, amount)
  BY DEF GiftStep
<1>2. /\ balances \in [Accounts -> Nat] /\ balances[Contract] \in Int /\ gifts \in Int
      /\ amount \in Int
  BY InputsAssumption, PartiesAssumption DEF TypeOK
<1>3. balances' = Transfer(balances, from, Contract, amount) /\ gifts' = gifts + amount
  BY <1>1 DEF Donate
<1>4. balances'[Contract] = balances[Contract] + amount
  BY <1>2, <1>3, TransferMoves
<1> QED
  BY <1>2, <1>3, <1>4 DEF Custody

(***************************************************************************)
(* A paused contract moves no escrow, ballot or stake and nothing it has in *)
(* custody: every entry point that could do so refuses                      *)
(* (require_not_paused), the governance calls and the clock, which a pause  *)
(* does not stop, touch none of them, and a gift is nobody's deposit.       *)
(***************************************************************************)
THEOREM PauseFreezesCorrect == Spec => PauseFreezes
<1> DEFINE Frozen == UNCHANGED <<escrowVars, disputes, ballotVars, stakeVars, Custody>>
<1>1. ASSUME TypeOK, paused, [Next]_vars
      PROVE  Frozen
  <2>1. CASE AdminStep
    BY <2>1 DEF AdminStep, SetFeeBps, SetTreasury, SetPauser, RevokePauser, Pause, Unpause,
                Custody
  <2>2. CASE Tick
    BY <2>2 DEF Tick, Custody
  <2>3. CASE UNCHANGED vars
    BY <2>3 DEF vars, Custody
  <2>4. CASE GiftStep
    <3>1. UNCHANGED <<escrowVars, disputes, ballotVars, stakeVars>>
      BY <2>4 DEF GiftStep, Donate
    <3>2. Custody' = Custody
      BY <1>1, <2>4, GiftKeepsCustody
    <3> QED
      BY <3>1, <3>2
  <2>5. ~StakingStep
    BY <1>1 DEF NotPaused, StakingStep, Stake, Unstake
  <2>6. ~EscrowStep
    <3>1. \A depositor, beneficiary, amount, milestones :
            ~OpenEscrow(depositor, beneficiary, amount, milestones)
      BY <1>1 DEF NotPaused, OpenEscrow
    <3>2. \A id, index, gross, caller : ~ReleaseMilestoneTranche(id, index, gross, caller)
      BY <1>1 DEF NotPaused, ReleaseMilestoneTranche
    <3> QED
      BY <3>1, <3>2 DEF EscrowStep, CreateEscrow, InitEscrow
  <2>7. ~DisputeStep
    BY <1>1 DEF NotPaused, DisputeStep, RaiseDispute, CommitVote, RevealVote, ResolveDispute
  <2> QED
    BY <1>1, <2>1, <2>2, <2>3, <2>4, <2>5, <2>6, <2>7 DEF Next
<1> QED
  BY <1>1, TypeCorrect, PTL DEF Spec, PauseFreezes
===============================================================================
