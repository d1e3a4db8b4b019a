------------------------ MODULE TrustFlowTypeProofs ------------------------
(***************************************************************************)
(* TypeOK is an invariant of TrustFlow, for every value of the constants:   *)
(* no stake or released amount leaves the range of i128, and no balance, fee *)
(* or slash becomes negative.  First come the basis-point arithmetic of     *)
(* FeeMath, for every amount, rate and denominator, and facts about stores  *)
(* and transfers that the other proofs use too.                             *)
(***************************************************************************)
EXTENDS TrustFlow, TLAPS

-----------------------------------------------------------------------------
\* Euclidean division of a natural number.
LEMMA DivMod ==
  ASSUME NEW a \in Nat, NEW b \in Nat \ {0}
  PROVE  /\ a \div b \in Nat
         /\ a % b \in 0 .. b - 1
         /\ a = (b * (a \div b)) + (a % b)
  OBVIOUS

\* The interval a quotient's multiple falls in.
LEMMA DivBounds ==
  ASSUME NEW a \in Nat, NEW b \in Nat \ {0}
  PROVE  /\ a \div b \in Nat
         /\ b * (a \div b) <= a
         /\ a < b * ((a \div b) + 1)
  OBVIOUS

\* A quotient is determined by the interval its multiple falls in.
LEMMA DivUnique ==
  ASSUME NEW a \in Nat, NEW b \in Nat \ {0}, NEW q \in Nat,
         b * q <= a, a < b * (q + 1)
  PROVE  a \div b = q
  OBVIOUS

(***************************************************************************)
(* The quotient-and-remainder computation of cumulative_fee is the floor of *)
(* amount * bps / BPS_DENOMINATOR it documents.                             *)
(***************************************************************************)
THEOREM CumulativeFeeIsFloor ==
  ASSUME NEW amount \in Nat, NEW bps \in Nat
  PROVE  CumulativeFee(amount, bps) = (amount * bps) \div BPS_DENOMINATOR
<1> DEFINE B == BPS_DENOMINATOR
           q == amount \div B
           r == amount % B
           k == (r * bps) \div B
           m == (r * bps) % B
<1>1. B \in Nat \ {0}
  BY BpsAssumption
<1>2. /\ q \in Nat /\ r \in Nat
      /\ amount = (B * q) + r
  BY <1>1, DivMod
<1>3. r * bps \in Nat
  BY <1>2
<1>4. /\ k \in Nat /\ m \in 0 .. B - 1
      /\ r * bps = (B * k) + m
  BY <1>1, <1>3, DivMod
<1> HIDE DEF q, r, k, m, B
<1>5. amount * bps = (B * (q * bps + k)) + m
  <2>1. amount * bps = ((B * q) * bps) + (r * bps)
    BY <1>1, <1>2
  <2>2. (B * q) * bps = B * (q * bps)
    BY <1>1, <1>2
  <2>3. B * (q * bps + k) = (B * (q * bps)) + (B * k)
    BY <1>1, <1>2, <1>4
  <2> QED
    BY <1>1, <1>2, <1>4, <2>1, <2>2, <2>3
<1>6. q * bps + k \in Nat /\ amount * bps \in Nat
  BY <1>2, <1>4
<1>7. B * ((q * bps + k) + 1) = (B * (q * bps + k)) + B
  BY <1>1, <1>6
<1>8. (amount * bps) \div B = q * bps + k
  <2> DEFINE total == amount * bps
             share == q * bps + k
  <2>1. total \in Nat /\ share \in Nat
    BY <1>6
  <2>2. B * share \in Nat /\ B * (share + 1) = (B * share) + B
    BY <1>1, <2>1, <1>7
  <2>3. total = (B * share) + m
    BY <1>5
  <2> HIDE DEF total, share
  <2>4. B * share <= total /\ total < B * (share + 1)
    BY <1>1, <1>4, <2>2, <2>3
  <2>5. total \div B = share
    BY <1>1, <2>1, <2>4, DivUnique
  <2> QED
    BY <2>5 DEF total, share
<1> QED
  BY <1>8 DEF CumulativeFee, B, q, r, k

(***************************************************************************)
(* A fee is at most the amount, and grows with it by no more than it grows: *)
(* the fee of a tranche is between nothing and the tranche, so neither the  *)
(* payout nor the fee of release_milestone_tranche is negative.             *)
(***************************************************************************)
THEOREM CumulativeFeeSteps ==
  ASSUME NEW before \in Nat, NEW after \in Nat, before <= after,
         NEW bps \in 0 .. BPS_DENOMINATOR
  PROVE  /\ CumulativeFee(before, bps) \in 0 .. before
         /\ CumulativeFee(after, bps) - CumulativeFee(before, bps) \in 0 .. after - before
<1> DEFINE B == BPS_DENOMINATOR
           x == (before * bps) \div B
           y == (after * bps) \div B
<1>1. B \in Nat \ {0} /\ bps \in Nat /\ bps <= B
  BY BpsAssumption
<1>2. /\ CumulativeFee(before, bps) = x
      /\ CumulativeFee(after, bps) = y
  BY <1>1, CumulativeFeeIsFloor
<1>3. /\ before * bps \in Nat
      /\ after * bps \in Nat
      /\ before * bps <= after * bps
      /\ before * bps <= B * before
  BY <1>1
<1>4. after * bps <= (before * bps) + (B * (after - before))
  <2>1. after * bps = (before * bps) + ((after - before) * bps)
    BY <1>1
  <2>2. (after - before) * bps <= B * (after - before)
    BY <1>1
  <2>3. (after - before) * bps \in Nat /\ B * (after - before) \in Nat
    BY <1>1
  <2> QED
    BY <1>3, <2>1, <2>2, <2>3
<1>5. /\ x \in Nat
      /\ B * x <= before * bps /\ before * bps < B * (x + 1)
  BY <1>1, <1>3, DivBounds
<1>6. /\ y \in Nat
      /\ B * y <= after * bps /\ after * bps < B * (y + 1)
  BY <1>1, <1>3, DivBounds
<1> HIDE DEF B, x, y
<1>7. x <= before
  <2>1. B * x <= B * before
    BY <1>1, <1>3, <1>5
  <2> QED
    BY <1>1, <1>5, <2>1
<1>8. x <= y
  <2>1. B * x < B * (y + 1)
    BY <1>1, <1>3, <1>5, <1>6
  <2>2. x < y + 1
    BY <1>1, <1>5, <1>6, <2>1
  <2> QED
    BY <1>5, <1>6, <2>2
<1>9. y <= x + (after - before)
  <2>1. B * y < (B * (x + 1)) + (B * (after - before))
    BY <1>1, <1>3, <1>4, <1>5, <1>6
  <2>2. (B * (x + 1)) + (B * (after - before)) = B * ((x + 1) + (after - before))
    BY <1>1, <1>5
  <2>3. y < (x + 1) + (after - before)
    BY <1>1, <1>5, <1>6, <2>1, <2>2
  <2> QED
    BY <1>5, <1>6, <2>3
<1> QED
  BY <1>2, <1>5, <1>6, <1>7, <1>8, <1>9

(***************************************************************************)
(* No juror loses more than the stake, whichever of the three widths of     *)
(* resolve_dispute computed the slash.                                      *)
(***************************************************************************)
THEOREM SlashAmountBounded ==
  ASSUME NEW stake \in Nat, NEW bps \in Nat
  PROVE  SlashAmount(stake, bps) \in 0 .. stake
<1> DEFINE B == BPS_DENOMINATOR
<1>1. B \in Nat \ {0}
  BY BpsAssumption
<1>2. stake * bps \in Nat
  OBVIOUS
<1>3. (stake * bps) \div B \in Nat
  BY <1>1, <1>2, DivMod
<1>4. stake \div B \in Nat
  BY <1>1, DivMod
<1>5. (stake \div B) * bps \in Nat
  BY <1>4
<1> QED
  BY <1>3, <1>5 DEF SlashAmount

(***************************************************************************)
(* The three widths agree up to a rounding: a slash that fits u128 is the   *)
(* floor of the rate on the stake, and one computed by dividing first falls *)
(* short of it by at most bps tokens (of a stake beyond i128::MAX / bps).   *)
(***************************************************************************)
THEOREM SlashAmountAccurate ==
  ASSUME NEW stake \in Nat, NEW bps \in Bps
  PROVE  /\ stake * bps <= 2 * I128_MAX + 1 =>
              SlashAmount(stake, bps) = (stake * bps) \div BPS_DENOMINATOR
         /\ (stake * bps) \div BPS_DENOMINATOR - SlashAmount(stake, bps) \in 0 .. bps
<1> DEFINE B == BPS_DENOMINATOR
           q == stake \div B
           r == stake % B
           k == (r * bps) \div B
<1>1. B \in Nat \ {0} /\ bps \in Nat /\ bps <= B
  BY BpsAssumption DEF Bps
<1>2. q \in Nat /\ r \in 0 .. B - 1
  BY <1>1, DivMod
<1>3. r * bps \in Nat /\ r * bps <= B * bps
  BY <1>1, <1>2
<1>4. k \in Nat /\ B * k <= r * bps
  BY <1>1, <1>3, DivBounds
<1>5. k <= bps
  <2> HIDE DEF k, r, B
  <2>1. B * k <= B * bps
    BY <1>1, <1>3, <1>4
  <2> QED
    BY <1>1, <1>4, <2>1
<1>6. CumulativeFee(stake, bps) = q * bps + k
  BY DEF CumulativeFee
<1>7. /\ CumulativeFee(stake, bps) = (stake * bps) \div B
      /\ CumulativeFee(stake, bps) \in 0 .. stake
  <2>1. stake <= stake /\ bps \in 0 .. BPS_DENOMINATOR
    BY DEF Bps
  <2> QED
    BY <1>1, <2>1, CumulativeFeeIsFloor, CumulativeFeeSteps
<1>8. /\ SlashAmount(stake, bps) \in {(stake * bps) \div B, q * bps}
      /\ stake * bps <= 2 * I128_MAX + 1 => SlashAmount(stake, bps) = (stake * bps) \div B
  <2>1. q * bps <= stake
    <3>1. q * bps \in Nat /\ q * bps + k \in 0 .. stake
      BY <1>1, <1>2, <1>6, <1>7
    <3> QED
      BY <1>4, <3>1
  <2>2. (stake * bps) \div B <= stake
    BY <1>7
  <2> QED
    BY <2>1, <2>2 DEF SlashAmount
<1>9. q * bps \in Nat
  BY <1>1, <1>2
<1> HIDE DEF q, k
<1> QED
  BY <1>1, <1>4, <1>5, <1>6, <1>7, <1>8, <1>9

-----------------------------------------------------------------------------
\* set keeps a store a store, adds the key and changes no other entry.
LEMMA PutStore ==
  ASSUME NEW store, NEW Keys, NEW Values, IsStore(store, Keys, Values),
         NEW key \in Keys, NEW value \in Values
  PROVE  /\ IsStore(Put(store, key, value), Keys, Values)
         /\ DOMAIN Put(store, key, value) = DOMAIN store \union {key}
         /\ Put(store, key, value)[key] = value
         /\ \A k \in DOMAIN store : k # key => Put(store, key, value)[k] = store[k]
  BY DEF IsStore, Put

\* remove keeps a store a store and changes no other entry.
LEMMA RemoveStore ==
  ASSUME NEW store, NEW Keys, NEW Values, IsStore(store, Keys, Values), NEW key
  PROVE  /\ IsStore(Remove(store, key), Keys, Values)
         /\ DOMAIN Remove(store, key) = DOMAIN store \ {key}
         /\ \A k \in DOMAIN store \ {key} : Remove(store, key)[k] = store[k]
  BY DEF IsStore, Remove

\* Overwriting a present entry keeps a store a store.
LEMMA ExceptStore ==
  ASSUME NEW store, NEW Keys, NEW Values, IsStore(store, Keys, Values),
         NEW key \in DOMAIN store, NEW value \in Values
  PROVE  /\ IsStore([store EXCEPT ![key] = value], Keys, Values)
         /\ DOMAIN [store EXCEPT ![key] = value] = DOMAIN store
  BY DEF IsStore

LEMMA EmptyIsStore ==
  ASSUME NEW Keys, NEW Values
  PROVE  IsStore(EmptyStore, Keys, Values)
  BY DEF IsStore, EmptyStore

\* A transfer that does not trap overdraws nobody.
LEMMA TransferBalances ==
  ASSUME NEW money \in [Accounts -> Nat], NEW from \in Accounts, NEW to \in Accounts,
         NEW amount \in Int, CanTransfer(money, from, amount)
  PROVE  Transfer(money, from, to, amount) \in [Accounts -> Nat]
  BY DEF CanTransfer, Transfer

LEMMA LaterLedgerIsLedger ==
  ASSUME NEW ledger \in Ledgers, NEW window \in Nat
  PROVE  LaterLedger(ledger, window) \in Ledgers
  BY BoundsAssumption DEF LaterLedger, Ledgers

LEMMA PartyTypes ==
  /\ Contract \in Accounts
  /\ Depositors \subseteq Accounts /\ Beneficiaries \subseteq Accounts
  /\ Jurors \subseteq Accounts /\ Treasuries \subseteq Accounts
  /\ Operators \subseteq Treasuries /\ Wardens \subseteq Operators
  BY PartiesAssumption

\* The custody is a number, and what moves it can be put down to an escrow.
LEMMA ChargedType ==
  ASSUME balances \in [Accounts -> Nat], gifts \in Nat,
         balances' \in [Accounts -> Nat], gifts' \in Nat,
         escrowFunds \in [EscrowIds -> Int], NEW id \in EscrowIds, ChargedTo(id)
  PROVE  escrowFunds' \in [EscrowIds -> Int]
<1>1. Custody \in Int /\ Custody' \in Int
  BY PartyTypes DEF Custody
<1> QED
  BY <1>1 DEF ChargedTo

LEMMA SelfPaidIsNat ==
  ASSUME NEW account, NEW amount \in Nat
  PROVE  SelfPaid(account, amount) \in Nat
  BY DEF SelfPaid

-----------------------------------------------------------------------------
LEMMA InitType == Init => TypeOK
<1> SUFFICES ASSUME Init PROVE TypeOK
  OBVIOUS
<1>1. PICK caller \in Operators, slash \in SlashChoices : Initialize(caller, slash)
  BY DEF Init
<1>2. /\ admin \in Operators /\ slashBps \in Bps /\ feeBps \in 0 .. MAX_FEE_BPS
      /\ treasury \in Treasuries /\ escrowCounter \in 0 .. MaxEscrows
  BY <1>1, PartyTypes, InputsAssumption, BoundsAssumption DEF Initialize
<1>3. /\ IsStore(escrows, EscrowIds, EscrowRecord)
      /\ IsStore(feeConfigs, EscrowIds, EscrowFeeConfig)
      /\ IsStore(milestoneReleased, EscrowIds \X Nat, 0 .. I128_MAX)
      /\ IsStore(disputes, EscrowIds, DisputeRecord)
      /\ IsStore(jurorCommits, VoteKeys, Commitments)
      /\ IsStore(jurorVotes, VoteKeys, BOOLEAN)
  BY EmptyIsStore DEF Init
<1>4. /\ escrowReleased \in [EscrowIds -> 0 .. I128_MAX]
      /\ disputeVoters \in [EscrowIds -> Seq(Jurors)]
      /\ jurorStakes \in [Jurors -> 0 .. I128_MAX]
      /\ slashCounts \in [Jurors -> Nat] /\ slashed \in [Jurors -> Nat]
      /\ feesPaid \in [EscrowIds -> Nat]
  BY WidthAssumption DEF Init
<1>5. /\ pauser \in Wardens \union {None} /\ balances \in [Accounts -> Nat]
      /\ gifts \in Nat /\ escrowFunds \in [EscrowIds -> Int]
  BY InputsAssumption, PartyTypes DEF Init
<1>6. now \in Ledgers
  BY BoundsAssumption DEF Init, Ledgers
<1>7. paused \in BOOLEAN
  BY Zenon DEF Init
<1> QED
  BY <1>2, <1>3, <1>4, <1>5, <1>6, <1>7 DEF TypeOK

-----------------------------------------------------------------------------
LEMMA StutterType ==
  ASSUME TypeOK, UNCHANGED vars
  PROVE  TypeOK'
  BY DEF TypeOK, vars, configVars, circuitVars, escrowVars, ballotVars, stakeVars

LEMMA TickType ==
  ASSUME TypeOK, Tick
  PROVE  TypeOK'
<1>1. now' \in Ledgers
  BY BoundsAssumption DEF TypeOK, Tick, Ledgers
<1> QED
  BY <1>1 DEF TypeOK, Tick, configVars, circuitVars, escrowVars, ballotVars, stakeVars

LEMMA AdminType ==
  ASSUME TypeOK, AdminStep
  PROVE  TypeOK'
<1> USE DEF configVars, circuitVars, escrowVars, ballotVars, stakeVars
<1>1. PICK caller \in Operators :
        \/ \E bps \in FeeChoices : SetFeeBps(caller, bps)
        \/ \E account \in Treasuries : SetTreasury(caller, account)
        \/ \E account \in Wardens : SetPauser(caller, account)
        \/ RevokePauser(caller)
        \/ Pause(caller)
        \/ Unpause(caller)
  BY PartiesAssumption DEF AdminStep
<1>2. ASSUME NEW bps \in FeeChoices, SetFeeBps(caller, bps) PROVE TypeOK'
  <2>1. feeBps' \in 0 .. MAX_FEE_BPS
    BY <1>2, InputsAssumption, BoundsAssumption DEF SetFeeBps, Bps
  <2> QED
    BY <1>2, <2>1 DEF TypeOK, SetFeeBps
<1>3. ASSUME NEW account \in Treasuries, SetTreasury(caller, account) PROVE TypeOK'
  BY <1>3 DEF TypeOK, SetTreasury
<1>4. ASSUME NEW account \in Wardens, SetPauser(caller, account) PROVE TypeOK'
  BY <1>4 DEF TypeOK, SetPauser
<1>5. CASE RevokePauser(caller)
  BY <1>5 DEF TypeOK, RevokePauser
<1>6. CASE Pause(caller)
  BY <1>6 DEF TypeOK, Pause
<1>7. CASE Unpause(caller)
  BY <1>7 DEF TypeOK, Unpause
<1> QED
  BY <1>1, <1>2, <1>3, <1>4, <1>5, <1>6, <1>7

LEMMA StakingType ==
  ASSUME TypeOK, StakingStep
  PROVE  TypeOK'
<1> USE DEF configVars, circuitVars, escrowVars, ballotVars, stakeVars
<1>1. PICK juror \in Jurors, amount \in StakeAmounts :
        Stake(juror, amount) \/ Unstake(juror, amount)
  BY DEF StakingStep
<1>2. amount \in Int /\ juror \in Accounts /\ Contract \in Accounts
  BY InputsAssumption, PartyTypes
<1>3. CASE Stake(juror, amount)
  <2>1. balances' \in [Accounts -> Nat]
    BY <1>2, <1>3, TransferBalances DEF TypeOK, Stake
  <2>2. jurorStakes' \in [Jurors -> 0 .. I128_MAX]
    BY <1>2, <1>3 DEF TypeOK, Stake, FitsI128
  <2> QED
    BY <1>3, <2>1, <2>2 DEF TypeOK, Stake
<1>4. CASE Unstake(juror, amount)
  <2>1. balances' \in [Accounts -> Nat]
    BY <1>2, <1>4, TransferBalances DEF TypeOK, Unstake
  <2>2. jurorStakes' \in [Jurors -> 0 .. I128_MAX]
    BY <1>2, <1>4, WidthAssumption DEF TypeOK, Unstake, Withdrawable, CanTransfer
  <2> QED
    BY <1>4, <2>1, <2>2 DEF TypeOK, Unstake
<1> QED
  BY <1>1, <1>3, <1>4

LEMMA GiftType ==
  ASSUME TypeOK, GiftStep
  PROVE  TypeOK'
<1> USE DEF configVars, circuitVars, escrowVars, ballotVars, stakeVars
<1>1. PICK from \in Accounts \ {Contract}, amount \in GiftAmounts : Donate(from, amount)
  BY DEF GiftStep
<1>2. amount \in Nat /\ amount \in Int /\ from \in Accounts /\ Contract \in Accounts
  BY InputsAssumption, PartyTypes
<1>3. balances' \in [Accounts -> Nat]
  <2>1. /\ CanTransfer(balances, from, amount)
        /\ balances' = Transfer(balances, from, Contract, amount)
    BY <1>1 DEF Donate
  <2>2. balances \in [Accounts -> Nat]
    BY DEF TypeOK
  <2> QED
    BY <1>2, <2>1, <2>2, TransferBalances
<1>4. gifts' \in Nat
  BY <1>1, <1>2 DEF TypeOK, Donate
<1> QED
  BY <1>1, <1>3, <1>4 DEF TypeOK, Donate

-----------------------------------------------------------------------------
LEMMA OpenEscrowType ==
  ASSUME TypeOK, NEW depositor \in Depositors, NEW beneficiary \in Beneficiaries,
         NEW amount, NEW milestones \in Seq(Milestone),
         OpenEscrow(depositor, beneficiary, amount, milestones)
  PROVE  TypeOK'
<1> USE DEF configVars, circuitVars, escrowVars, ballotVars, stakeVars
<1> DEFINE id == escrowCounter + 1
           record == [id |-> id, depositor |-> depositor, beneficiary |-> beneficiary,
                      amount |-> amount, status |-> "Active", milestones |-> milestones]
<1>1. /\ amount \in 1 .. I128_MAX /\ id \in EscrowIds
      /\ depositor \in Accounts /\ beneficiary \in Accounts /\ Contract \in Accounts
  BY PartyTypes DEF OpenEscrow, FitsI128
<1>2. balances' \in [Accounts -> Nat]
  <2>1. /\ balances' = Transfer(balances, depositor, Contract, amount)
        /\ CanTransfer(balances, depositor, amount)
    BY DEF OpenEscrow
  <2>2. amount \in Int /\ balances \in [Accounts -> Nat]
    BY <1>1, WidthAssumption DEF TypeOK
  <2> QED
    BY <1>1, <2>1, <2>2, TransferBalances
<1>3. record \in EscrowRecord
  BY <1>1 DEF EscrowRecord, EscrowStatus
<1>4. FeeSnapshot \in EscrowFeeConfig
  <2>1. treasury \in Accounts
    BY PartyTypes DEF TypeOK
  <2>2. feeBps \in Bps
    BY BpsAssumption, BoundsAssumption DEF TypeOK, Bps
  <2> QED
    BY <2>1, <2>2 DEF FeeSnapshot, EscrowFeeConfig
<1>5. escrows' = Put(escrows, id, record) /\ feeConfigs' = Put(feeConfigs, id, FeeSnapshot)
  BY DEF OpenEscrow
<1>6. /\ IsStore(escrows', EscrowIds, EscrowRecord)
      /\ IsStore(feeConfigs', EscrowIds, EscrowFeeConfig)
  <2> HIDE DEF id, record
  <2> QED
    BY <1>1, <1>3, <1>4, <1>5, PutStore DEF TypeOK
<1>7. escrowCounter' \in 0 .. MaxEscrows
  BY <1>1, BoundsAssumption DEF OpenEscrow, EscrowIds, TypeOK
<1>8. gifts' \in Nat /\ escrowFunds' \in [EscrowIds -> Int]
  <2>1. gifts' = gifts /\ ChargedTo(id)
    BY DEF OpenEscrow
  <2> HIDE DEF id
  <2> QED
    BY <1>1, <1>2, <2>1, ChargedType DEF TypeOK
<1> QED
  BY <1>2, <1>6, <1>7, <1>8 DEF TypeOK, OpenEscrow

LEMMA ReleaseType ==
  ASSUME TypeOK, NEW id \in DOMAIN escrows, NEW index \in DOMAIN escrows[id].milestones,
         NEW gross \in Int, NEW caller, ReleaseMilestoneTranche(id, index, gross, caller)
  PROVE  TypeOK'
<1> USE DEF configVars, circuitVars, escrowVars, ballotVars, stakeVars
<1> DEFINE escrow         == escrows[id]
           milestoneAfter == GetOr(milestoneReleased, <<id, index>>, 0) + gross
           releasedAfter  == escrowReleased[id] + gross
           treasuryFee    == TrancheFee(id, escrowReleased[id], releasedAfter)
           payout         == gross - treasuryFee
           paidOut        == Transfer(balances, Contract, escrow.beneficiary, payout)
           paid           == [escrow EXCEPT
                                !.milestones[index].approved = TRUE,
                                !.status = IF releasedAfter = escrow.amount
                                             THEN "Settled" ELSE @]
<1>1. /\ id \in EscrowIds /\ escrow \in EscrowRecord
      /\ id \in DOMAIN feeConfigs /\ feeConfigs[id] \in EscrowFeeConfig
  BY DEF TypeOK, IsStore, ReleaseMilestoneTranche
<1>2. /\ escrow.beneficiary \in Accounts /\ escrow.amount \in 1 .. I128_MAX
      /\ escrow.milestones \in Seq(Milestone) /\ feeConfigs[id].treasury \in Accounts
      /\ feeConfigs[id].fee_bps \in 0 .. BPS_DENOMINATOR
  BY <1>1 DEF EscrowRecord, EscrowFeeConfig, Bps
<1>3. /\ gross > 0 /\ releasedAfter <= escrow.amount
      /\ escrowReleased[id] \in Nat /\ releasedAfter \in 0 .. I128_MAX
  <2>1. gross > 0 /\ releasedAfter <= escrow.amount
    BY DEF ReleaseMilestoneTranche
  <2>2. escrowReleased[id] \in 0 .. I128_MAX
    BY <1>1 DEF TypeOK
  <2> QED
    BY <1>2, <2>1, <2>2, WidthAssumption
<1>4. treasuryFee \in 0 .. gross
  <2> HIDE DEF releasedAfter
  <2>1. /\ releasedAfter \in Nat /\ escrowReleased[id] <= releasedAfter
        /\ releasedAfter - escrowReleased[id] = gross
    BY <1>3 DEF releasedAfter
  <2> QED
    BY <1>2, <1>3, <2>1, CumulativeFeeSteps DEF TrancheFee
<1>5. balances' \in [Accounts -> Nat]
  <2>1. /\ payout \in Int /\ CanTransfer(balances, Contract, payout)
        /\ CanTransfer(paidOut, Contract, treasuryFee)
        /\ balances' = Transfer(paidOut, Contract, feeConfigs[id].treasury, treasuryFee)
    BY <1>4 DEF ReleaseMilestoneTranche, FeeTransferred
  <2> HIDE DEF payout, treasuryFee, escrow, paidOut
  <2>2. paidOut \in [Accounts -> Nat]
    BY <1>2, <2>1, PartyTypes, TransferBalances DEF TypeOK, paidOut
  <2> QED
    BY <1>2, <1>4, <2>1, <2>2, PartyTypes, TransferBalances
<1>6. IsStore(escrows', EscrowIds, EscrowRecord)
  <2>1. escrow.milestones[index] \in Milestone
    BY <1>2
  <2>2. [escrow.milestones[index] EXCEPT !.approved = TRUE] \in Milestone
    BY <2>1 DEF Milestone
  <2>3. [escrow.milestones EXCEPT ![index] = [@ EXCEPT !.approved = TRUE]] \in Seq(Milestone)
    BY <1>2, <2>2
  <2>4. paid \in EscrowRecord
    BY <1>1, <2>3 DEF EscrowRecord, EscrowStatus
  <2>5. escrows' = [escrows EXCEPT ![id] = paid]
    BY DEF ReleaseMilestoneTranche
  <2> QED
    BY <2>4, <2>5, ExceptStore DEF TypeOK
<1>7. IsStore(milestoneReleased', EscrowIds \X Nat, 0 .. I128_MAX)
  <2>1. <<id, index>> \in EscrowIds \X Nat
    BY <1>1, <1>2
  <2>2. milestoneAfter \in 0 .. I128_MAX
    BY DEF ReleaseMilestoneTranche, FitsI128
  <2>3. milestoneReleased' = Put(milestoneReleased, <<id, index>>, milestoneAfter)
    BY DEF ReleaseMilestoneTranche
  <2> HIDE DEF milestoneAfter
  <2> QED
    BY <2>1, <2>2, <2>3, PutStore DEF TypeOK
<1>8. escrowReleased' \in [EscrowIds -> 0 .. I128_MAX]
  BY <1>1, <1>3 DEF TypeOK, ReleaseMilestoneTranche
<1>9. feesPaid' \in [EscrowIds -> Nat]
  <2>1. feesPaid' = [feesPaid EXCEPT ![id] = @ + treasuryFee]
    BY DEF ReleaseMilestoneTranche
  <2> HIDE DEF treasuryFee
  <2> QED
    BY <1>1, <1>4, <2>1 DEF TypeOK
<1>10. gifts' \in Nat
  <2>1. gifts' = gifts + SelfPaid(escrow.beneficiary, payout)
                       + SelfPaid(feeConfigs[id].treasury, treasuryFee)
    BY DEF ReleaseMilestoneTranche
  <2>2. payout \in Nat /\ treasuryFee \in Nat /\ gifts \in Nat
    BY <1>4 DEF TypeOK
  <2> HIDE DEF payout, treasuryFee, escrow
  <2>3. /\ SelfPaid(escrow.beneficiary, payout) \in Nat
        /\ SelfPaid(feeConfigs[id].treasury, treasuryFee) \in Nat
    BY <2>2, SelfPaidIsNat
  <2> QED
    BY <2>1, <2>2, <2>3
<1>11. escrowFunds' \in [EscrowIds -> Int]
  <2>1. ChargedTo(id)
    BY DEF ReleaseMilestoneTranche
  <2> QED
    BY <1>1, <1>5, <1>10, <2>1, ChargedType DEF TypeOK
<1> QED
  BY <1>5, <1>6, <1>7, <1>8, <1>9, <1>10, <1>11 DEF TypeOK, ReleaseMilestoneTranche

LEMMA EscrowType ==
  ASSUME TypeOK, EscrowStep
  PROVE  TypeOK'
<1>1. ASSUME NEW depositor \in Depositors, NEW beneficiary \in Beneficiaries,
             NEW amount \in EscrowAmounts, CreateEscrow(depositor, beneficiary, amount)
      PROVE  TypeOK'
  <2>1. <<>> \in Seq(Milestone)
    OBVIOUS
  <2> QED
    BY <1>1, <2>1, OpenEscrowType DEF CreateEscrow
<1>2. ASSUME NEW depositor \in Depositors, NEW beneficiary \in Beneficiaries,
             NEW milestones \in MilestonePlans, InitEscrow(depositor, beneficiary, milestones)
      PROVE  TypeOK'
  BY <1>2, InputsAssumption, OpenEscrowType DEF InitEscrow
<1>3. ASSUME NEW id \in DOMAIN escrows, NEW gross \in TrancheAmounts,
             NEW caller \in Depositors, NEW index \in DOMAIN escrows[id].milestones,
             ReleaseMilestoneTranche(id, index, gross, caller)
      PROVE  TypeOK'
  BY <1>3, InputsAssumption, ReleaseType
<1> QED
  BY <1>1, <1>2, <1>3 DEF EscrowStep

-----------------------------------------------------------------------------
LEMMA RaiseType ==
  ASSUME TypeOK, NEW id \in EscrowIds,
         NEW caller \in (Depositors \union Beneficiaries) \ {Contract},
         RaiseDispute(id, caller)
  PROVE  TypeOK'
<1> USE DEF configVars, circuitVars, escrowVars, ballotVars, stakeVars
<1> DEFINE commitDeadline == LaterLedger(now, COMMIT_WINDOW_LEDGERS)
           revealDeadline == LaterLedger(commitDeadline, REVEAL_WINDOW_LEDGERS)
           dispute == [escrow_id |-> id, raised_by |-> caller,
                       resolved |-> FALSE, ruling_for_depositor |-> FALSE,
                       commit_deadline |-> commitDeadline,
                       reveal_deadline |-> revealDeadline]
<1>1. commitDeadline \in Ledgers /\ revealDeadline \in Ledgers
  <2> HIDE DEF commitDeadline
  <2>1. commitDeadline \in Ledgers
    BY BoundsAssumption, LaterLedgerIsLedger DEF TypeOK, commitDeadline
  <2> QED
    BY <2>1, BoundsAssumption, LaterLedgerIsLedger
<1>2. dispute \in DisputeRecord
  <2> HIDE DEF commitDeadline, revealDeadline
  <2> QED
    BY <1>1, PartyTypes DEF DisputeRecord
<1>3. disputes' = Put(disputes, id, dispute)
  BY DEF RaiseDispute
<1>4. IsStore(disputes', EscrowIds, DisputeRecord)
  <2> HIDE DEF dispute
  <2> QED
    BY <1>2, <1>3, PutStore DEF TypeOK
<1>5. IsStore(escrows', EscrowIds, EscrowRecord)
  <2>1. id \in DOMAIN escrows /\ escrows[id] \in EscrowRecord
    BY DEF RaiseDispute, TypeOK, IsStore
  <2>2. [escrows[id] EXCEPT !.status = "Disputed"] \in EscrowRecord
    BY <2>1 DEF EscrowRecord, EscrowStatus
  <2>3. escrows' = [escrows EXCEPT ![id] = [escrows[id] EXCEPT !.status = "Disputed"]]
    BY DEF RaiseDispute
  <2> QED
    BY <2>1, <2>2, <2>3, ExceptStore DEF TypeOK
<1> QED
  BY <1>4, <1>5 DEF TypeOK, RaiseDispute

LEMMA CommitType ==
  ASSUME TypeOK, NEW id \in EscrowIds, NEW juror \in Jurors,
         NEW vote \in BOOLEAN, NEW salt \in Salts,
         CommitVote(id, juror, HashVote(vote, salt))
  PROVE  TypeOK'
<1> USE DEF configVars, circuitVars, escrowVars, ballotVars, stakeVars
<1>1. HashVote(vote, salt) \in Commitments /\ <<id, juror>> \in VoteKeys
  BY DEF HashVote, Commitments, VoteKeys
<1>2. IsStore(jurorCommits', VoteKeys, Commitments)
  BY <1>1, PutStore DEF TypeOK, CommitVote
<1> QED
  BY <1>2 DEF TypeOK, CommitVote

LEMMA RevealType ==
  ASSUME TypeOK, NEW id \in EscrowIds, NEW juror \in Jurors,
         NEW vote \in BOOLEAN, NEW salt \in Salts, RevealVote(id, juror, vote, salt)
  PROVE  TypeOK'
<1> USE DEF configVars, circuitVars, escrowVars, ballotVars, stakeVars
<1>1. <<id, juror>> \in VoteKeys
  BY DEF VoteKeys
<1>2. IsStore(jurorVotes', VoteKeys, BOOLEAN)
  BY <1>1, PutStore DEF TypeOK, RevealVote
<1>3. IsStore(jurorCommits', VoteKeys, Commitments)
  BY RemoveStore DEF TypeOK, RevealVote, CommitCleared
<1>4. disputeVoters' \in [EscrowIds -> Seq(Jurors)]
  <2>1. Append(disputeVoters[id], juror) \in Seq(Jurors)
    BY DEF TypeOK
  <2> QED
    BY <2>1 DEF TypeOK, RevealVote
<1> QED
  BY <1>2, <1>3, <1>4 DEF TypeOK, RevealVote

\* The slash leaves every stake in its range, whoever the minority is.
LEMMA SlashType ==
  ASSUME TypeOK, NEW minority, SlashMinority(minority)
  PROVE  /\ jurorStakes' \in [Jurors -> 0 .. I128_MAX]
         /\ slashed' \in [Jurors -> Nat]
         /\ slashCounts' \in [Jurors -> Nat]
         /\ \A juror \in Jurors :
              jurorStakes'[juror] + slashed'[juror] = jurorStakes[juror] + slashed[juror]
<1> DEFINE slash == [juror \in Jurors |->
                       IF juror \in minority
                         THEN SlashAmount(jurorStakes[juror], slashBps) ELSE 0]
<1>1. /\ jurorStakes' = [juror \in Jurors |-> jurorStakes[juror] - slash[juror]]
      /\ slashed' = [juror \in Jurors |-> slashed[juror] + slash[juror]]
      /\ slashCounts' = [juror \in Jurors |->
           IF juror \in minority THEN slashCounts[juror] + 1 ELSE slashCounts[juror]]
  BY DEF SlashMinority
<1>2. ASSUME NEW juror \in Jurors
      PROVE  /\ slash[juror] \in 0 .. jurorStakes[juror]
             /\ jurorStakes[juror] \in 0 .. I128_MAX
             /\ slashed[juror] \in Nat /\ slashCounts[juror] \in Nat
  <2>1. /\ jurorStakes[juror] \in 0 .. I128_MAX /\ slashBps \in Nat
        /\ slashed[juror] \in Nat /\ slashCounts[juror] \in Nat
    BY BpsAssumption DEF TypeOK, Bps
  <2>2. SlashAmount(jurorStakes[juror], slashBps) \in 0 .. jurorStakes[juror]
    <3>1. jurorStakes[juror] \in Nat
      BY <2>1, WidthAssumption
    <3> QED
      BY <2>1, <3>1, SlashAmountBounded
  <2> QED
    BY <2>1, <2>2, WidthAssumption
<1> HIDE DEF slash
<1> QED
  BY <1>1, <1>2, WidthAssumption

LEMMA ResolveType ==
  ASSUME TypeOK, NEW id \in EscrowIds, ResolveDispute(id)
  PROVE  TypeOK'
<1> USE DEF configVars, circuitVars, escrowVars, ballotVars, stakeVars
<1> DEFINE ruling    == RulingFor(id)
           recipient == IF ruling THEN escrows[id].depositor ELSE escrows[id].beneficiary
<1>1. /\ id \in DOMAIN escrows /\ escrows[id] \in EscrowRecord
      /\ id \in DOMAIN disputes /\ disputes[id] \in DisputeRecord
  BY DEF TypeOK, IsStore, ResolveDispute, OpenDispute
<1>2. recipient \in Accounts
  <2>1. escrows[id].depositor \in Accounts /\ escrows[id].beneficiary \in Accounts
    BY <1>1 DEF EscrowRecord
  <2> QED
    BY <2>1
<1>3. /\ jurorStakes' \in [Jurors -> 0 .. I128_MAX]
      /\ slashed' \in [Jurors -> Nat]
      /\ slashCounts' \in [Jurors -> Nat]
  BY SlashType DEF ResolveDispute
<1>4. Remaining(id) \in Int
  BY <1>1 DEF Remaining, EscrowRecord, TypeOK
<1>5. balances' \in [Accounts -> Nat]
  <2>1. \/ /\ CanTransfer(balances, Contract, Remaining(id))
           /\ balances' = Transfer(balances, Contract, recipient, Remaining(id))
        \/ balances' = balances
    BY DEF ResolveDispute
  <2>2. balances \in [Accounts -> Nat] /\ Contract \in Accounts
    BY PartyTypes DEF TypeOK
  <2> HIDE DEF recipient
  <2> QED
    BY <1>2, <1>4, <2>1, <2>2, TransferBalances
<1>6. ruling \in BOOLEAN
  BY DEF RulingFor
<1>9. gifts' \in Nat
  <2>1. \/ /\ Remaining(id) > 0
           /\ gifts' = gifts + SelfPaid(recipient, Remaining(id))
        \/ gifts' = gifts
    BY DEF ResolveDispute
  <2>2. Remaining(id) > 0 => SelfPaid(recipient, Remaining(id)) \in Nat
    BY <1>4, SelfPaidIsNat
  <2>3. gifts \in Nat
    BY DEF TypeOK
  <2> HIDE DEF recipient
  <2> QED
    BY <2>1, <2>2, <2>3
<1>10. escrowFunds' \in [EscrowIds -> Int]
  <2>1. ChargedTo(id)
    BY DEF ResolveDispute
  <2> QED
    BY <1>5, <1>9, <2>1, ChargedType DEF TypeOK
<1>7. IsStore(disputes', EscrowIds, DisputeRecord)
  <2> DEFINE record == [disputes[id] EXCEPT !.resolved = TRUE,
                                            !.ruling_for_depositor = ruling]
  <2>1. record \in DisputeRecord
    <3> HIDE DEF ruling
    <3> QED
      BY <1>1, <1>6 DEF DisputeRecord
  <2>2. disputes' = [disputes EXCEPT ![id] = record]
    BY DEF ResolveDispute
  <2> HIDE DEF record
  <2> QED
    BY <1>1, <2>1, <2>2, ExceptStore DEF TypeOK
<1>8. IsStore(escrows', EscrowIds, EscrowRecord)
  <2>1. [escrows[id] EXCEPT !.status = "Settled"] \in EscrowRecord
    BY <1>1 DEF EscrowRecord, EscrowStatus
  <2>2. escrows' = [escrows EXCEPT ![id] = [escrows[id] EXCEPT !.status = "Settled"]]
    BY DEF ResolveDispute
  <2> QED
    BY <1>1, <2>1, <2>2, ExceptStore DEF TypeOK
<1> QED
  BY <1>3, <1>5, <1>7, <1>8, <1>9, <1>10 DEF TypeOK, ResolveDispute

LEMMA DisputeType ==
  ASSUME TypeOK, DisputeStep
  PROVE  TypeOK'
<1>1. PICK id \in EscrowIds :
        \/ \E caller \in (Depositors \union Beneficiaries) \ {Contract} :
             RaiseDispute(id, caller)
        \/ \E juror \in Jurors, vote \in BOOLEAN, salt \in Salts :
             \/ CommitVote(id, juror, HashVote(vote, salt))
             \/ RevealVote(id, juror, vote, salt)
        \/ ResolveDispute(id)
  BY DEF DisputeStep
<1> QED
  BY <1>1, RaiseType, CommitType, RevealType, ResolveType

LEMMA NextType ==
  ASSUME TypeOK, [Next]_vars
  PROVE  TypeOK'
  BY AdminType, StakingType, EscrowType, DisputeType, GiftType, TickType, StutterType DEF Next

(***************************************************************************)
(* In every reachable state of the contract, however large the deployment,  *)
(* the storage entries are well formed, stakes and released amounts are     *)
(* within i128, and no balance, fee, slash or gift is negative.             *)
(***************************************************************************)
THEOREM TypeCorrect == Spec => []TypeOK
<1>1. Init => TypeOK
  BY InitType
<1>2. TypeOK /\ [Next]_vars => TypeOK'
  BY NextType
<1> QED
  BY <1>1, <1>2, PTL DEF Spec
=============================================================================
