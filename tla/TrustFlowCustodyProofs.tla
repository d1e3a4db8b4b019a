------------------------ MODULE TrustFlowCustodyProofs ------------------------
(***************************************************************************)
(* The money of the contract, for every value of the constants: what every  *)
(* call does to the claims on it (CustodyMoves), that the claims add up to  *)
(* it (Solvency), TrustFlow as an implementation of EscrowVault, and that   *)
(* the released amounts of an escrow and of its milestones agree            *)
(* (MilestoneLedger).                                                       *)
(*                                                                          *)
(* Stakes, slashes, fees and payouts all pass through the balance of one    *)
(* address, which may itself be a beneficiary or a treasury and which       *)
(* anybody can send tokens to.  What a call moves in or out of custody is   *)
(* computed from its transfers and what it writes to the records from its   *)
(* assignments; the two are the same amount (Accounted), provided that the  *)
(* escrow of an open dispute is unsettled (Lifecycle).  Solvency follows,   *)
(* as a step changes one summand by what the custody moves, and so does     *)
(* FundsMatch: the money that the calls on an escrow moved is what its      *)
(* record says is left.  With it the records' life (VaultInv) is the        *)
(* money's, which is the refinement.                                        *)
(***************************************************************************)
EXTENDS TrustFlowVaultProofs, SumProofs

\* The money that the calls on an escrow moved is what its record owes.
FundsMatch == escrowFunds = EscrowClaims

CustodyInv == VaultInv /\ FundsMatch

\* A step moves one claim by what it moves of the custody, and the funds of an
\* escrow with its claim.
Accounted ==
  LET moved == Custody' - Custody
  IN  \/ UNCHANGED <<Custody, EscrowClaims, escrowFunds, JurorClaims>>
      \/ /\ \E id \in EscrowIds :
              /\ EscrowClaims' = [EscrowClaims EXCEPT ![id] = @ + moved]
              /\ escrowFunds' = [escrowFunds EXCEPT ![id] = @ + moved]
         /\ UNCHANGED JurorClaims
      \/ /\ \E juror \in Jurors :
              JurorClaims' = [JurorClaims EXCEPT ![juror] = @ + moved]
         /\ UNCHANGED <<EscrowClaims, escrowFunds>>

-----------------------------------------------------------------------------
\* What the types say of the money of the contract.
LEMMA MoneyTypes ==
  ASSUME VaultInv
  PROVE  /\ balances \in [Accounts -> Nat] /\ Contract \in Accounts
         /\ balances[Contract] \in Int /\ gifts \in Int
         /\ \A juror \in Jurors : /\ jurorStakes[juror] \in Nat /\ slashed[juror] \in Nat
                                  /\ juror \in Accounts \ {Contract}
  BY PartiesAssumption DEF VaultInv, FeeInv, TypeOK

LEMMA StakingCustody ==
  ASSUME VaultInv, StakingStep
  PROVE  Accounted
<1>1. PICK juror \in Jurors, amount \in StakeAmounts :
        Stake(juror, amount) \/ Unstake(juror, amount)
  BY DEF StakingStep
<1>2. amount \in Int
  BY InputsAssumption
<1>3. EscrowClaims' = EscrowClaims /\ escrowFunds' = escrowFunds /\ gifts' = gifts
  BY <1>1 DEF Stake, Unstake, escrowVars, EscrowClaims, EscrowClaim
<1>4. CASE Stake(juror, amount)
  <2>1. balances'[Contract] = balances[Contract] + amount
    BY <1>2, <1>4, MoneyTypes, TransferMoves DEF Stake
  <2>2. JurorClaims' = [JurorClaims EXCEPT ![juror] = @ + amount]
    <3>1. /\ jurorStakes'[juror] = jurorStakes[juror] + amount /\ slashed' = slashed
          /\ \A other \in Jurors \ {juror} : jurorStakes'[other] = jurorStakes[other]
      BY <1>2, <1>4, MoneyTypes DEF Stake, VaultInv, FeeInv, TypeOK
    <3>2. /\ JurorClaim(juror)' = JurorClaim(juror) + amount
          /\ \A other \in Jurors \ {juror} : JurorClaim(other)' = JurorClaim(other)
      BY <1>2, <3>1, MoneyTypes DEF JurorClaim
    <3> QED
      BY <3>2 DEF JurorClaims
  <2>3. Custody' - Custody = amount
    BY <1>2, <1>3, <2>1, MoneyTypes DEF Custody
  <2> QED
    BY <1>3, <2>2, <2>3 DEF Accounted
<1>5. CASE Unstake(juror, amount)
  <2>1. balances'[Contract] = balances[Contract] - amount
    <3>1. balances' = Transfer(balances, Contract, juror, amount)
      BY <1>5 DEF Unstake
    <3>2. juror \in Accounts /\ SelfPaid(juror, amount) = 0
      BY MoneyTypes DEF SelfPaid
    <3> QED
      BY <1>2, <3>1, <3>2, MoneyTypes, TransferMoves
  <2>2. JurorClaims' = [JurorClaims EXCEPT ![juror] = @ + (-amount)]
    <3>1. /\ jurorStakes'[juror] = jurorStakes[juror] + (-amount) /\ slashed' = slashed
          /\ \A other \in Jurors \ {juror} : jurorStakes'[other] = jurorStakes[other]
      BY <1>2, <1>5, MoneyTypes DEF Unstake, VaultInv, FeeInv, TypeOK
    <3>2. /\ JurorClaim(juror)' = JurorClaim(juror) + (-amount)
          /\ \A other \in Jurors \ {juror} : JurorClaim(other)' = JurorClaim(other)
      BY <1>2, <3>1, MoneyTypes DEF JurorClaim
    <3> QED
      BY <3>2 DEF JurorClaims
  <2>3. Custody' - Custody = -amount
    BY <1>2, <1>3, <2>1, MoneyTypes DEF Custody
  <2> QED
    BY <1>3, <2>2, <2>3 DEF Accounted
<1> QED
  BY <1>1, <1>4, <1>5

LEMMA OpenEscrowCustody ==
  ASSUME VaultInv, NEW depositor \in Depositors, NEW beneficiary, NEW amount,
         NEW milestones, OpenEscrow(depositor, beneficiary, amount, milestones)
  PROVE  Accounted
<1>1. PICK id \in EscrowIds \ DOMAIN escrows :
         /\ DOMAIN escrows' = DOMAIN escrows \union {id}
         /\ escrows'[id].status = "Active"
         /\ escrows'[id].amount = amount
         /\ \A other \in DOMAIN escrows : escrows'[other] = escrows[other]
         /\ amount \in 1 .. I128_MAX
         /\ escrowReleased[id] = 0
         /\ UNCHANGED <<escrowReleased, disputes>>
  BY OpenEscrowRecords DEF VaultInv
<1>2. id = escrowCounter + 1
  <2> DEFINE next == escrowCounter + 1
  <2>1. next \in DOMAIN escrows' /\ next \notin DOMAIN escrows
    BY DEF OpenEscrow, Put, VaultInv, FeeInv, TypeOK, Registry, EscrowIds
  <2> QED
    BY <1>1, <2>1
<1>3. amount \in Int /\ depositor \in Accounts /\ depositor # Contract
  BY <1>1, PartiesAssumption
<1>4. /\ balances' = Transfer(balances, depositor, Contract, amount) /\ gifts' = gifts
      /\ escrowFunds' = [escrowFunds EXCEPT ![id] = @ + (Custody' - Custody)]
      /\ JurorClaims' = JurorClaims
  BY <1>2 DEF OpenEscrow, ChargedTo, stakeVars, JurorClaims, JurorClaim
<1>5. balances'[Contract] = balances[Contract] + amount
  BY <1>3, <1>4, MoneyTypes, TransferMoves
<1>6. Custody' - Custody = amount
  BY <1>3, <1>4, <1>5, MoneyTypes DEF Custody
<1>7. EscrowClaims' = [EscrowClaims EXCEPT ![id] = @ + amount]
  <2>1. EscrowClaim(id)' = EscrowClaim(id) + amount
    BY <1>1, <1>3 DEF EscrowClaim
  <2>2. \A other \in EscrowIds \ {id} : EscrowClaim(other)' = EscrowClaim(other)
    BY <1>1 DEF EscrowClaim
  <2> QED
    BY <2>1, <2>2 DEF EscrowClaims
<1> QED
  BY <1>1, <1>4, <1>6, <1>7 DEF Accounted

LEMMA ReleaseCustody ==
  ASSUME VaultInv, NEW id \in DOMAIN escrows,
         NEW index \in DOMAIN escrows[id].milestones, NEW gross \in Int, NEW caller,
         ReleaseMilestoneTranche(id, index, gross, caller)
  PROVE  Accounted
<1> DEFINE fee         == TrancheFee(id, escrowReleased[id], escrowReleased[id] + gross)
           payout      == gross - fee
           beneficiary == escrows[id].beneficiary
           feeTaker    == feeConfigs[id].treasury
           paidOut     == Transfer(balances, Contract, beneficiary, payout)
<1>1. /\ id \in EscrowIds /\ escrows[id].status = "Active" /\ gross > 0
      /\ escrows[id].amount \in 1 .. I128_MAX /\ escrowReleased[id] \in Nat
      /\ escrowReleased[id] + gross <= escrows[id].amount
  BY ReleaseRecords
<1>2. /\ CanTransfer(balances, Contract, payout) /\ CanTransfer(paidOut, Contract, fee)
      /\ balances' = Transfer(paidOut, Contract, feeTaker, fee)
      /\ id \in DOMAIN feeConfigs
      /\ gifts' = gifts + SelfPaid(beneficiary, payout) + SelfPaid(feeTaker, fee)
      /\ escrowFunds' = [escrowFunds EXCEPT ![id] = @ + (Custody' - Custody)]
  BY DEF ReleaseMilestoneTranche, FeeTransferred, ChargedTo
<1>3. beneficiary \in Accounts /\ feeTaker \in Accounts
  BY <1>2 DEF VaultInv, FeeInv, TypeOK, IsStore, EscrowRecord, EscrowFeeConfig
<1>4. fee \in Int
  <2>1. feeConfigs[id].fee_bps \in Nat
    BY <1>2 DEF VaultInv, FeeInv, TypeOK, IsStore, EscrowFeeConfig, Bps
  <2>2. \A amount \in Nat : CumulativeFee(amount, feeConfigs[id].fee_bps) \in Int
    BY <2>1, BpsAssumption, CumulativeFeeIsFloor
  <2>3. escrowReleased[id] + gross \in Nat
    BY <1>1
  <2> QED
    BY <1>1, <2>2, <2>3 DEF TrancheFee
<1>5. Custody' - Custody = -gross
  <2>1. payout \in Int
    BY <1>4
  <2> HIDE DEF fee, paidOut, beneficiary, feeTaker
  <2>2. paidOut \in [Accounts -> Nat]
    BY <1>2, <1>3, <2>1, MoneyTypes, TransferBalances DEF paidOut
  <2> HIDE DEF payout
  <2>3. paidOut[Contract] = (balances[Contract] - payout) + SelfPaid(beneficiary, payout)
    BY <1>3, <2>1, MoneyTypes, TransferMoves DEF paidOut
  <2>4. balances'[Contract] = (paidOut[Contract] - fee) + SelfPaid(feeTaker, fee)
    BY <1>2, <1>3, <1>4, <2>2, TransferMoves
  <2>5. SelfPaid(beneficiary, payout) \in Int /\ SelfPaid(feeTaker, fee) \in Int
    BY <1>4, <2>1 DEF SelfPaid
  <2>6. payout = gross - fee
    BY DEF payout
  <2> QED
    BY <1>2, <1>4, <2>1, <2>3, <2>4, <2>5, <2>6, MoneyTypes DEF Custody
<1>6. EscrowClaims' = [EscrowClaims EXCEPT ![id] = @ + (-gross)]
  <2>1. /\ escrowReleased'[id] = escrowReleased[id] + gross
        /\ \A other \in EscrowIds \ {id} : escrowReleased'[other] = escrowReleased[other]
    BY <1>1, ReleaseRecords DEF VaultInv, FeeInv, TypeOK
  <2>2. EscrowClaim(id)' = EscrowClaim(id) + (-gross)
    <3>1. /\ id \in DOMAIN escrows' /\ escrows'[id].amount = escrows[id].amount
          /\ escrows'[id].status = IF escrowReleased[id] + gross = escrows[id].amount
                                     THEN "Settled" ELSE "Active"
      BY ReleaseRecords
    <3>2. EscrowClaim(id) = escrows[id].amount - escrowReleased[id]
      BY <1>1 DEF EscrowClaim
    <3>3. EscrowClaim(id)' = escrows[id].amount - (escrowReleased[id] + gross)
      BY <1>1, <2>1, <3>1 DEF EscrowClaim
    <3> QED
      BY <1>1, <3>2, <3>3
  <2>3. \A other \in EscrowIds \ {id} : EscrowClaim(other)' = EscrowClaim(other)
    BY <2>1, ReleaseRecords DEF EscrowClaim
  <2> QED
    BY <2>2, <2>3 DEF EscrowClaims
<1>7. JurorClaims' = JurorClaims
  BY DEF ReleaseMilestoneTranche, stakeVars, JurorClaims, JurorClaim
<1> QED
  BY <1>1, <1>2, <1>5, <1>6, <1>7 DEF Accounted

\* A slash moves tokens from a juror's stake to what the juror was slashed.
LEMMA SlashKeepsClaims ==
  ASSUME VaultInv, NEW minority, SlashMinority(minority)
  PROVE  JurorClaims' = JurorClaims
<1>1. slashBps \in Nat
  BY DEF VaultInv, FeeInv, TypeOK, Bps
<1>2. ASSUME NEW juror \in Jurors
      PROVE  SlashAmount(jurorStakes[juror], slashBps) \in Nat
  <2>1. jurorStakes[juror] \in Nat
    BY MoneyTypes
  <2>2. SlashAmount(jurorStakes[juror], slashBps) \in 0 .. jurorStakes[juror]
    BY <1>1, <2>1, SlashAmountBounded
  <2> QED
    BY <2>1, <2>2
<1>3. ASSUME NEW juror \in Jurors
      PROVE  JurorClaim(juror)' = JurorClaim(juror)
  <2> DEFINE slash == IF juror \in minority
                        THEN SlashAmount(jurorStakes[juror], slashBps) ELSE 0
  <2>1. /\ jurorStakes'[juror] = jurorStakes[juror] - slash
        /\ slashed'[juror] = slashed[juror] + slash
    BY DEF SlashMinority
  <2>2. slash \in Nat /\ jurorStakes[juror] \in Nat /\ slashed[juror] \in Nat
    BY <1>2, MoneyTypes
  <2> HIDE DEF slash
  <2> QED
    BY <2>1, <2>2 DEF JurorClaim
<1> QED
  BY <1>3 DEF JurorClaims

LEMMA ResolveCustody ==
  ASSUME VaultInv, NEW id \in EscrowIds, ResolveDispute(id)
  PROVE  Accounted
<1> DEFINE remaining == Remaining(id)
           recipient == IF RulingFor(id) THEN escrows[id].depositor
                                         ELSE escrows[id].beneficiary
<1>1. /\ id \in DOMAIN escrows /\ escrows[id].status = "Disputed"
      /\ escrows'[id].status = "Settled" /\ DOMAIN escrows' = DOMAIN escrows
      /\ \A other \in DOMAIN escrows \ {id} : escrows'[other] = escrows[other]
      /\ escrowReleased' = escrowReleased
  BY ResolveRecords
<1>2. remaining \in Int
  BY <1>1 DEF Remaining, VaultInv, FeeInv, TypeOK, IsStore, EscrowRecord
<1>3. recipient \in Accounts
  BY <1>1 DEF VaultInv, FeeInv, TypeOK, IsStore, EscrowRecord
<1>4. JurorClaims' = JurorClaims
  BY SlashKeepsClaims DEF ResolveDispute
<1>5. EscrowClaims' = [EscrowClaims EXCEPT ![id] = @ + (-remaining)]
  <2>1. EscrowClaim(id)' = EscrowClaim(id) + (-remaining)
    BY <1>1, <1>2 DEF EscrowClaim, Remaining
  <2>2. \A other \in EscrowIds \ {id} : EscrowClaim(other)' = EscrowClaim(other)
    BY <1>1 DEF EscrowClaim
  <2> QED
    BY <2>1, <2>2 DEF EscrowClaims
<1>6. Custody' - Custody = -remaining
  <2>1. remaining > 0
    <3>1. escrowReleased[id] < escrows[id].amount
      BY <1>1 DEF VaultInv, Funded
    <3>2. escrows[id] \in EscrowRecord /\ escrowReleased[id] \in 0 .. I128_MAX
      BY <1>1 DEF VaultInv, FeeInv, TypeOK, IsStore
    <3>3. escrows[id].amount \in Int /\ escrowReleased[id] \in Int
      BY <3>2 DEF EscrowRecord
    <3> QED
      BY <3>1, <3>3 DEF Remaining
  <2>2. /\ balances' = Transfer(balances, Contract, recipient, remaining)
        /\ gifts' = gifts + SelfPaid(recipient, remaining)
    BY <2>1 DEF ResolveDispute
  <2> HIDE DEF remaining, recipient
  <2>3. balances'[Contract] = (balances[Contract] - remaining) + SelfPaid(recipient, remaining)
    BY <1>2, <1>3, <2>2, MoneyTypes, TransferMoves
  <2>4. SelfPaid(recipient, remaining) \in Int
    BY <1>2 DEF SelfPaid
  <2> QED
    BY <1>2, <2>2, <2>3, <2>4, MoneyTypes DEF Custody
<1>7. escrowFunds' = [escrowFunds EXCEPT ![id] = @ + (Custody' - Custody)]
  BY DEF ResolveDispute, ChargedTo
<1> QED
  BY <1>4, <1>5, <1>6, <1>7 DEF Accounted

\* The steps that move nothing in custody change no claim.
LEMMA IdleCustody ==
  ASSUME Custody' = Custody, UNCHANGED <<escrowFunds, escrowReleased, stakeVars>>,
         DOMAIN escrows' = DOMAIN escrows,
         \A id \in DOMAIN escrows :
           /\ escrows'[id].amount = escrows[id].amount
           /\ escrows'[id].status = "Settled" <=> escrows[id].status = "Settled"
  PROVE  Accounted
<1>1. JurorClaims' = JurorClaims
  BY DEF stakeVars, JurorClaims, JurorClaim
<1>2. \A id \in EscrowIds : EscrowClaim(id)' = EscrowClaim(id)
  BY DEF EscrowClaim
<1>3. EscrowClaims' = EscrowClaims
  BY <1>2 DEF EscrowClaims
<1> QED
  BY <1>1, <1>3 DEF Accounted

LEMMA RaiseCustody ==
  ASSUME VaultInv, NEW id \in EscrowIds, NEW caller, RaiseDispute(id, caller)
  PROVE  Accounted
<1>1. \A other \in DOMAIN escrows :
        /\ escrows'[other].amount = escrows[other].amount
        /\ escrows'[other].status = "Settled" <=> escrows[other].status = "Settled"
  <2>1. /\ escrows'[id].amount = escrows[id].amount
        /\ escrows'[id].status # "Settled" /\ escrows[id].status # "Settled"
    BY RaiseRecords
  <2>2. \A other \in DOMAIN escrows \ {id} : escrows'[other] = escrows[other]
    BY RaiseRecords
  <2> QED
    BY <2>1, <2>2
<1>2. DOMAIN escrows' = DOMAIN escrows
  BY RaiseRecords
<1>3. Custody' = Custody /\ UNCHANGED <<escrowFunds, escrowReleased, stakeVars>>
  BY DEF RaiseDispute, Custody
<1> QED
  BY <1>1, <1>2, <1>3, IdleCustody

LEMMA AccountedStep ==
  ASSUME VaultInv, [Next]_vars
  PROVE  Accounted
<1> USE DEF Custody
<1>1. ASSUME NEW depositor \in Depositors, NEW beneficiary, NEW amount, NEW milestones,
             OpenEscrow(depositor, beneficiary, amount, milestones)
      PROVE  Accounted
  BY <1>1, OpenEscrowCustody
<1>2. CASE EscrowStep
  BY <1>1, <1>2, ReleaseCustody, InputsAssumption DEF EscrowStep, CreateEscrow, InitEscrow
<1>3. CASE DisputeStep
  <2>1. ASSUME NEW id, NEW juror, NEW commitment, CommitVote(id, juror, commitment)
        PROVE  Accounted
    BY <2>1, IdleCustody DEF CommitVote, escrowVars
  <2>2. ASSUME NEW id, NEW juror, NEW vote, NEW salt, RevealVote(id, juror, vote, salt)
        PROVE  Accounted
    BY <2>2, IdleCustody DEF RevealVote, escrowVars
  <2> QED
    BY <1>3, <2>1, <2>2, RaiseCustody, ResolveCustody DEF DisputeStep
<1>4. CASE AdminStep
  BY <1>4, IdleCustody
     DEF AdminStep, SetFeeBps, SetTreasury, SetPauser, RevokePauser, Pause, Unpause, escrowVars
<1>5. CASE Tick
  BY <1>5, IdleCustody DEF Tick, escrowVars
<1>6. CASE GiftStep
  <2>1. Custody' = Custody
    BY <1>6, GiftKeepsCustody DEF VaultInv, FeeInv
  <2>2. UNCHANGED <<escrowVars, stakeVars>>
    BY <1>6 DEF GiftStep, Donate
  <2> HIDE DEF Custody
  <2> QED
    BY <2>1, <2>2, IdleCustody DEF escrowVars
<1>7. CASE UNCHANGED vars
  BY <1>7, IdleCustody DEF vars, escrowVars
<1> QED
  BY <1>2, <1>3, <1>4, <1>5, <1>6, <1>7, StakingCustody DEF Next

LEMMA CustodyStep ==
  ASSUME VaultInv, [Next]_vars
  PROVE  ClaimsFollow
  BY AccountedStep DEF Accounted, ClaimsFollow

LEMMA CustodyInvInit == Init => CustodyInv
<1> SUFFICES ASSUME Init PROVE CustodyInv
  OBVIOUS
<1>1. FundsMatch
  BY DEF Init, EmptyStore, FundsMatch, EscrowClaims, EscrowClaim
<1> QED
  BY <1>1, VaultInvInit DEF CustodyInv

LEMMA CustodyInvNext ==
  ASSUME CustodyInv, [Next]_vars
  PROVE  CustodyInv'
<1>1. VaultInv'
  BY VaultInvNext DEF CustodyInv
<1>2. FundsMatch'
  BY AccountedStep DEF Accounted, CustodyInv, FundsMatch
<1> QED
  BY <1>1, <1>2 DEF CustodyInv

LEMMA CustodyInvCorrect == Spec => []CustodyInv
  BY CustodyInvInit, CustodyInvNext, PTL DEF Spec

(***************************************************************************)
(* Whatever enters or leaves the contract's custody in one call enters or   *)
(* leaves the claim of exactly one escrow or juror: no release, payout or   *)
(* withdrawal is paid with what another party is owed, whoever is paid, the *)
(* contract's own address included.                                         *)
(***************************************************************************)
THEOREM CustodyCorrect == Spec => CustodyMoves
<1>1. VaultInv /\ [Next]_vars => [ClaimsFollow]_vars
  BY CustodyStep
<1> QED
  BY <1>1, VaultInvCorrect, PTL DEF Spec, CustodyMoves

-----------------------------------------------------------------------------
LEMMA ClaimTypes ==
  ASSUME VaultInv
  PROVE  /\ EscrowClaims \in [EscrowIds -> Int] /\ JurorClaims \in [Jurors -> Int]
         /\ IsFiniteSet(EscrowIds) /\ IsFiniteSet(Jurors)
<1>1. \A id \in EscrowIds : EscrowClaim(id) \in Int
  BY DEF EscrowClaim, VaultInv, FeeInv, TypeOK, IsStore, EscrowRecord
<1>2. \A juror \in Jurors : JurorClaim(juror) \in Int
  BY MoneyTypes DEF JurorClaim
<1>3. IsFiniteSet(EscrowIds)
  BY BoundsAssumption, FS_Interval DEF EscrowIds
<1> QED
  BY <1>1, <1>2, <1>3, PartiesAssumption DEF EscrowClaims, JurorClaims

LEMMA SolvencyInit ==
  ASSUME Init
  PROVE  Solvency
<1>1. VaultInv
  BY VaultInvInit
<1>2. Custody = 0
  <2>1. InitialBalances[Contract] \in Int
    BY InputsAssumption, PartiesAssumption
  <2> QED
    BY <2>1 DEF Init, Custody
<1>3. EscrowClaims = [id \in EscrowIds |-> 0]
  BY DEF Init, EmptyStore, EscrowClaims, EscrowClaim
<1>4. JurorClaims = [juror \in Jurors |-> 0]
  BY DEF Init, JurorClaims, JurorClaim
<1>5. SumFunction([id \in EscrowIds |-> 0]) = 0 /\ SumFunction([juror \in Jurors |-> 0]) = 0
  BY <1>1, ClaimTypes, SumFunctionZero
<1> QED
  BY <1>2, <1>3, <1>4, <1>5 DEF Solvency

LEMMA SolvencyNext ==
  ASSUME VaultInv, Solvency, [Next]_vars
  PROVE  Solvency'
<1> DEFINE moved == Custody' - Custody
<1>1. VaultInv'
  BY VaultInvNext
<1>2. /\ EscrowClaims \in [EscrowIds -> Int] /\ JurorClaims \in [Jurors -> Int]
      /\ IsFiniteSet(EscrowIds) /\ IsFiniteSet(Jurors)
  BY ClaimTypes
<1>3. Custody \in Int /\ Custody' \in Int
  <2>1. TypeOK /\ TypeOK'
    BY <1>1 DEF VaultInv, FeeInv
  <2> QED
    BY <2>1, PartiesAssumption DEF TypeOK, Custody
<1>4. SumFunction(EscrowClaims) \in Int /\ SumFunction(JurorClaims) \in Int
  BY <1>2, SumFunctionType
<1>5. CASE UNCHANGED <<Custody, EscrowClaims, JurorClaims>>
  BY <1>5 DEF Solvency
<1>6. ASSUME NEW id \in EscrowIds, UNCHANGED JurorClaims,
             EscrowClaims' = [EscrowClaims EXCEPT ![id] = @ + moved]
      PROVE  Solvency'
  <2>1. /\ EscrowClaims' \in [EscrowIds -> Int]
        /\ EscrowClaims'[id] - EscrowClaims[id] = moved
        /\ \A other \in EscrowIds \ {id} : EscrowClaims'[other] = EscrowClaims[other]
    BY <1>2, <1>3, <1>6
  <2>2. SumFunction(EscrowClaims') = SumFunction(EscrowClaims)
                                       + (EscrowClaims'[id] - EscrowClaims[id])
    BY <1>2, <2>1, SumFunctionChanges
  <2> QED
    BY <1>3, <1>4, <1>6, <2>1, <2>2 DEF Solvency
<1>7. ASSUME NEW juror \in Jurors, UNCHANGED EscrowClaims,
             JurorClaims' = [JurorClaims EXCEPT ![juror] = @ + moved]
      PROVE  Solvency'
  <2>1. /\ JurorClaims' \in [Jurors -> Int]
        /\ JurorClaims'[juror] - JurorClaims[juror] = moved
        /\ \A other \in Jurors \ {juror} : JurorClaims'[other] = JurorClaims[other]
    BY <1>2, <1>3, <1>7
  <2>2. SumFunction(JurorClaims') = SumFunction(JurorClaims)
                                      + (JurorClaims'[juror] - JurorClaims[juror])
    BY <1>2, <2>1, SumFunctionChanges
  <2> QED
    BY <1>3, <1>4, <1>7, <2>1, <2>2 DEF Solvency
<1> QED
  BY <1>5, <1>6, <1>7, CustodyStep DEF ClaimsFollow

(***************************************************************************)
(* What the contract holds and was not given is exactly what it owes or has *)
(* slashed, whatever the number of escrows, jurors and milestones, whoever  *)
(* the escrows and fees are paid to and whatever is sent to its address.    *)
(***************************************************************************)
THEOREM SolvencyCorrect == Spec => []Solvency
<1>1. Init => VaultInv /\ Solvency
  BY VaultInvInit, SolvencyInit
<1>2. VaultInv /\ Solvency /\ [Next]_vars => (VaultInv /\ Solvency)'
  BY VaultInvNext, SolvencyNext
<1> QED
  BY <1>1, <1>2, PTL DEF Spec

-----------------------------------------------------------------------------
\* The phase of every escrow, as EscrowVault sees it.
phaseBar == [id \in EscrowIds |-> EscrowPhase(id)]

LEMMA VaultInitially ==
  ASSUME Init
  PROVE  Vault!VaultInit
<1>1. DOMAIN escrows = {}
  BY DEF Init, EmptyStore
<1> QED
  BY <1>1 DEF Init, Vault!VaultInit, EscrowPhase

\* A step that changes one escrow is a step of the vault on that escrow.
LEMMA VaultSteps ==
  ASSUME VaultInv, FundsMatch, FundsMatch', [Next]_vars
  PROVE  [Vault!VaultNext]_(Vault!vaultVars)
<1> USE DEF EscrowPhase, EscrowClaim
<1>0. escrowFunds = EscrowClaims /\ escrowFunds' = EscrowClaims'
  BY DEF FundsMatch
<1>1. CASE QuietStep
  BY <1>0, <1>1, QuietSteps DEF Vault!vaultVars, EscrowClaims
<1>2. ASSUME NEW depositor, NEW beneficiary, NEW amount, NEW milestones,
             OpenEscrow(depositor, beneficiary, amount, milestones)
      PROVE  Vault!VaultNext
  <2>1. PICK id \in EscrowIds \ DOMAIN escrows :
           /\ DOMAIN escrows' = DOMAIN escrows \union {id}
           /\ escrows'[id].status = "Active"
           /\ escrows'[id].amount = amount
           /\ \A other \in DOMAIN escrows : escrows'[other] = escrows[other]
           /\ amount \in 1 .. I128_MAX
           /\ escrowReleased[id] = 0
           /\ UNCHANGED <<escrowReleased, disputes>>
    BY <1>2, OpenEscrowRecords DEF VaultInv
  <2>2. amount \in (0 .. I128_MAX) \ {0} /\ amount - 0 = amount
    BY <2>1
  <2>3. phaseBar' = [phaseBar EXCEPT ![id] = "Active"] /\ phaseBar[id] = "None"
    BY <2>1 DEF phaseBar
  <2>4. EscrowClaims' = [EscrowClaims EXCEPT ![id] = amount]
    BY <2>1, <2>2 DEF EscrowClaims
  <2>5. Vault!Deposit(id)
    BY <1>0, <2>2, <2>3, <2>4 DEF Vault!Deposit, phaseBar
  <2> QED
    BY <2>5 DEF Vault!VaultNext
<1>3. ASSUME NEW id \in DOMAIN escrows, NEW gross \in Int, NEW caller,
             NEW index \in DOMAIN escrows[id].milestones,
             ReleaseMilestoneTranche(id, index, gross, caller)
      PROVE  Vault!VaultNext
  <2> DEFINE rest == (escrows[id].amount - escrowReleased[id]) - gross
  <2>1. /\ id \in EscrowIds /\ escrows[id].status = "Active" /\ gross > 0
        /\ escrows[id].amount \in 1 .. I128_MAX /\ escrowReleased[id] \in Nat
        /\ escrowReleased[id] + gross <= escrows[id].amount
    BY <1>3, ReleaseRecords
  <2>2. /\ rest \in 0 .. I128_MAX
        /\ rest < escrows[id].amount - escrowReleased[id]
        /\ rest = 0 <=> escrowReleased[id] + gross = escrows[id].amount
        /\ rest = escrows[id].amount - (escrowReleased[id] + gross)
    <3> DEFINE amount == escrows[id].amount
               before == escrowReleased[id]
    <3>1. I128_MAX \in Nat /\ amount \in 1 .. I128_MAX /\ before \in Nat
          /\ gross > 0 /\ before + gross <= amount
      BY <2>1, WidthAssumption
    <3> HIDE DEF amount, before
    <3>2. /\ (amount - before) - gross \in 0 .. I128_MAX
          /\ (amount - before) - gross < amount - before
          /\ (amount - before) - gross = 0 <=> before + gross = amount
          /\ (amount - before) - gross = amount - (before + gross)
      BY <3>1
    <3> QED
      BY <3>2 DEF amount, before
  <2>3. /\ phaseBar[id] = "Active"
        /\ EscrowClaims[id] = escrows[id].amount - escrowReleased[id]
    BY <2>1 DEF phaseBar, EscrowClaims
  <2>4. escrowReleased'[id] = escrowReleased[id] + gross
        /\ \A other \in EscrowIds \ {id} : escrowReleased'[other] = escrowReleased[other]
    <3>1. escrowReleased' = [escrowReleased EXCEPT ![id] = @ + gross]
      BY <1>3, ReleaseRecords
    <3>2. escrowReleased \in [EscrowIds -> 0 .. I128_MAX]
      BY DEF VaultInv, FeeInv, TypeOK
    <3> QED
      BY <2>1, <3>1, <3>2
  <2> HIDE DEF rest
  <2>5. phaseBar' = [phaseBar EXCEPT ![id] = IF rest = 0 THEN "Settled" ELSE @]
    <3>1. /\ DOMAIN escrows' = DOMAIN escrows
          /\ \A other \in DOMAIN escrows \ {id} : escrows'[other] = escrows[other]
          /\ escrows'[id].status = IF escrowReleased[id] + gross = escrows[id].amount
                                     THEN "Settled" ELSE "Active"
      BY <1>3, ReleaseRecords
    <3>2. escrows'[id].status = IF rest = 0 THEN "Settled" ELSE escrows[id].status
      BY <2>1, <2>2, <3>1
    <3>3. (EscrowPhase(id))' = IF rest = 0 THEN "Settled" ELSE EscrowPhase(id)
      BY <3>1, <3>2
    <3>4. \A other \in EscrowIds \ {id} : (EscrowPhase(other))' = EscrowPhase(other)
      BY <3>1
    <3> DEFINE after == IF rest = 0 THEN "Settled" ELSE EscrowPhase(id)
    <3>5. (EscrowPhase(id))' = after
      BY <3>3
    <3> HIDE DEF EscrowPhase, after
    <3>6. phaseBar' = [phaseBar EXCEPT ![id] = after]
      BY <2>1, <3>4, <3>5 DEF phaseBar
    <3>7. phaseBar[id] = EscrowPhase(id)
      BY <2>1 DEF phaseBar
    <3> QED
      BY <3>6, <3>7 DEF after
  <2>6. EscrowClaims' = [EscrowClaims EXCEPT ![id] = rest]
    <3> DEFINE amount == escrows[id].amount
               after  == escrowReleased[id] + gross
    <3>0. /\ DOMAIN escrows' = DOMAIN escrows
          /\ \A other \in DOMAIN escrows \ {id} : escrows'[other] = escrows[other]
          /\ escrows'[id].amount = amount
          /\ escrows'[id].status = IF after = amount THEN "Settled" ELSE "Active"
      BY <1>3, ReleaseRecords
    <3>1. (EscrowClaim(id))' = rest
      <4>1. /\ escrowReleased'[id] = after
            /\ rest = 0 <=> after = amount
            /\ rest = amount - after
        BY <2>2, <2>4
      <4> HIDE DEF amount, after
      <4> QED
        BY <3>0, <4>1
    <3>2. \A other \in EscrowIds \ {id} : (EscrowClaim(other))' = EscrowClaim(other)
      BY <2>4, <3>0
    <3> HIDE DEF EscrowClaim
    <3> QED
      BY <2>1, <3>1, <3>2 DEF EscrowClaims
  <2>7. Vault!Pay(id)
    <3>1. rest \in 0 .. I128_MAX /\ rest < EscrowClaims[id]
      BY <2>2, <2>3
    <3>2. /\ phaseBar[id] = "Active"
          /\ \E left \in 0 .. I128_MAX :
               /\ left < EscrowClaims[id]
               /\ EscrowClaims' = [EscrowClaims EXCEPT ![id] = left]
               /\ phaseBar' = [phaseBar EXCEPT ![id] = IF left = 0 THEN "Settled" ELSE @]
      <4> HIDE DEF phaseBar, EscrowClaims
      <4> QED
        BY <2>3, <2>5, <2>6, <3>1
    <3> QED
      BY <1>0, <3>2, Zenon DEF Vault!Pay, phaseBar
  <2> QED
    BY <2>1, <2>7 DEF Vault!VaultNext
<1>4. ASSUME NEW id \in EscrowIds, NEW caller, RaiseDispute(id, caller)
      PROVE  Vault!VaultNext
  <2>1. /\ escrows[id] \in EscrowRecord /\ escrowReleased[id] \in 0 .. I128_MAX
        /\ escrowReleased[id] < escrows[id].amount
    BY <1>4, RaiseRecords DEF VaultInv, FeeInv, TypeOK, IsStore, Funded
  <2>2. escrows[id].amount - escrowReleased[id] > 0
    BY <2>1 DEF EscrowRecord
  <2>3. phaseBar[id] = "Active" /\ EscrowClaims[id] > 0
    BY <1>4, <2>2, RaiseRecords DEF phaseBar, EscrowClaims
  <2>4. phaseBar' = [phaseBar EXCEPT ![id] = "Disputed"] /\ EscrowClaims' = EscrowClaims
    BY <1>4, RaiseRecords DEF phaseBar, EscrowClaims
  <2>5. Vault!Freeze(id)
    BY <1>0, <2>3, <2>4 DEF Vault!Freeze, phaseBar
  <2> QED
    BY <2>5 DEF Vault!VaultNext
<1>5. ASSUME NEW id \in EscrowIds, ResolveDispute(id)
      PROVE  Vault!VaultNext
  <2>1. phaseBar[id] = "Disputed"
    BY <1>5, ResolveRecords DEF phaseBar
  <2>2. /\ phaseBar' = [phaseBar EXCEPT ![id] = "Settled"]
        /\ EscrowClaims' = [EscrowClaims EXCEPT ![id] = 0]
    BY <1>5, ResolveRecords DEF phaseBar, EscrowClaims
  <2>3. Vault!Award(id)
    BY <1>0, <2>1, <2>2 DEF Vault!Award, phaseBar
  <2> QED
    BY <2>3 DEF Vault!VaultNext
<1> QED
  BY <1>1, <1>2, <1>3, <1>4, <1>5, StepKinds

(***************************************************************************)
(* Every escrow of the contract behaves as EscrowVault promises: opened     *)
(* once, frozen by a dispute, settled once by its last release or by the    *)
(* ruling, with everything paid then and nothing afterwards.  What is paid  *)
(* is what the transfers of its calls moved, not what its record says.      *)
(***************************************************************************)
THEOREM VaultImplemented == Spec => ImplementsVault
<1>1. Init => Vault!VaultInit
  BY VaultInitially
<1>2. CustodyInv /\ CustodyInv' /\ [Next]_vars => [Vault!VaultNext]_(Vault!vaultVars)
  BY VaultSteps DEF CustodyInv
<1> QED
  BY <1>1, <1>2, CustodyInvCorrect, PTL DEF Spec, ImplementsVault, Vault!VaultSpec

-----------------------------------------------------------------------------
\* What a milestone has released.
Released(id, i) == GetOr(milestoneReleased, <<id, i>>, 0)

\* What each milestone of an escrow has released.
Shares(id) == [i \in DOMAIN escrows[id].milestones |-> Released(id, i)]

\* No milestone of an id that is not given out has released anything, and no
\* milestone was opened with a negative amount.
MilestonesOpened ==
  /\ \A key \in DOMAIN milestoneReleased : key[1] \in DOMAIN escrows
  /\ \A id \in DOMAIN escrows : \A i \in DOMAIN escrows[id].milestones :
       escrows[id].milestones[i].amount >= 0

MilestoneInv == VaultInv /\ MilestonesOpened /\ MilestoneLedger

\* MilestoneLedger in terms of the shares.
LEMMA SharesLedger ==
  MilestoneLedger <=>
    \A id \in DOMAIN escrows :
      /\ \A i \in DOMAIN escrows[id].milestones :
           Released(id, i) <= escrows[id].milestones[i].amount
      /\ escrowReleased[id] = SumFunction(Shares(id))
  BY DEF MilestoneLedger, Released, Shares

LEMMA MilestoneAmounts ==
  ASSUME NEW milestones \in Seq(Milestone), NEW i \in DOMAIN milestones
  PROVE  milestones[i].amount \in Int
<1>1. milestones[i] \in Milestone
  OBVIOUS
<1> QED
  BY <1>1 DEF Milestone

LEMMA SharesTypes ==
  ASSUME VaultInv, NEW id \in DOMAIN escrows
  PROVE  /\ id \in EscrowIds /\ IsFiniteSet(DOMAIN escrows[id].milestones)
         /\ DOMAIN escrows[id].milestones \subseteq Nat
         /\ Shares(id) \in [DOMAIN escrows[id].milestones -> Int]
         /\ \A i \in DOMAIN escrows[id].milestones :
              escrows[id].milestones[i].amount \in Int
<1>1. id \in EscrowIds /\ escrows[id] \in EscrowRecord
  BY DEF VaultInv, FeeInv, TypeOK, IsStore
<1>2. escrows[id].milestones \in Seq(Milestone)
  BY <1>1 DEF EscrowRecord
<1>3. /\ DOMAIN escrows[id].milestones = 1 .. Len(escrows[id].milestones)
      /\ Len(escrows[id].milestones) \in Nat
  BY <1>2
<1>4. IsFiniteSet(DOMAIN escrows[id].milestones)
  BY <1>3, FS_Interval
<1>5. \A i \in DOMAIN escrows[id].milestones : escrows[id].milestones[i].amount \in Int
  BY <1>2, MilestoneAmounts
<1>6. \A key \in DOMAIN milestoneReleased : milestoneReleased[key] \in Int
  BY DEF VaultInv, FeeInv, TypeOK, IsStore
<1>7. \A i : Released(id, i) \in Int
  BY <1>6 DEF Released, GetOr
<1> QED
  BY <1>1, <1>3, <1>4, <1>5, <1>7 DEF Shares

-----------------------------------------------------------------------------
\* The calls that release nothing and open nothing.
LEMMA IdleMilestones ==
  ASSUME MilestoneInv, [Next]_vars, DOMAIN escrows' = DOMAIN escrows,
         UNCHANGED <<escrowReleased, milestoneReleased>>
  PROVE  MilestonesOpened' /\ MilestoneLedger'
<1>1. ASSUME NEW id \in DOMAIN escrows
      PROVE  /\ DOMAIN escrows'[id].milestones = DOMAIN escrows[id].milestones
             /\ \A i \in DOMAIN escrows[id].milestones :
                  escrows'[id].milestones[i].amount = escrows[id].milestones[i].amount
  BY MilestonesKept DEF MilestoneInv
<1>2. MilestonesOpened'
  BY <1>1 DEF MilestoneInv, MilestonesOpened
<1>3. \A id \in DOMAIN escrows : Shares(id)' = Shares(id)
  BY <1>1 DEF Shares, Released
<1>4. MilestoneLedger'
  <2>1. ASSUME NEW id \in DOMAIN escrows', NEW i \in DOMAIN escrows'[id].milestones
        PROVE  GetOr(milestoneReleased', <<id, i>>, 0) <= escrows'[id].milestones[i].amount
    BY <1>1 DEF MilestoneInv, MilestoneLedger
  <2>2. ASSUME NEW id \in DOMAIN escrows'
        PROVE  escrowReleased'[id] = SumFunction(Shares(id)')
    BY <1>3, SharesLedger DEF MilestoneInv
  <2> QED
    BY <2>1, <2>2 DEF MilestoneLedger, Shares, Released
<1> QED
  BY <1>2, <1>4

\* A new escrow starts with nothing released, whatever its milestones.
LEMMA OpenEscrowMilestones ==
  ASSUME MilestoneInv, [Next]_vars, VaultInv', NEW depositor, NEW beneficiary, NEW amount,
         NEW milestones \in Seq(Milestone), \A i \in DOMAIN milestones : milestones[i].amount > 0,
         OpenEscrow(depositor, beneficiary, amount, milestones)
  PROVE  MilestonesOpened' /\ MilestoneLedger'
<1>1. PICK new \in EscrowIds :
         /\ new \notin DOMAIN escrows /\ escrowReleased[new] = 0
         /\ DOMAIN escrows' = DOMAIN escrows \union {new}
         /\ escrows'[new].milestones = milestones
         /\ \A id \in DOMAIN escrows : escrows'[id] = escrows[id]
         /\ UNCHANGED <<escrowReleased, milestoneReleased>>
  <2> DEFINE next == escrowCounter + 1
  <2>1. next \in EscrowIds /\ next \notin DOMAIN escrows /\ escrowReleased[next] = 0
    BY DEF MilestoneInv, VaultInv, FeeInv, TypeOK, Registry, OpenEscrow, EscrowIds
  <2>2. /\ DOMAIN escrows' = DOMAIN escrows \union {next}
        /\ escrows'[next].milestones = milestones
        /\ \A id \in DOMAIN escrows : escrows'[id] = escrows[id]
        /\ UNCHANGED <<escrowReleased, milestoneReleased>>
    BY <2>1 DEF OpenEscrow, Put
  <2> HIDE DEF next
  <2> QED
    BY <2>1, <2>2
<1>2. \A i \in DOMAIN milestones : milestones[i].amount \in Int /\ milestones[i].amount >= 0
  BY MilestoneAmounts
<1>3. MilestonesOpened'
  BY <1>1, <1>2 DEF MilestoneInv, MilestonesOpened
<1>4. \A i : Released(new, i)' = 0
  <2>1. \A i : <<new, i>> \notin DOMAIN milestoneReleased
    BY <1>1 DEF MilestoneInv, MilestonesOpened
  <2> QED
    BY <1>1, <2>1 DEF Released, GetOr
<1>5. ASSUME NEW id \in DOMAIN escrows'
      PROVE  /\ \A i \in DOMAIN escrows'[id].milestones :
                  GetOr(milestoneReleased', <<id, i>>, 0) <= escrows'[id].milestones[i].amount
             /\ escrowReleased'[id] = SumFunction(Shares(id)')
  <2>1. CASE id = new
    <3>1. Shares(new)' = [i \in DOMAIN milestones |-> 0]
      BY <1>1, <1>4 DEF Shares
    <3>2. IsFiniteSet(DOMAIN milestones)
      <4>1. DOMAIN milestones = 1 .. Len(milestones) /\ Len(milestones) \in Nat
        OBVIOUS
      <4> QED
        BY <4>1, FS_Interval
    <3>3. SumFunction([i \in DOMAIN milestones |-> 0]) = 0
      BY <3>2, SumFunctionZero
    <3> QED
      BY <1>1, <1>2, <1>4, <2>1, <3>1, <3>3 DEF Released
  <2>2. CASE id # new
    <3>1. id \in DOMAIN escrows /\ escrows'[id] = escrows[id]
      BY <1>1, <2>2
    <3>2. Shares(id)' = Shares(id)
      BY <1>1, <3>1 DEF Shares, Released
    <3> QED
      BY <1>1, <3>1, <3>2, SharesLedger DEF MilestoneInv, Released
  <2> QED
    BY <2>1, <2>2
<1>6. MilestoneLedger'
  BY <1>5 DEF MilestoneLedger, Shares, Released
<1> QED
  BY <1>3, <1>6

\* A release adds the same to one milestone and to its escrow.
LEMMA ReleaseMilestones ==
  ASSUME MilestoneInv, [Next]_vars, VaultInv', NEW id \in DOMAIN escrows,
         NEW index \in DOMAIN escrows[id].milestones, NEW gross \in Int, NEW caller,
         ReleaseMilestoneTranche(id, index, gross, caller)
  PROVE  MilestonesOpened' /\ MilestoneLedger'
<1> DEFINE after == Released(id, index) + gross
<1>1. /\ milestoneReleased' = Put(milestoneReleased, <<id, index>>, after)
      /\ after <= escrows[id].milestones[index].amount
  BY DEF ReleaseMilestoneTranche, WithinMilestone, Released
<1>2. /\ DOMAIN escrows' = DOMAIN escrows
      /\ escrowReleased'[id] = escrowReleased[id] + gross
      /\ \A other \in DOMAIN escrows \ {id} : escrowReleased'[other] = escrowReleased[other]
      /\ escrowReleased[id] \in Int
  <2>1. /\ DOMAIN escrows' = DOMAIN escrows /\ id \in EscrowIds /\ escrowReleased[id] \in Nat
        /\ escrowReleased' = [escrowReleased EXCEPT ![id] = @ + gross]
    BY ReleaseRecords DEF MilestoneInv
  <2>2. escrowReleased \in [EscrowIds -> 0 .. I128_MAX] /\ DOMAIN escrows \subseteq EscrowIds
    BY DEF MilestoneInv, VaultInv, FeeInv, TypeOK, IsStore
  <2> QED
    BY <2>1, <2>2
<1>3. ASSUME NEW any \in DOMAIN escrows
      PROVE  /\ DOMAIN escrows'[any].milestones = DOMAIN escrows[any].milestones
             /\ \A i \in DOMAIN escrows[any].milestones :
                  escrows'[any].milestones[i].amount = escrows[any].milestones[i].amount
  BY MilestonesKept DEF MilestoneInv
<1>4. /\ Released(id, index)' = after
      /\ \A any, i : <<any, i>> # <<id, index>> => Released(any, i)' = Released(any, i)
      /\ DOMAIN milestoneReleased' = DOMAIN milestoneReleased \union {<<id, index>>}
  <2> HIDE DEF after
  <2> QED
    BY <1>1 DEF Put, GetOr, Released
<1>5. MilestonesOpened'
  <2>1. \A key \in DOMAIN milestoneReleased' : key[1] \in DOMAIN escrows'
    BY <1>2, <1>4 DEF MilestoneInv, MilestonesOpened
  <2>2. \A any \in DOMAIN escrows' : \A i \in DOMAIN escrows'[any].milestones :
          escrows'[any].milestones[i].amount >= 0
    BY <1>2, <1>3 DEF MilestoneInv, MilestonesOpened
  <2> QED
    BY <2>1, <2>2 DEF MilestonesOpened
<1>6. ASSUME NEW any \in DOMAIN escrows, NEW i \in DOMAIN escrows[any].milestones
      PROVE  Released(any, i)' <= escrows'[any].milestones[i].amount
  <2>1. CASE <<any, i>> = <<id, index>>
    <3> HIDE DEF after
    <3> QED
      BY <1>1, <1>3, <1>4, <2>1
  <2>2. CASE <<any, i>> # <<id, index>>
    BY <1>3, <1>4, <2>2, SharesLedger DEF MilestoneInv
  <2> QED
    BY <2>1, <2>2
<1>7. ASSUME NEW any \in DOMAIN escrows
      PROVE  escrowReleased'[any] = SumFunction(Shares(any)')
  <2>1. CASE any # id
    <3>1. Shares(any)' = Shares(any)
      BY <1>3, <1>4, <2>1 DEF Shares
    <3> QED
      BY <1>2, <2>1, <3>1, SharesLedger DEF MilestoneInv
  <2>2. CASE any = id
    <3> DEFINE old == Shares(id)
               new == Shares(id)'
               indices == DOMAIN escrows[id].milestones
    <3>1. /\ IsFiniteSet(indices) /\ old \in [indices -> Int]
          /\ escrowReleased[id] = SumFunction(old)
      BY SharesTypes, SharesLedger DEF MilestoneInv
    <3>2. /\ new = [i \in indices |-> Released(id, i)']
          /\ old = [i \in indices |-> Released(id, i)]
      BY <1>3 DEF Shares
    <3>3. \A i \in indices : Released(id, i) \in Int
      BY <3>1, <3>2
    <3>4. /\ new \in [indices -> Int] /\ new[index] - old[index] = gross
          /\ \A i \in indices \ {index} : new[i] = old[i]
      <4>1. \A i \in indices \ {index} : Released(id, i)' = Released(id, i)
        BY <1>4
      <4> HIDE DEF old, new, indices
      <4>2. index \in indices
        BY DEF indices
      <4> QED
        BY <1>4, <3>2, <3>3, <4>1, <4>2
    <3> HIDE DEF old, new
    <3>5. SumFunction(new) = SumFunction(old) + (new[index] - old[index])
      BY <3>1, <3>4, SumFunctionChanges
    <3>6. SumFunction(new) = escrowReleased'[id]
      BY <1>2, <3>1, <3>4, <3>5
    <3> QED
      BY <2>2, <3>6 DEF new
  <2> QED
    BY <2>1, <2>2
<1>8. MilestoneLedger'
  <2>1. ASSUME NEW any \in DOMAIN escrows'
        PROVE  /\ \A i \in DOMAIN escrows'[any].milestones :
                    GetOr(milestoneReleased', <<any, i>>, 0) <= escrows'[any].milestones[i].amount
               /\ escrowReleased'[any] = SumFunction(Shares(any)')
    <3>1. any \in DOMAIN escrows
      BY <1>2
    <3> QED
      BY <1>3, <1>6, <1>7, <3>1 DEF Released
  <2> QED
    BY <2>1 DEF MilestoneLedger, Shares, Released
<1> QED
  BY <1>5, <1>8

LEMMA MilestoneInvNext ==
  ASSUME MilestoneInv, [Next]_vars
  PROVE  MilestoneInv'
<1>1. VaultInv'
  BY VaultInvNext DEF MilestoneInv
<1>2. CASE EscrowStep
  <2>1. ASSUME NEW depositor \in Depositors, NEW beneficiary \in Beneficiaries,
               NEW amount, CreateEscrow(depositor, beneficiary, amount)
        PROVE  MilestonesOpened' /\ MilestoneLedger'
    <3>1. <<>> \in Seq(Milestone) /\ DOMAIN <<>> = {}
      OBVIOUS
    <3> QED
      BY <1>1, <2>1, <3>1, OpenEscrowMilestones DEF CreateEscrow
  <2>2. ASSUME NEW depositor \in Depositors, NEW beneficiary \in Beneficiaries,
               NEW milestones \in MilestonePlans,
               InitEscrow(depositor, beneficiary, milestones)
        PROVE  MilestonesOpened' /\ MilestoneLedger'
    BY <1>1, <2>2, InputsAssumption, OpenEscrowMilestones DEF InitEscrow
  <2> QED
    BY <1>1, <1>2, <2>1, <2>2, ReleaseMilestones, InputsAssumption DEF EscrowStep, MilestoneInv
<1>3. CASE AdminStep \/ StakingStep \/ DisputeStep \/ GiftStep \/ Tick \/ UNCHANGED vars
  <2>1. DOMAIN escrows' = DOMAIN escrows /\ escrowReleased' = escrowReleased
    BY <1>3, OtherStepsAreFramed
  <2>2. milestoneReleased' = milestoneReleased
    <3>1. CASE AdminStep
      BY <3>1 DEF AdminStep, SetFeeBps, SetTreasury, SetPauser, RevokePauser, Pause, Unpause,
                  escrowVars
    <3>2. CASE StakingStep
      BY <3>2 DEF StakingStep, Stake, Unstake, escrowVars
    <3>3. CASE DisputeStep
      <4>1. \A id, caller : RaiseDispute(id, caller) => UNCHANGED milestoneReleased
        BY DEF RaiseDispute
      <4>2. \A id, juror, commitment :
              CommitVote(id, juror, commitment) => UNCHANGED milestoneReleased
        BY DEF CommitVote, escrowVars
      <4>3. \A id, juror, vote, salt :
              RevealVote(id, juror, vote, salt) => UNCHANGED milestoneReleased
        BY DEF RevealVote, escrowVars
      <4>4. \A id : ResolveDispute(id) => UNCHANGED milestoneReleased
        BY DEF ResolveDispute
      <4> QED
        BY <3>3, <4>1, <4>2, <4>3, <4>4 DEF DisputeStep
    <3>4. CASE GiftStep \/ Tick \/ UNCHANGED vars
      BY <3>4 DEF GiftStep, Donate, Tick, vars, escrowVars
    <3> QED
      BY <1>3, <3>1, <3>2, <3>3, <3>4
  <2> QED
    BY <1>1, <2>1, <2>2, IdleMilestones DEF MilestoneInv
<1> QED
  BY <1>2, <1>3 DEF Next

(***************************************************************************)
(* The two ledgers of release_milestone_tranche never disagree, however     *)
(* many milestones and tranches there are and in whatever order they are    *)
(* released: what an escrow released is the sum over its milestones.        *)
(***************************************************************************)
THEOREM MilestoneLedgerCorrect == Spec => []MilestoneLedger
<1>1. Init => MilestoneInv
  <2>1. Init => DOMAIN escrows = {} /\ DOMAIN milestoneReleased = {}
    BY DEF Init, EmptyStore
  <2> QED
    BY <2>1, VaultInvInit DEF MilestoneInv, MilestonesOpened, MilestoneLedger
<1>2. MilestoneInv /\ [Next]_vars => MilestoneInv'
  BY MilestoneInvNext
<1>3. MilestoneInv => MilestoneLedger
  BY DEF MilestoneInv
<1> QED
  BY <1>1, <1>2, <1>3, PTL DEF Spec
=============================================================================
