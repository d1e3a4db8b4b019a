--------------------------- MODULE CrowdfundProofs ---------------------------
(***************************************************************************)
(* The sale and the token it is paid in, for every value of the constants:  *)
(* the token's balances add up to its supply, so that no call of it leaves  *)
(* their range; the sale's books are covered by its balance; and a sale     *)
(* that succeeded stays so.  The token is an implementation of              *)
(* ConservedSupply whatever the sale does with it.                          *)
(***************************************************************************)
EXTENDS Crowdfund, SumProofs

\* TypeOK, but for the bound of the balances, which takes the sum of all.
SaleType ==
  /\ recipient \in Recipients \union {Unset}
  /\ deadline \in Nat /\ target \in Int
  /\ recipientClaimed \in BOOLEAN
  /\ userDeposited \in [Accounts -> Nat]
  /\ archived \in BOOLEAN
  /\ tokenAdmin \in Operators \union {NoAdmin}
  /\ balances \in [Accounts -> Nat]
  /\ supply \in 0 .. MaxSupply
  /\ time \in 0 .. MaxTime

\* Every token that was minted is somebody's.
SupplyHeld == SumFunction(balances) = supply

\* Nothing is claimed before there is a sale.
ClaimNeedsSale == recipientClaimed => Initialized

\* The books are what was paid in and not paid back; the contract pays nothing in.
PledgesBooked == pledged = userDeposited /\ userDeposited[Fund] = 0

SaleInv == SaleType /\ SupplyHeld /\ ClaimNeedsSale /\ DepositsCovered /\ PledgesBooked

-----------------------------------------------------------------------------
(***************************************************************************)
(* The token                                                                *)
(***************************************************************************)

\* A transfer that does not trap moves tokens between two balances.
LEMMA TransferMoves ==
  ASSUME NEW money \in [Accounts -> Nat], NEW from \in Accounts, NEW to \in Accounts,
         NEW amount \in Int, CanTransfer(money, from, amount)
  PROVE  /\ Transfer(money, from, to, amount) \in [Accounts -> Nat]
         /\ from = to => Transfer(money, from, to, amount) = money
         /\ from # to =>
              /\ Transfer(money, from, to, amount)
                   = [money EXCEPT ![from] = @ - amount, ![to] = @ + amount]
              /\ Transfer(money, from, to, amount)[from] = money[from] - amount
              /\ Transfer(money, from, to, amount)[to] = money[to] + amount
         /\ \A other \in Accounts \ {from, to} :
              Transfer(money, from, to, amount)[other] = money[other]
<1>1. CASE from = to
  <2> DEFINE after == Transfer(money, from, to, amount)
  <2>1. after \in [Accounts -> Int] /\ \A x \in Accounts : after[x] = money[x]
    BY <1>1 DEF Transfer
  <2> HIDE DEF after
  <2>2. after = money
    BY <2>1
  <2> QED
    BY <1>1, <2>2 DEF after
<1>2. CASE from # to
  <2>1. Transfer(money, from, to, amount)
          = [money EXCEPT ![from] = @ - amount, ![to] = @ + amount]
    BY <1>2 DEF Transfer
  <2>2. money[from] >= amount /\ amount >= 0
    BY DEF CanTransfer
  <2> QED
    BY <1>2, <2>1, <2>2
<1> QED
  BY <1>1, <1>2

\* It leaves their sum alone.
LEMMA TransferConserves ==
  ASSUME NEW money \in [Accounts -> Nat], NEW from \in Accounts, NEW to \in Accounts,
         NEW amount \in Int, CanTransfer(money, from, amount)
  PROVE  SumFunction(Transfer(money, from, to, amount)) = SumFunction(money)
<1> DEFINE after == Transfer(money, from, to, amount)
<1>1. CASE from = to
  BY <1>1, TransferMoves
<1>2. CASE from # to
  <2>1. /\ after \in [Accounts -> Nat]
        /\ after[from] = money[from] - amount /\ after[to] = money[to] + amount
        /\ \A x \in Accounts \ {from, to} : after[x] = money[x]
    BY <1>2, TransferMoves
  <2> HIDE DEF after
  <2>2. after \in [Accounts -> Int] /\ money \in [Accounts -> Int]
    BY <2>1
  <2>3. after[from] + after[to] = money[from] + money[to]
    BY <2>1
  <2>4. SumFunction(after) = SumFunction(money)
    BY <1>2, <2>1, <2>2, <2>3, SumFunctionMoves, CrowdfundAssumption
  <2> QED
    BY <2>4 DEF after
<1> QED
  BY <1>1, <1>2

LEMMA MintConserves ==
  ASSUME SaleType, SupplyHeld, NEW caller, NEW to \in Accounts, NEW amount \in Int,
         MockMint(caller, to, amount)
  PROVE  /\ balances' \in [Accounts -> Nat] /\ supply' \in 0 .. MaxSupply
         /\ amount >= 0 /\ supply' = supply + amount
         /\ balances' = [balances EXCEPT ![to] = @ + amount]
         /\ SupplyHeld'
<1>1. /\ amount >= 0 /\ supply' = supply + amount /\ supply + amount <= MaxSupply
      /\ balances' = [balances EXCEPT ![to] = @ + amount]
  BY DEF MockMint
<1>2. balances \in [Accounts -> Nat] /\ supply \in Nat /\ MaxSupply \in Nat
  BY MockAssumption DEF SaleType
<1>3. /\ balances' \in [Accounts -> Nat] /\ balances' \in [Accounts -> Int]
      /\ balances \in [Accounts -> Int]
      /\ balances'[to] - balances[to] = amount
      /\ \A x \in Accounts \ {to} : balances'[x] = balances[x]
  BY <1>1, <1>2
<1>4. SumFunction(balances') = SumFunction(balances) + (balances'[to] - balances[to])
  BY <1>3, SumFunctionChanges, CrowdfundAssumption
<1>5. SumFunction(balances') = supply'
  BY <1>1, <1>3, <1>4 DEF SupplyHeld
<1> QED
  BY <1>1, <1>2, <1>3, <1>5 DEF SupplyHeld

LEMMA MockTransferConserves ==
  ASSUME SaleType, SupplyHeld, NEW from \in Accounts, NEW to \in Accounts,
         NEW amount \in Int, MockTransfer(from, to, amount)
  PROVE  /\ balances' \in [Accounts -> Nat] /\ SupplyHeld'
         /\ balances[from] >= amount /\ amount >= 0
         /\ from = to => balances' = balances
         /\ from # to =>
              /\ balances' = [balances EXCEPT ![from] = @ - amount, ![to] = @ + amount]
              /\ balances'[from] = balances[from] - amount
              /\ balances'[to] = balances[to] + amount
         /\ \A other \in Accounts \ {from, to} : balances'[other] = balances[other]
         /\ UNCHANGED <<tokenAdmin, supply>>
<1>1. /\ CanTransfer(balances, from, amount)
      /\ balances' = Transfer(balances, from, to, amount)
      /\ UNCHANGED <<tokenAdmin, supply>>
  BY DEF MockTransfer, Moved
<1>2. balances \in [Accounts -> Nat]
  BY DEF SaleType
<1>3. SupplyHeld'
  BY <1>1, <1>2, TransferConserves DEF SupplyHeld
<1> QED
  BY <1>1, <1>2, <1>3, TransferMoves DEF CanTransfer

\* What somebody else than the sale does to the token.
LEMMA TokenCallKinds ==
  ASSUME TokenCall
  PROVE  /\ UNCHANGED <<saleVars, archived, time>>
         /\ \/ \E caller \in Operators : MockInitialize(caller)
            \/ \E caller \in Operators, to \in Accounts, amount \in Int :
                 MockMint(caller, to, amount)
            \/ \E from \in Accounts \ {Fund}, to \in Accounts, amount \in Int :
                 MockTransfer(from, to, amount)
<1>1. MintAmounts \subseteq Int /\ GiftAmounts \subseteq Int /\ Donors \subseteq Accounts \ {Fund}
  BY MockAssumption, CrowdfundAssumption
<1> QED
  BY <1>1 DEF TokenCall

-----------------------------------------------------------------------------
(***************************************************************************)
(* The invariant                                                            *)
(***************************************************************************)

LEMMA SaleInvInit == Init => SaleInv
<1> SUFFICES ASSUME Init PROVE SaleInv
  OBVIOUS
<1>1. SaleType
  <2>1. 0 \in 0 .. MaxSupply /\ 0 \in 0 .. MaxTime
    BY MockAssumption, CrowdfundAssumption
  <2>2. recipientClaimed \in BOOLEAN /\ archived \in BOOLEAN
    BY Zenon DEF Init
  <2> QED
    BY <2>1, <2>2 DEF Init, TokenInit, SaleType
<1>2. SumFunction([account \in Accounts |-> 0]) = 0
  BY SumFunctionZero, CrowdfundAssumption
<1>3. SupplyHeld
  BY <1>2 DEF Init, TokenInit, SupplyHeld
<1>4. DepositsCovered
  BY <1>2, CrowdfundAssumption DEF Init, TokenInit, DepositsCovered
<1>5. PledgesBooked
  BY CrowdfundAssumption DEF Init, PledgesBooked
<1> QED
  BY <1>1, <1>3, <1>4, <1>5 DEF SaleInv, ClaimNeedsSale, Init

\* A deposit is booked and paid: books and balance rise by the same.
LEMMA DepositKeeps ==
  ASSUME SaleInv, NEW user \in Accounts \ {Fund}, NEW amount \in Int, Deposit(user, amount)
  PROVE  SaleInv'
<1>1. /\ amount > 0 /\ Initialized /\ MockTransfer(user, Fund, amount)
      /\ userDeposited' = [userDeposited EXCEPT ![user] = @ + amount]
      /\ pledged' = [pledged EXCEPT ![user] = @ + (balances'[Fund] - balances[Fund])]
      /\ UNCHANGED <<setupVars, recipientClaimed, archived, time>>
  BY DEF Deposit, Pledged
<1>2. /\ balances' \in [Accounts -> Nat] /\ SupplyHeld' /\ UNCHANGED <<tokenAdmin, supply>>
      /\ balances'[Fund] = balances[Fund] + amount
  BY <1>1, MockTransferConserves, CrowdfundAssumption DEF SaleInv
<1>3. /\ userDeposited \in [Accounts -> Int] /\ userDeposited' \in [Accounts -> Nat]
      /\ userDeposited' \in [Accounts -> Int]
      /\ userDeposited'[user] - userDeposited[user] = amount
      /\ \A x \in Accounts \ {user} : userDeposited'[x] = userDeposited[x]
  BY <1>1 DEF SaleInv, SaleType
<1>4. SaleType'
  BY <1>1, <1>2, <1>3 DEF SaleInv, SaleType, setupVars
<1>5. /\ SumFunction(userDeposited) \in Int
      /\ SumFunction(userDeposited') = SumFunction(userDeposited)
                                         + (userDeposited'[user] - userDeposited[user])
  BY <1>3, SumFunctionChanges, CrowdfundAssumption
<1>6. balances[Fund] \in Int
  BY CrowdfundAssumption DEF SaleInv, SaleType
<1>7. DepositsCovered'
  BY <1>1, <1>2, <1>3, <1>5, <1>6 DEF SaleInv, DepositsCovered
<1>8. PledgesBooked'
  <2>1. balances'[Fund] - balances[Fund] = amount
    BY <1>2, <1>6
  <2>2. pledged' = [pledged EXCEPT ![user] = @ + amount]
    BY <1>1, <2>1
  <2> QED
    BY <1>1, <1>3, <2>2, CrowdfundAssumption DEF SaleInv, PledgesBooked
<1> QED
  BY <1>1, <1>2, <1>4, <1>7, <1>8 DEF SaleInv, ClaimNeedsSale, Initialized, setupVars

\* The recipient's withdrawal ends the promise to the donors.
LEMMA WithdrawSuccessKeeps ==
  ASSUME SaleInv, NEW to \in Accounts, WithdrawSuccess(to)
  PROVE  SaleInv'
<1>1. /\ Initialized /\ recipient = to /\ MockTransfer(Fund, to, balances[Fund])
      /\ recipientClaimed' = TRUE
      /\ UNCHANGED <<setupVars, userDeposited, pledged, archived, time>>
  BY DEF WithdrawSuccess, PayOut
<1>2. balances[Fund] \in Int /\ Fund \in Accounts
  BY CrowdfundAssumption DEF SaleInv, SaleType
<1>3. balances' \in [Accounts -> Nat] /\ SupplyHeld' /\ UNCHANGED <<tokenAdmin, supply>>
  BY <1>1, <1>2, MockTransferConserves DEF SaleInv
<1>4. SaleType'
  BY <1>1, <1>3 DEF SaleInv, SaleType, setupVars
<1> QED
  BY <1>1, <1>3, <1>4
     DEF SaleInv, ClaimNeedsSale, Initialized, DepositsCovered, PledgesBooked, setupVars

\* A refund takes the same from the books and from the balance, and pays the
\* contract itself nothing it does not have.
LEMMA WithdrawExpiredKeeps ==
  ASSUME SaleInv, NEW to \in Accounts, WithdrawExpired(to)
  PROVE  SaleInv'
<1> DEFINE owed == userDeposited[to]
<1>1. /\ Initialized /\ MockTransfer(Fund, to, owed)
      /\ userDeposited' = [userDeposited EXCEPT ![to] = 0]
      /\ pledged' = [pledged EXCEPT ![to] = @ + (balances'[Fund] - balances[Fund])]
      /\ UNCHANGED <<setupVars, recipientClaimed, archived, time>>
  BY DEF WithdrawExpired, PayOut, Refund, DepositCleared, Pledged
<1>2. owed \in Nat /\ Fund \in Accounts /\ balances[Fund] \in Int
  BY CrowdfundAssumption DEF SaleInv, SaleType
<1>3. /\ userDeposited \in [Accounts -> Int] /\ userDeposited' \in [Accounts -> Nat]
      /\ userDeposited' \in [Accounts -> Int]
      /\ userDeposited'[to] - userDeposited[to] = -owed
      /\ \A x \in Accounts \ {to} : userDeposited'[x] = userDeposited[x]
  BY <1>1, <1>2 DEF SaleInv, SaleType
<1>4. /\ SumFunction(userDeposited) \in Int
      /\ SumFunction(userDeposited') = SumFunction(userDeposited)
                                         + (userDeposited'[to] - userDeposited[to])
  BY <1>3, SumFunctionChanges, CrowdfundAssumption
<1> HIDE DEF owed
<1>5. /\ balances' \in [Accounts -> Nat] /\ SupplyHeld' /\ UNCHANGED <<tokenAdmin, supply>>
      /\ balances'[Fund] - balances[Fund] = -owed
  <2>1. owed \in Int
    BY <1>2
  <2>2. /\ balances' \in [Accounts -> Nat] /\ SupplyHeld' /\ UNCHANGED <<tokenAdmin, supply>>
        /\ Fund = to => balances' = balances
        /\ Fund # to => balances'[Fund] = balances[Fund] - owed
    BY <1>1, <1>2, <2>1, MockTransferConserves DEF SaleInv
  <2>3. Fund = to => owed = 0
    BY DEF SaleInv, PledgesBooked, owed
  <2> QED
    BY <1>2, <2>2, <2>3
<1>6. SaleType'
  BY <1>1, <1>3, <1>5 DEF SaleInv, SaleType, setupVars
<1>7. DepositsCovered'
  <2>1. balances'[Fund] \in Int
    BY <1>2, <1>5
  <2> QED
    BY <1>1, <1>2, <1>3, <1>4, <1>5, <2>1 DEF SaleInv, DepositsCovered
<1>8. PledgesBooked'
  <2>1. pledged' = [pledged EXCEPT ![to] = @ + (-owed)]
    BY <1>1, <1>5
  <2>2. pledged = userDeposited /\ userDeposited[Fund] = 0
    BY DEF SaleInv, PledgesBooked
  <2>3. userDeposited[to] + (-owed) = 0
    BY <1>2 DEF owed
  <2>4. pledged' = userDeposited'
    BY <1>1, <2>1, <2>2, <2>3
  <2>5. userDeposited'[Fund] = 0
    BY <1>1, <1>2, <1>3, <2>2
  <2> QED
    BY <2>4, <2>5 DEF PledgesBooked
<1> QED
  BY <1>1, <1>5, <1>6, <1>7, <1>8 DEF SaleInv, ClaimNeedsSale, Initialized, setupVars

\* Nobody but the contract takes tokens from its balance.
LEMMA TokenCallRaises ==
  ASSUME SaleInv, TokenCall
  PROVE  /\ balances' \in [Accounts -> Nat] /\ SupplyHeld'
         /\ tokenAdmin' \in Operators \union {NoAdmin} /\ supply' \in 0 .. MaxSupply
         /\ balances'[Fund] >= balances[Fund]
         /\ UNCHANGED <<saleVars, archived, time>>
<1>1. /\ balances \in [Accounts -> Nat] /\ balances[Fund] \in Int /\ Fund \in Accounts
      /\ tokenAdmin \in Operators \union {NoAdmin} /\ supply \in 0 .. MaxSupply
      /\ SaleType /\ SupplyHeld
  BY CrowdfundAssumption DEF SaleInv, SaleType
<1>2. ASSUME NEW caller \in Operators, MockInitialize(caller)
      PROVE  /\ UNCHANGED <<balances, supply>> /\ tokenAdmin' \in Operators
  BY <1>2 DEF MockInitialize
<1>3. ASSUME NEW caller \in Operators, NEW to \in Accounts, NEW amount \in Int,
             MockMint(caller, to, amount)
      PROVE  /\ balances' \in [Accounts -> Nat] /\ SupplyHeld' /\ supply' \in 0 .. MaxSupply
             /\ balances'[Fund] >= balances[Fund] /\ UNCHANGED tokenAdmin
  <2>1. /\ balances' \in [Accounts -> Nat] /\ SupplyHeld' /\ supply' \in 0 .. MaxSupply
        /\ amount >= 0 /\ balances' = [balances EXCEPT ![to] = @ + amount]
    BY <1>1, <1>3, MintConserves
  <2>2. tokenAdmin' = tokenAdmin
    BY <1>3 DEF MockMint
  <2> QED
    BY <1>1, <2>1, <2>2
<1>4. ASSUME NEW from \in Accounts \ {Fund}, NEW to \in Accounts, NEW amount \in Int,
             MockTransfer(from, to, amount)
      PROVE  /\ balances' \in [Accounts -> Nat] /\ SupplyHeld'
             /\ balances'[Fund] >= balances[Fund] /\ UNCHANGED <<tokenAdmin, supply>>
  <2>1. /\ balances' \in [Accounts -> Nat] /\ SupplyHeld' /\ amount >= 0
        /\ UNCHANGED <<tokenAdmin, supply>>
        /\ from = to => balances' = balances
        /\ from # to => balances'[to] = balances[to] + amount
        /\ \A other \in Accounts \ {from, to} : balances'[other] = balances[other]
    BY <1>1, <1>4, MockTransferConserves
  <2> QED
    BY <1>1, <2>1
<1> QED
  BY <1>1, <1>2, <1>3, <1>4, TokenCallKinds DEF SupplyHeld

LEMMA TokenCallKeeps ==
  ASSUME SaleInv, TokenCall
  PROVE  SaleInv'
<1>1. /\ balances' \in [Accounts -> Nat] /\ SupplyHeld'
      /\ tokenAdmin' \in Operators \union {NoAdmin} /\ supply' \in 0 .. MaxSupply
      /\ balances'[Fund] >= balances[Fund]
      /\ UNCHANGED <<saleVars, archived, time>>
  BY TokenCallRaises
<1>2. SaleType'
  BY <1>1 DEF SaleInv, SaleType, saleVars, setupVars
<1>3. DepositsCovered'
  <2>1. /\ SumFunction(userDeposited) \in Int /\ balances[Fund] \in Int
        /\ balances'[Fund] \in Int
    <3>1. userDeposited \in [Accounts -> Int]
      BY DEF SaleInv, SaleType
    <3> QED
      BY <1>1, <3>1, SumFunctionType, CrowdfundAssumption DEF SaleInv, SaleType
  <2> QED
    BY <1>1, <2>1 DEF SaleInv, DepositsCovered, saleVars, setupVars
<1> QED
  BY <1>1, <1>2, <1>3 DEF SaleInv, ClaimNeedsSale, Initialized, PledgesBooked, saleVars, setupVars

LEMMA SaleInvNext ==
  ASSUME SaleInv, [Next]_vars
  PROVE  SaleInv'
<1>1. ASSUME NEW account \in Recipients, NEW end \in Deadlines, NEW goal \in Targets,
             Initialize(account, end, goal)
      PROVE  SaleInv'
  <2>1. ~recipientClaimed /\ recipientClaimed' = FALSE /\ recipient' = account
    BY <1>1 DEF Initialize, SaleInv, ClaimNeedsSale
  <2>2. deadline' \in Nat /\ target' \in Int
    BY <1>1, CrowdfundAssumption DEF Initialize
  <2>3. UNCHANGED <<userDeposited, pledged, tokenAdmin, balances, supply, archived, time>>
    BY <1>1 DEF Initialize, tokenVars
  <2>4. SaleType'
    BY <2>1, <2>2, <2>3 DEF SaleInv, SaleType
  <2> QED
    BY <2>1, <2>3, <2>4
       DEF SaleInv, SupplyHeld, ClaimNeedsSale, DepositsCovered, PledgesBooked
<1>2. ASSUME NEW user \in Donors, NEW amount \in DepositAmounts, Deposit(user, amount)
      PROVE  SaleInv'
  BY <1>2, DepositKeeps, CrowdfundAssumption
<1>3. CASE UNCHANGED <<tokenVars, saleVars>> /\ time' \in 0 .. MaxTime /\ archived' \in BOOLEAN
  BY <1>3 DEF SaleInv, SaleType, SupplyHeld, ClaimNeedsSale, Initialized, DepositsCovered,
              PledgesBooked, tokenVars, saleVars, setupVars
<1>4. CASE CloseLedger
  <2>1. time' \in 0 .. MaxTime
    BY <1>4, CrowdfundAssumption DEF CloseLedger, SaleInv, SaleType
  <2>2. archived' \in BOOLEAN
    BY <1>4, Zenon DEF CloseLedger, SaleInv, SaleType
  <2>3. UNCHANGED <<tokenVars, saleVars>>
    BY <1>4 DEF CloseLedger
  <2> QED
    BY <1>3, <2>1, <2>2, <2>3
<1>5. CASE Restore
  <2>1. archived' \in BOOLEAN
    BY <1>5, Zenon DEF Restore
  <2> QED
    BY <1>3, <1>5, <2>1 DEF Restore, SaleInv, SaleType
<1>6. CASE UNCHANGED vars
  BY <1>3, <1>6 DEF vars, SaleInv, SaleType
<1> QED
  BY <1>1, <1>2, <1>4, <1>5, <1>6, WithdrawSuccessKeeps, WithdrawExpiredKeeps, TokenCallKeeps
     DEF Next, Withdraw

LEMMA SaleInvCorrect == Spec => []SaleInv
  BY SaleInvInit, SaleInvNext, PTL DEF Spec

(***************************************************************************)
(* Every variable of the sale and its token keeps its type; in particular   *)
(* no balance exceeds what was minted, so that none overflows, because each *)
(* is a summand of the supply.                                              *)
(***************************************************************************)
THEOREM SaleTypeCorrect == Spec => []TypeOK
<1>1. ASSUME SaleInv PROVE TypeOK
  <2>1. balances \in [Accounts -> Nat] /\ supply \in 0 .. MaxSupply /\ MaxSupply \in Nat
    BY <1>1, MockAssumption DEF SaleInv, SaleType
  <2>2. \A account \in Accounts : balances[account] <= SumFunction(balances)
    BY <2>1, SumFunctionBounds, CrowdfundAssumption
  <2>3. balances \in [Accounts -> 0 .. MaxSupply]
    BY <1>1, <2>1, <2>2 DEF SaleInv, SupplyHeld
  <2> QED
    BY <1>1, <2>3 DEF SaleInv, SaleType, PledgesBooked, TypeOK
<1> QED
  BY <1>1, SaleInvCorrect, PTL

(***************************************************************************)
(* Deposits, gifts, mints and refunds in any order leave the contract with  *)
(* at least what it booked, for any number of donors, until it is claimed.  *)
(***************************************************************************)
THEOREM DepositsCoveredCorrect == Spec => []DepositsCovered
<1>1. SaleInv => DepositsCovered
  BY DEF SaleInv
<1> QED
  BY <1>1, SaleInvCorrect, PTL

-----------------------------------------------------------------------------
(***************************************************************************)
(* A sale that has succeeded stays so: before the claim only the claim      *)
(* takes tokens from the contract's balance, and the claim is remembered.   *)
(***************************************************************************)
THEOREM SuccessIsFinalCorrect == Spec => SuccessIsFinal
<1>1. ASSUME SaleInv, [Next]_vars, Initialized, State = "Success"
      PROVE  State' = "Success"
  <2>1. /\ time >= deadline /\ (recipientClaimed \/ balances[Fund] >= target)
        /\ time \in Nat /\ deadline \in Nat /\ target \in Int /\ balances[Fund] \in Int
    BY <1>1, CrowdfundAssumption DEF State, TargetReached, SaleInv, SaleType
  <2>2. \A account, end, goal : ~Initialize(account, end, goal)
    BY <1>1 DEF Initialize
  <2>3. \A user, amount : ~Deposit(user, amount)
    BY <1>1 DEF Deposit
  <2>4. \A to : ~WithdrawExpired(to)
    BY <1>1 DEF WithdrawExpired
  <2>5. ASSUME NEW to, WithdrawSuccess(to)
        PROVE  State' = "Success"
    BY <2>1, <2>5 DEF WithdrawSuccess, State, setupVars
  <2>6. CASE TokenCall
    <3>1. /\ UNCHANGED <<deadline, target, recipientClaimed, time>>
          /\ balances'[Fund] >= balances[Fund] /\ balances'[Fund] \in Int
      BY <1>1, <2>6, TokenCallRaises, CrowdfundAssumption DEF saleVars, setupVars
    <3> QED
      BY <2>1, <3>1 DEF State, TargetReached
  <2>7. CASE CloseLedger
    <3>1. time' = time + 1 /\ UNCHANGED <<deadline, target, recipientClaimed, balances>>
      BY <2>7 DEF CloseLedger, tokenVars, saleVars, setupVars
    <3> QED
      BY <2>1, <3>1 DEF State, TargetReached
  <2>8. CASE Restore \/ UNCHANGED vars
    <3>1. UNCHANGED <<time, deadline, target, recipientClaimed, balances>>
      BY <2>8 DEF Restore, vars, tokenVars, saleVars, setupVars
    <3> QED
      BY <1>1, <3>1 DEF State, TargetReached
  <2> QED
    BY <1>1, <2>2, <2>3, <2>4, <2>5, <2>6, <2>7, <2>8 DEF Next, Withdraw
<1> QED
  BY <1>1, SaleInvCorrect, PTL DEF Spec, SuccessIsFinal

-----------------------------------------------------------------------------
(***************************************************************************)
(* The refinement of ConservedSupply                                        *)
(***************************************************************************)

LEMMA TransferIsMove ==
  ASSUME SaleInv, NEW from \in Accounts, NEW to \in Accounts, NEW amount \in Int,
         MockTransfer(from, to, amount)
  PROVE  [Conserved!SupplyNext]_(Conserved!supplyVars)
<1>1. /\ balances \in [Accounts -> Nat]
      /\ balances[from] >= amount /\ amount >= 0
      /\ from = to => balances' = balances
      /\ from # to =>
           /\ balances' = [balances EXCEPT ![from] = @ - amount, ![to] = @ + amount]
           /\ balances'[from] = balances[from] - amount
      /\ supply' = supply
  BY MockTransferConserves DEF SaleInv, SaleType
<1>2. CASE from = to
  BY <1>1, <1>2 DEF Conserved!supplyVars
<1>3. CASE from # to
  <2> DEFINE paid == balances[from] - balances'[from]
  <2>1. paid = amount /\ amount \in 0 .. balances[from]
    BY <1>1, <1>3
  <2>2. Conserved!Move(from, to, Conserved!Given(from))
    BY <1>1, <1>3, <2>1 DEF Conserved!Move, Conserved!Given
  <2> QED
    BY <2>2 DEF Conserved!SupplyNext
<1> QED
  BY <1>2, <1>3

LEMMA SupplySteps ==
  ASSUME SaleInv, [Next]_vars
  PROVE  [Conserved!SupplyNext]_(Conserved!supplyVars)
<1>1. CASE UNCHANGED <<balances, supply>>
  BY <1>1 DEF Conserved!supplyVars
<1>2. ASSUME NEW caller, NEW to \in Accounts, NEW amount \in Int,
             MockMint(caller, to, amount)
      PROVE  Conserved!SupplyNext
  <2>1. /\ amount >= 0 /\ supply' = supply + amount /\ supply \in Int
        /\ balances' = [balances EXCEPT ![to] = @ + amount]
    BY <1>2, MintConserves DEF SaleInv, SaleType
  <2>2. supply' - supply = amount
    BY <2>1
  <2>3. Conserved!Issue(to)
    BY <2>1, <2>2 DEF Conserved!Issue
  <2> QED
    BY <2>3 DEF Conserved!SupplyNext
<1>3. CASE TokenCall
  <2>1. ASSUME NEW caller, MockInitialize(caller)
        PROVE  UNCHANGED <<balances, supply>>
    BY <2>1 DEF MockInitialize
  <2> QED
    BY <1>1, <1>2, <1>3, <2>1, TokenCallKinds, TransferIsMove
<1>4. ASSUME NEW user \in Donors, NEW amount \in DepositAmounts, Deposit(user, amount)
      PROVE  [Conserved!SupplyNext]_(Conserved!supplyVars)
  BY <1>4, TransferIsMove, CrowdfundAssumption DEF Deposit
<1>5. ASSUME NEW to \in Accounts, Withdraw(to)
      PROVE  [Conserved!SupplyNext]_(Conserved!supplyVars)
  <2>1. /\ balances[Fund] \in Int /\ userDeposited[to] \in Int /\ Fund \in Accounts
    BY CrowdfundAssumption DEF SaleInv, SaleType
  <2>2. MockTransfer(Fund, to, balances[Fund]) \/ MockTransfer(Fund, to, userDeposited[to])
    BY <1>5 DEF Withdraw, WithdrawSuccess, WithdrawExpired, PayOut, Refund
  <2> QED
    BY <2>1, <2>2, TransferIsMove
<1>6. \A account, end, goal : Initialize(account, end, goal) => UNCHANGED <<balances, supply>>
  BY DEF Initialize, tokenVars
<1>7. CloseLedger \/ Restore \/ UNCHANGED vars => UNCHANGED <<balances, supply>>
  BY DEF CloseLedger, Restore, vars, tokenVars
<1> QED
  BY <1>1, <1>3, <1>4, <1>5, <1>6, <1>7 DEF Next

(***************************************************************************)
(* The mock token implements ConservedSupply while the sale and others use   *)
(* it: what is minted is moved, never copied or lost, whoever the two ends  *)
(* of a transfer are, the sender itself included.                           *)
(***************************************************************************)
THEOREM TokensConservedCorrect == Spec => TokensConserved
<1>1. Init => Conserved!SupplyInit
  BY DEF Init, TokenInit, Conserved!SupplyInit
<1>2. SaleInv /\ [Next]_vars => [Conserved!SupplyNext]_(Conserved!supplyVars)
  BY SupplySteps
<1> QED
  BY <1>1, <1>2, SaleInvCorrect, PTL DEF Spec, TokensConserved, Conserved!SupplySpec
=============================================================================
