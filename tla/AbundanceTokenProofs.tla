------------------------ MODULE AbundanceTokenProofs ------------------------
(***************************************************************************)
(* The Abundance token for every value of its constants: an allowance lasts *)
(* as long as it was granted and no longer, and the contract implements     *)
(* FungibleLedger.  Both rest on what write_allowance leaves behind, which  *)
(* is stated once and used for approve and for every spend.                 *)
(***************************************************************************)
EXTENDS AbundanceToken, SumProofs

\* TypeOK, but for the sign of the supply, which takes the sum of all balances.
TokenType ==
  /\ tokenAdmin \in Users \union {NoAdmin}
  /\ decimal \in 0 .. U8_MAX
  /\ tokenBalances \in [Users -> 0 .. I128_MAX]
  /\ IsStore(allowances, Users \X Users, AllowanceValue)
  /\ IsStore(liveUntil, DOMAIN allowances, Nat)
  /\ DOMAIN liveUntil = DOMAIN allowances
  /\ now \in Ledgers
  /\ supply \in Int
  /\ grantedUntil \in [Users \X Users -> Ledgers]

\* The clock of the host runs behind the one of the allowance, and that one is
\* the owner's.
ClocksAgree ==
  \A pair \in DOMAIN allowances :
    allowances[pair].amount > 0 =>
      /\ liveUntil[pair] >= allowances[pair].expiration_ledger
      /\ allowances[pair].expiration_ledger <= grantedUntil[pair]

TokenInv == TokenType /\ ClocksAgree

-----------------------------------------------------------------------------
(***************************************************************************)
(* Reading and writing an allowance                                         *)
(***************************************************************************)

LEMMA ReadAllowanceType ==
  ASSUME TokenInv, NEW pair
  PROVE  /\ ReadAllowance(pair) \in AllowanceValue
         /\ ReadAllowance(pair).amount > 0 =>
              /\ pair \in DOMAIN allowances
              /\ ReadAllowance(pair) = allowances[pair]
              /\ now <= allowances[pair].expiration_ledger
<1>1. I128_MAX \in Nat /\ MaxLedger \in Nat
  BY TokenAssumption
<1>2. NoAllowance \in AllowanceValue /\ NoAllowance.amount = 0
  BY <1>1 DEF NoAllowance, AllowanceValue, Ledgers
<1>3. CASE ~Present(pair)
  BY <1>2, <1>3 DEF ReadAllowance
<1>4. CASE Present(pair)
  <2>1. pair \in DOMAIN allowances /\ allowances[pair] \in AllowanceValue
    BY <1>4 DEF Present, TokenInv, TokenType, IsStore
  <2>2. /\ allowances[pair].expiration_ledger \in Nat /\ now \in Nat
        /\ [allowances[pair] EXCEPT !.amount = 0] \in AllowanceValue
        /\ [allowances[pair] EXCEPT !.amount = 0].amount = 0
    BY <1>1, <2>1 DEF AllowanceValue, Ledgers, TokenInv, TokenType
  <2> QED
    BY <1>4, <2>1, <2>2 DEF ReadAllowance
<1> QED
  BY <1>3, <1>4

\* What write_allowance leaves, of its pair and of the others.
LEMMA WrittenAllowance ==
  ASSUME TokenInv, NEW pair \in Users \X Users,
         NEW amount \in 0 .. I128_MAX, NEW expiration \in Ledgers,
         WriteAllowance(pair, amount, expiration)
  PROVE  /\ IsStore(allowances', Users \X Users, AllowanceValue)
         /\ IsStore(liveUntil', DOMAIN allowances', Nat)
         /\ DOMAIN liveUntil' = DOMAIN allowances'
         /\ DOMAIN allowances' = DOMAIN allowances \union {pair}
         /\ allowances'[pair] = [amount |-> amount, expiration_ledger |-> expiration]
         /\ amount > 0 => expiration >= now /\ liveUntil'[pair] >= expiration
         /\ \A other \in DOMAIN allowances : other # pair =>
              /\ allowances'[other] = allowances[other]
              /\ liveUntil'[other] = liveUntil[other]
<1> DEFINE value == [amount |-> amount, expiration_ledger |-> expiration]
           until == IF Present(pair) THEN liveUntil[pair] ELSE now + MIN_TEMP_TTL
           kept  == Extended(pair, amount, until, expiration)
<1>1. now \in Nat /\ expiration \in Nat /\ amount \in Nat /\ MIN_TEMP_TTL \in Nat
  BY TokenAssumption DEF TokenInv, TokenType, Ledgers
<1>2. until \in Nat
  BY <1>1 DEF Present, TokenInv, TokenType, IsStore
<1>3. value \in AllowanceValue
  BY DEF AllowanceValue
<1>4. /\ amount > 0 => expiration >= now
      /\ allowances' = Put(allowances, pair, value)
      /\ liveUntil' = Put(liveUntil, pair, kept)
  BY DEF WriteAllowance
<1>5. kept \in Nat /\ (amount > 0 => kept >= expiration)
  <2> HIDE DEF until
  <2> QED
    BY <1>1, <1>2, <1>4 DEF Extended
<1>6. /\ DOMAIN allowances' = DOMAIN allowances \union {pair}
      /\ DOMAIN liveUntil' = DOMAIN allowances \union {pair}
      /\ allowances'[pair] = value /\ liveUntil'[pair] = kept
      /\ \A other \in DOMAIN allowances : other # pair =>
           /\ allowances'[other] = allowances[other]
           /\ liveUntil'[other] = liveUntil[other]
  <2> HIDE DEF value, kept
  <2> QED
    BY <1>4 DEF Put, TokenInv, TokenType
<1>7. IsStore(allowances', Users \X Users, AllowanceValue)
  <2> HIDE DEF value
  <2>1. allowances' = [k \in DOMAIN allowances' |-> allowances'[k]]
    BY <1>4 DEF Put
  <2> QED
    BY <1>3, <1>6, <2>1 DEF IsStore, TokenInv, TokenType
<1>8. IsStore(liveUntil', DOMAIN allowances', Nat)
  <2> HIDE DEF kept
  <2>1. liveUntil' = [k \in DOMAIN liveUntil' |-> liveUntil'[k]]
    BY <1>4 DEF Put
  <2> QED
    BY <1>5, <1>6, <2>1 DEF IsStore, TokenInv, TokenType
<1> QED
  BY <1>4, <1>5, <1>6, <1>7, <1>8

\* What is read after it, in the same ledger.
LEMMA ReadAfterWrite ==
  ASSUME TokenInv, NEW pair \in Users \X Users,
         NEW amount \in 0 .. I128_MAX, NEW expiration \in Ledgers,
         WriteAllowance(pair, amount, expiration), now' = now
  PROVE  /\ ReadAllowance(pair)'.amount = amount
         /\ \A other : other # pair => ReadAllowance(other)' = ReadAllowance(other)
<1>0. now \in Nat /\ expiration \in Nat /\ amount \in Nat
  BY DEF TokenInv, TokenType, Ledgers
<1>1. /\ DOMAIN allowances' = DOMAIN allowances \union {pair}
      /\ DOMAIN liveUntil' = DOMAIN allowances'
      /\ IsStore(liveUntil', DOMAIN allowances', Nat)
      /\ allowances'[pair] = [amount |-> amount, expiration_ledger |-> expiration]
      /\ amount > 0 => expiration >= now /\ liveUntil'[pair] >= expiration
      /\ \A other \in DOMAIN allowances : other # pair =>
           /\ allowances'[other] = allowances[other]
           /\ liveUntil'[other] = liveUntil[other]
  BY WrittenAllowance
<1>2. ReadAllowance(pair)'.amount = amount
  <2>1. liveUntil'[pair] \in Nat
    BY <1>1 DEF IsStore
  <2>2. /\ allowances'[pair].amount = amount
        /\ allowances'[pair].expiration_ledger = expiration
        /\ [allowances'[pair] EXCEPT !.amount = 0].amount = 0
    BY <1>1
  <2>3. CASE amount = 0
    BY <2>2, <2>3 DEF ReadAllowance, NoAllowance
  <2>4. CASE amount > 0
    <3>1. Present(pair)'
      BY <1>0, <1>1, <2>1, <2>4 DEF Present
    <3> QED
      BY <1>0, <1>1, <2>2, <2>4, <3>1 DEF ReadAllowance
  <2> QED
    BY <1>0, <2>3, <2>4
<1>3. ASSUME NEW other, other # pair
      PROVE  ReadAllowance(other)' = ReadAllowance(other)
  <2>1. other \in DOMAIN allowances' <=> other \in DOMAIN allowances
    BY <1>1, <1>3
  <2>2. CASE other \notin DOMAIN allowances
    BY <2>1, <2>2 DEF ReadAllowance, Present
  <2>3. CASE other \in DOMAIN allowances
    BY <1>1, <1>3, <2>1, <2>3 DEF ReadAllowance, Present
  <2> QED
    BY <2>2, <2>3
<1> QED
  BY <1>2, <1>3

\* spend_allowance writes what is left, to the same last ledger.
LEMMA SpentAllowance ==
  ASSUME TokenInv, NEW pair \in Users \X Users, NEW amount \in Nat,
         SpendAllowance(pair, amount)
  PROVE  LET read == ReadAllowance(pair)
         IN  /\ read \in AllowanceValue
             /\ read.amount - amount \in 0 .. I128_MAX
             /\ WriteAllowance(pair, read.amount - amount, read.expiration_ledger)
             /\ grantedUntil' = grantedUntil
<1> DEFINE read == ReadAllowance(pair)
<1>1. read \in AllowanceValue
  BY ReadAllowanceType
<1>2. /\ read.amount >= amount
      /\ WriteAllowance(pair, read.amount - amount, read.expiration_ledger)
      /\ grantedUntil' = grantedUntil
  BY DEF SpendAllowance
<1>3. read.amount \in 0 .. I128_MAX
  BY <1>1 DEF AllowanceValue
<1> HIDE DEF read
<1>4. read.amount - amount \in 0 .. I128_MAX
  BY <1>2, <1>3, TokenAssumption
<1> QED
  BY <1>1, <1>2, <1>4 DEF read

-----------------------------------------------------------------------------
(***************************************************************************)
(* The invariant                                                            *)
(***************************************************************************)

LEMMA TokenInvInit == Init => TokenInv
<1> SUFFICES ASSUME Init PROVE TokenInv
  OBVIOUS
<1>1. I128_MAX \in Nat /\ U8_MAX \in Nat /\ MaxLedger \in Nat
  BY TokenAssumption
<1>2. /\ IsStore(allowances, Users \X Users, AllowanceValue)
      /\ IsStore(liveUntil, DOMAIN allowances, Nat)
      /\ DOMAIN liveUntil = {} /\ DOMAIN allowances = {}
  BY DEF Init, IsStore, EmptyStore
<1>3. TokenType
  BY <1>1, <1>2 DEF Init, TokenType, Ledgers
<1> QED
  BY <1>2, <1>3 DEF TokenInv, ClocksAgree

\* A call that leaves the allowances alone only has to keep its own types.
LEMMA AllowancesUntouched ==
  ASSUME TokenInv, UNCHANGED allowanceVars,
         tokenAdmin' \in Users \union {NoAdmin}, decimal' \in 0 .. U8_MAX,
         tokenBalances' \in [Users -> 0 .. I128_MAX],
         now' \in Ledgers, supply' \in Int
  PROVE  TokenInv'
<1>1. UNCHANGED <<allowances, liveUntil, grantedUntil>>
  BY DEF allowanceVars
<1> QED
  BY <1>1 DEF TokenInv, TokenType, ClocksAgree

\* approve and the spends write one allowance that the owner's word bounds.
LEMMA AllowanceWritten ==
  ASSUME TokenInv, NEW pair \in Users \X Users,
         NEW amount \in 0 .. I128_MAX, NEW expiration \in Ledgers,
         WriteAllowance(pair, amount, expiration),
         grantedUntil' \in [Users \X Users -> Ledgers],
         \A other \in Users \X Users : other # pair => grantedUntil'[other] = grantedUntil[other],
         amount > 0 => expiration <= grantedUntil'[pair],
         UNCHANGED <<adminVars, now>>,
         tokenBalances' \in [Users -> 0 .. I128_MAX], supply' \in Int
  PROVE  TokenInv'
<1>1. /\ IsStore(allowances', Users \X Users, AllowanceValue)
      /\ IsStore(liveUntil', DOMAIN allowances', Nat)
      /\ DOMAIN liveUntil' = DOMAIN allowances'
      /\ DOMAIN allowances' = DOMAIN allowances \union {pair}
      /\ allowances'[pair] = [amount |-> amount, expiration_ledger |-> expiration]
      /\ amount > 0 => expiration >= now /\ liveUntil'[pair] >= expiration
      /\ \A other \in DOMAIN allowances : other # pair =>
           /\ allowances'[other] = allowances[other]
           /\ liveUntil'[other] = liveUntil[other]
  BY WrittenAllowance
<1>2. TokenType'
  BY <1>1 DEF TokenInv, TokenType, adminVars
<1>3. ClocksAgree'
  <2> SUFFICES ASSUME NEW any \in DOMAIN allowances', allowances'[any].amount > 0
               PROVE  /\ liveUntil'[any] >= allowances'[any].expiration_ledger
                      /\ allowances'[any].expiration_ledger <= grantedUntil'[any]
    BY DEF ClocksAgree
  <2>1. CASE any = pair
    BY <1>1, <2>1
  <2>2. CASE any # pair
    <3>1. any \in DOMAIN allowances /\ any \in Users \X Users
      BY <1>1, <2>2 DEF TokenInv, TokenType, IsStore
    <3> QED
      BY <1>1, <2>2, <3>1 DEF TokenInv, ClocksAgree
  <2> QED
    BY <2>1, <2>2
<1> QED
  BY <1>2, <1>3 DEF TokenInv

LEMMA SpendKeepsInv ==
  ASSUME TokenInv, NEW pair \in Users \X Users, NEW amount \in Nat,
         SpendAllowance(pair, amount), UNCHANGED <<adminVars, now>>,
         tokenBalances' \in [Users -> 0 .. I128_MAX], supply' \in Int
  PROVE  TokenInv'
<1> DEFINE read == ReadAllowance(pair)
<1>1. /\ read \in AllowanceValue
      /\ read.amount - amount \in 0 .. I128_MAX
      /\ WriteAllowance(pair, read.amount - amount, read.expiration_ledger)
      /\ grantedUntil' = grantedUntil
  BY SpentAllowance
<1>2. read.amount \in Nat /\ read.expiration_ledger \in Ledgers
  BY <1>1, TokenAssumption DEF AllowanceValue
<1>3. read.amount > 0 => read.expiration_ledger <= grantedUntil[pair]
  BY ReadAllowanceType DEF TokenInv, ClocksAgree
<1>4. read.amount - amount > 0 => read.amount > 0
  <2> HIDE DEF read
  <2> QED
    BY <1>2
<1>5. grantedUntil \in [Users \X Users -> Ledgers]
  BY DEF TokenInv, TokenType
<1> HIDE DEF read
<1> QED
  BY <1>1, <1>2, <1>3, <1>4, <1>5, AllowanceWritten

\* Balances stay within 0 .. I128_MAX.
LEMMA MovedBalancesType ==
  ASSUME TokenInv, NEW from \in Users, NEW to \in Users, NEW amount \in Int,
         MoveBalance(from, to, amount)
  PROVE  /\ tokenBalances' \in [Users -> 0 .. I128_MAX]
         /\ supply' \in Int
         /\ amount \in 0 .. tokenBalances[from]
         /\ tokenBalances' = IF from = to THEN tokenBalances
                             ELSE [tokenBalances EXCEPT ![from] = @ - amount, ![to] = @ + amount]
<1>1. /\ tokenBalances \in [Users -> 0 .. I128_MAX] /\ supply \in Int /\ I128_MAX \in Nat
      /\ tokenBalances[from] \in 0 .. I128_MAX /\ tokenBalances[to] \in 0 .. I128_MAX
  BY TokenAssumption DEF TokenInv, TokenType
<1>2. /\ amount >= 0 /\ tokenBalances[from] >= amount
      /\ from # to => tokenBalances[to] + amount <= I128_MAX
      /\ supply' = supply
      /\ tokenBalances' = [[tokenBalances EXCEPT ![from] = tokenBalances[from] - amount]
                             EXCEPT ![to] = @ + amount]
  BY DEF MoveBalance, CanTransfer, CanReceive, MovedBalances, Transfer
<1>3. CASE from = to
  <2>1. tokenBalances[from] - amount + amount = tokenBalances[from]
    BY <1>1
  <2>2. tokenBalances' = tokenBalances
    BY <1>1, <1>2, <1>3, <2>1
  <2> QED
    BY <1>1, <1>2, <1>3, <2>2
<1>4. CASE from # to
  <2>1. tokenBalances' = [tokenBalances EXCEPT ![from] = tokenBalances[from] - amount,
                                               ![to] = tokenBalances[to] + amount]
    BY <1>1, <1>2, <1>4
  <2>2. /\ tokenBalances[from] - amount \in 0 .. I128_MAX
        /\ tokenBalances[to] + amount \in 0 .. I128_MAX
    BY <1>1, <1>2, <1>4
  <2>3. tokenBalances' \in [Users -> 0 .. I128_MAX]
    BY <1>1, <2>1, <2>2
  <2>4. supply' \in Int /\ amount \in 0 .. tokenBalances[from]
    BY <1>1, <1>2
  <2> QED
    BY <1>4, <2>1, <2>3, <2>4, Zenon
<1> QED
  BY <1>3, <1>4

LEMMA BurntBalancesType ==
  ASSUME TokenInv, NEW from \in Users, NEW amount \in Int, BurnBalance(from, amount)
  PROVE  /\ tokenBalances' \in [Users -> 0 .. I128_MAX]
         /\ supply' \in Int /\ supply - supply' = amount
         /\ amount \in 0 .. tokenBalances[from]
         /\ tokenBalances' = [tokenBalances EXCEPT ![from] = @ - amount]
<1>1. /\ tokenBalances \in [Users -> 0 .. I128_MAX] /\ supply \in Int /\ I128_MAX \in Nat
      /\ tokenBalances[from] \in 0 .. I128_MAX
  BY TokenAssumption DEF TokenInv, TokenType
<1>2. /\ amount >= 0 /\ tokenBalances[from] >= amount /\ supply' = supply - amount
      /\ tokenBalances' = [tokenBalances EXCEPT ![from] = tokenBalances[from] - amount]
  BY DEF BurnBalance, CanTransfer
<1>3. tokenBalances[from] - amount \in 0 .. I128_MAX
  BY <1>1, <1>2
<1> QED
  BY <1>1, <1>2, <1>3

LEMMA MintedBalancesType ==
  ASSUME TokenInv, NEW to \in Users, NEW amount \in Int, Mint(to, amount)
  PROVE  /\ tokenBalances' \in [Users -> 0 .. I128_MAX]
         /\ supply' \in Int /\ supply' - supply = amount /\ amount >= 0
<1>1. /\ tokenBalances \in [Users -> 0 .. I128_MAX] /\ supply \in Int /\ I128_MAX \in Nat
      /\ tokenBalances[to] \in 0 .. I128_MAX
  BY TokenAssumption DEF TokenInv, TokenType
<1>2. /\ amount >= 0 /\ tokenBalances[to] + amount <= I128_MAX /\ supply' = supply + amount
      /\ tokenBalances' = [tokenBalances EXCEPT ![to] = tokenBalances[to] + amount]
  BY DEF Mint, CanReceive
<1>3. tokenBalances[to] + amount \in 0 .. I128_MAX
  BY <1>1, <1>2
<1> QED
  BY <1>1, <1>2, <1>3

LEMMA AdminCallInv ==
  ASSUME TokenInv, AdminCall
  PROVE  TokenInv'
<1>1. ASSUME NEW caller \in Users, NEW decimals \in Decimals, TokenInitialize(caller, decimals)
      PROVE  TokenInv'
  <2>1. tokenAdmin' \in Users \union {NoAdmin} /\ decimal' \in 0 .. U8_MAX
    BY <1>1, TokenAssumption DEF TokenInitialize
  <2>2. UNCHANGED <<tokenBalances, allowanceVars, now, supply>>
    BY <1>1 DEF TokenInitialize
  <2> QED
    BY <2>1, <2>2, AllowancesUntouched DEF TokenInv, TokenType
<1>2. ASSUME NEW caller \in Users, NEW account \in Users, SetAdmin(caller, account)
      PROVE  TokenInv'
  <2>1. tokenAdmin' \in Users \union {NoAdmin}
    BY <1>2 DEF SetAdmin
  <2>2. UNCHANGED <<decimal, tokenBalances, allowanceVars, now, supply>>
    BY <1>2 DEF SetAdmin
  <2> QED
    BY <2>1, <2>2, AllowancesUntouched DEF TokenInv, TokenType
<1> QED
  BY <1>1, <1>2 DEF AdminCall

LEMMA HolderCallInv ==
  ASSUME TokenInv, HolderCall
  PROVE  TokenInv'
<1>1. ASSUME NEW user \in Users, NEW amount \in Int, Mint(user, amount)
      PROVE  TokenInv'
  <2>1. UNCHANGED <<adminVars, allowanceVars, now>>
    BY <1>1 DEF Mint
  <2> QED
    BY <1>1, <2>1, MintedBalancesType, AllowancesUntouched DEF TokenInv, TokenType, adminVars
<1>2. ASSUME NEW user \in Users, NEW amount \in Int, Burn(user, amount)
      PROVE  TokenInv'
  <2>1. BurnBalance(user, amount) /\ UNCHANGED <<adminVars, allowanceVars, now>>
    BY <1>2 DEF Burn
  <2> QED
    BY <2>1, BurntBalancesType, AllowancesUntouched DEF TokenInv, TokenType, adminVars
<1>3. ASSUME NEW user \in Users, NEW to \in Users, NEW amount \in Int,
             TokenTransfer(user, to, amount)
      PROVE  TokenInv'
  <2>1. MoveBalance(user, to, amount) /\ UNCHANGED <<adminVars, allowanceVars, now>>
    BY <1>3 DEF TokenTransfer
  <2> QED
    BY <2>1, MovedBalancesType, AllowancesUntouched DEF TokenInv, TokenType, adminVars
<1>4. MintAmounts \subseteq Int /\ SpendAmounts \subseteq Int
  BY TokenAssumption
<1> QED
  BY <1>1, <1>2, <1>3, <1>4 DEF HolderCall

LEMMA ApproveInv ==
  ASSUME TokenInv, NEW from \in Users, NEW spender \in Users,
         NEW amount \in GrantAmounts, NEW expiration \in Ledgers,
         Approve(from, spender, amount, expiration)
  PROVE  /\ TokenInv'
         /\ amount \in 0 .. I128_MAX
         /\ WriteAllowance(<<from, spender>>, amount, expiration)
         /\ UNCHANGED <<tokenBalances, now, supply>>
<1> DEFINE pair == <<from, spender>>
<1>1. pair \in Users \X Users /\ amount \in 0 .. I128_MAX
  BY TokenAssumption DEF Approve
<1>2. /\ WriteAllowance(pair, amount, expiration)
      /\ grantedUntil' = [grantedUntil EXCEPT ![pair] = expiration]
      /\ UNCHANGED <<adminVars, tokenBalances, now, supply>>
  BY DEF Approve
<1>3. /\ grantedUntil \in [Users \X Users -> Ledgers] /\ expiration \in Nat
      /\ tokenBalances \in [Users -> 0 .. I128_MAX] /\ supply \in Int
  BY DEF TokenInv, TokenType, Ledgers
<1> HIDE DEF pair
<1>4. /\ grantedUntil' \in [Users \X Users -> Ledgers]
      /\ grantedUntil'[pair] = expiration
      /\ \A other \in Users \X Users : other # pair => grantedUntil'[other] = grantedUntil[other]
  BY <1>1, <1>2, <1>3
<1>5. TokenInv'
  BY <1>1, <1>2, <1>3, <1>4, AllowanceWritten
<1> QED
  BY <1>1, <1>2, <1>5 DEF pair

LEMMA AllowanceCallInv ==
  ASSUME TokenInv, AllowanceCall
  PROVE  TokenInv'
<1>1. /\ Owners \subseteq Users /\ Spenders \subseteq Users
      /\ SpendAmounts \subseteq Int /\ Expirations \subseteq Ledgers
  BY TokenAssumption
<1>2. ASSUME NEW from \in Users, NEW spender \in Users, NEW amount \in Int,
             BurnFrom(spender, from, amount)
      PROVE  TokenInv'
  <2>1. /\ amount \in Nat /\ <<from, spender>> \in Users \X Users
        /\ SpendAllowance(<<from, spender>>, amount)
        /\ BurnBalance(from, amount) /\ UNCHANGED <<adminVars, now>>
    BY <1>2 DEF BurnFrom
  <2>2. tokenBalances' \in [Users -> 0 .. I128_MAX] /\ supply' \in Int
    BY <2>1, BurntBalancesType
  <2> QED
    BY <2>1, <2>2, SpendKeepsInv
<1>3. ASSUME NEW from \in Users, NEW spender \in Users, NEW to \in Users, NEW amount \in Int,
             TransferFrom(spender, from, to, amount)
      PROVE  TokenInv'
  <2>1. /\ amount \in Nat /\ <<from, spender>> \in Users \X Users
        /\ SpendAllowance(<<from, spender>>, amount)
        /\ MoveBalance(from, to, amount) /\ UNCHANGED <<adminVars, now>>
    BY <1>3 DEF TransferFrom
  <2>2. tokenBalances' \in [Users -> 0 .. I128_MAX] /\ supply' \in Int
    BY <2>1, MovedBalancesType
  <2> QED
    BY <2>1, <2>2, SpendKeepsInv
<1> QED
  BY <1>1, <1>2, <1>3, ApproveInv DEF AllowanceCall

LEMMA TokenInvNext ==
  ASSUME TokenInv, [Next]_vars
  PROVE  TokenInv'
<1>1. CASE CloseLedger
  <2>1. now' \in Ledgers
    BY <1>1, TokenAssumption DEF CloseLedger, TokenInv, TokenType, Ledgers
  <2>2. UNCHANGED <<adminVars, tokenBalances, allowanceVars, supply>>
    BY <1>1 DEF CloseLedger
  <2> QED
    BY <2>1, <2>2, AllowancesUntouched DEF TokenInv, TokenType, adminVars
<1>2. CASE UNCHANGED vars
  <2>1. UNCHANGED <<adminVars, tokenBalances, allowanceVars, now, supply>>
    BY <1>2 DEF vars
  <2> QED
    BY <2>1, AllowancesUntouched DEF TokenInv, TokenType, adminVars
<1> QED
  BY <1>1, <1>2, AdminCallInv, HolderCallInv, AllowanceCallInv DEF Next

LEMMA TokenInvCorrect == Spec => []TokenInv
  BY TokenInvInit, TokenInvNext, PTL DEF Spec

(***************************************************************************)
(* An allowance with something left is there until its last ledger: the     *)
(* lifetime write_allowance gives the entry, and every spend writes anew,   *)
(* never ends before the allowance does.                                    *)
(***************************************************************************)
THEOREM AllowanceLastsCorrect == Spec => []AllowanceLasts
<1>1. ASSUME TokenInv PROVE AllowanceLasts
  <2> SUFFICES ASSUME NEW pair \in DOMAIN allowances, allowances[pair].amount > 0,
                      now <= allowances[pair].expiration_ledger
               PROVE  Present(pair)
    BY DEF AllowanceLasts
  <2>1. /\ liveUntil[pair] \in Nat /\ now \in Nat
        /\ allowances[pair].expiration_ledger \in Nat
    BY <1>1 DEF TokenInv, TokenType, IsStore, AllowanceValue, Ledgers
  <2>2. liveUntil[pair] >= allowances[pair].expiration_ledger
    BY <1>1 DEF TokenInv, ClocksAgree
  <2> QED
    BY <2>1, <2>2 DEF Present
<1> QED
  BY <1>1, TokenInvCorrect, PTL

(***************************************************************************)
(* No spend is possible after the ledger the owner named in the last        *)
(* approve: spend_allowance writes the allowance back with the same end.    *)
(***************************************************************************)
THEOREM NothingAfterExpiryCorrect == Spec => []NothingAfterExpiry
<1>1. ASSUME TokenInv PROVE NothingAfterExpiry
  <2> SUFFICES ASSUME NEW pair \in DOMAIN allowances, ReadAllowance(pair).amount > 0
               PROVE  now <= grantedUntil[pair]
    BY DEF NothingAfterExpiry
  <2>1. /\ now \in Nat /\ grantedUntil[pair] \in Nat
        /\ allowances[pair].expiration_ledger \in Nat
    BY <1>1 DEF TokenInv, TokenType, IsStore, AllowanceValue, Ledgers
  <2>2. /\ ReadAllowance(pair) = allowances[pair]
        /\ now <= allowances[pair].expiration_ledger
    BY <1>1, ReadAllowanceType
  <2>3. allowances[pair].expiration_ledger <= grantedUntil[pair]
    BY <1>1, <2>2 DEF TokenInv, ClocksAgree
  <2> QED
    BY <2>1, <2>2, <2>3
<1> QED
  BY <1>1, TokenInvCorrect, PTL

-----------------------------------------------------------------------------
(***************************************************************************)
(* The refinement of FungibleLedger                                         *)
(***************************************************************************)

\* The budget of the abstract ledger: what each pair reads.
Budget == [owner \in Users |-> [spender \in Users |->
             ReadAllowance(<<owner, spender>>).amount]]

LEMMA BudgetType ==
  ASSUME TokenInv
  PROVE  /\ Budget \in [Users -> [Users -> Nat]]
         /\ tokenBalances \in [Users -> Nat] /\ supply \in Int
<1>1. \A owner, spender \in Users : ReadAllowance(<<owner, spender>>).amount \in Nat
  BY ReadAllowanceType, TokenAssumption DEF AllowanceValue
<1>2. Budget \in [Users -> [Users -> Nat]]
  BY <1>1 DEF Budget
<1>3. tokenBalances \in [Users -> Nat] /\ supply \in Int
  BY TokenAssumption DEF TokenInv, TokenType
<1> QED
  BY <1>2, <1>3

\* A call that writes one allowance changes one budget.
LEMMA BudgetWritten ==
  ASSUME TokenInv, NEW owner \in Users, NEW spender \in Users,
         NEW amount \in 0 .. I128_MAX, NEW expiration \in Ledgers,
         WriteAllowance(<<owner, spender>>, amount, expiration), now' = now
  PROVE  Budget' = [Budget EXCEPT ![owner][spender] = amount]
<1>1. ReadAllowance(<<owner, spender>>)'.amount = amount
  BY ReadAfterWrite
<1>2. \A any \in Users, other \in Users : <<any, other>> # <<owner, spender>> =>
        ReadAllowance(<<any, other>>)' = ReadAllowance(<<any, other>>)
  BY ReadAfterWrite
<1>3. \A any \in Users, other \in Users :
        ReadAllowance(<<any, other>>)'.amount =
          IF any = owner /\ other = spender THEN amount
          ELSE ReadAllowance(<<any, other>>).amount
  BY <1>1, <1>2
<1>4. Budget' = [any \in Users |-> [other \in Users |->
                  IF any = owner /\ other = spender THEN amount
                  ELSE ReadAllowance(<<any, other>>).amount]]
  BY <1>3 DEF Budget
<1> QED
  BY <1>4 DEF Budget

\* A call that writes none, in the same ledger, changes none.
LEMMA BudgetUntouched ==
  ASSUME UNCHANGED <<allowanceVars, now>>
  PROVE  Budget' = Budget
  BY DEF allowanceVars, Budget, ReadAllowance, Present

\* Time takes a budget away or leaves it.
LEMMA BudgetLapses ==
  ASSUME TokenInv, CloseLedger
  PROVE  \A owner, spender \in Users :
           Budget'[owner][spender] \in {Budget[owner][spender], 0}
<1> SUFFICES ASSUME NEW owner \in Users, NEW spender \in Users
             PROVE  Budget'[owner][spender] \in {Budget[owner][spender], 0}
  OBVIOUS
<1> DEFINE pair == <<owner, spender>>
<1>1. /\ allowances' = allowances /\ liveUntil' = liveUntil
      /\ now' = now + 1 /\ now \in Nat
  BY DEF CloseLedger, allowanceVars, TokenInv, TokenType, Ledgers
<1>2. /\ Budget[owner][spender] = ReadAllowance(pair).amount
      /\ Budget'[owner][spender] = ReadAllowance(pair)'.amount
  BY DEF Budget
<1>3. CASE ~Present(pair)'
  BY <1>2, <1>3 DEF ReadAllowance, NoAllowance
<1>4. CASE Present(pair)'
  <2>1. /\ pair \in DOMAIN allowances /\ liveUntil[pair] \in Nat
        /\ allowances[pair].expiration_ledger \in Nat
        /\ allowances[pair] \in AllowanceValue
    BY <1>1, <1>4 DEF Present, TokenInv, TokenType, IsStore, AllowanceValue, Ledgers
  <2>2. Present(pair)
    BY <1>1, <1>4, <2>1 DEF Present
  <2>3. [allowances[pair] EXCEPT !.amount = 0].amount = 0
    BY <2>1 DEF AllowanceValue
  <2>4. CASE allowances[pair].expiration_ledger < now + 1
    BY <1>1, <1>2, <1>4, <2>3, <2>4 DEF ReadAllowance
  <2>5. CASE ~(allowances[pair].expiration_ledger < now + 1)
    <3>1. ReadAllowance(pair)' = allowances[pair]
      BY <1>1, <1>4, <2>5 DEF ReadAllowance
    <3>2. ReadAllowance(pair) = allowances[pair]
      BY <1>1, <2>1, <2>2, <2>5 DEF ReadAllowance
    <3> QED
      BY <1>2, <3>1, <3>2
  <2> QED
    BY <2>4, <2>5
<1> QED
  BY <1>3, <1>4

LEMMA LedgerInitially == Init => Ledger!LedgerInit
<1> SUFFICES ASSUME Init PROVE Ledger!LedgerInit
  OBVIOUS
<1>1. \A pair : ReadAllowance(pair).amount = 0
  BY DEF Init, EmptyStore, ReadAllowance, Present, NoAllowance
<1> QED
  BY <1>1 DEF Init, Ledger!LedgerInit, Ledger!SupplyInit

\* What the spends do to owner, spender and supply is a draw on the budget.
LEMMA SpendIsDraw ==
  ASSUME TokenInv, NEW owner \in Users, NEW spender \in Users, NEW amount \in Nat,
         SpendAllowance(<<owner, spender>>, amount), now' = now, signer' = spender,
         \/ \E to \in Users : Ledger!Move(owner, to, amount)
         \/ Ledger!Retire(owner) /\ supply - supply' = amount
  PROVE  Ledger!Draw(owner, spender)
<1> DEFINE read == ReadAllowance(<<owner, spender>>)
           left == read.amount - amount
<1>1. /\ read \in AllowanceValue /\ left \in 0 .. I128_MAX
      /\ WriteAllowance(<<owner, spender>>, left, read.expiration_ledger)
  BY SpentAllowance
<1>2. Budget' = [Budget EXCEPT ![owner][spender] = left]
  BY <1>1, BudgetWritten DEF AllowanceValue
<1>3. Budget \in [Users -> [Users -> Nat]] /\ Budget[owner][spender] = read.amount
  BY BudgetType DEF Budget
<1>4. read.amount \in Nat /\ left \in Nat
  BY <1>1, TokenAssumption DEF AllowanceValue
<1> HIDE DEF read
<1>5. /\ Budget'[owner][spender] = left
      /\ Budget[owner][spender] - Budget'[owner][spender] = amount
      /\ left = read.amount - amount
  BY <1>2, <1>3, <1>4
<1>6. Budget[owner][spender] - amount = left
  BY <1>3
<1> HIDE DEF left
<1> DEFINE used == Budget[owner][spender] - Budget'[owner][spender]
<1>7. /\ used >= 0 /\ Budget'[owner][spender] >= 0
      /\ Budget' = [Budget EXCEPT ![owner][spender] = Budget[owner][spender] - used]
      /\ \/ \E to \in Users : Ledger!Move(owner, to, used)
         \/ Ledger!Retire(owner) /\ supply - supply' = used
  <2>1. used = amount /\ amount >= 0 /\ Budget'[owner][spender] >= 0
    BY <1>4, <1>5
  <2>2. Budget' = [Budget EXCEPT ![owner][spender] = Budget[owner][spender] - used]
    BY <1>2, <1>6, <2>1
  <2> HIDE DEF used
  <2> QED
    BY <2>1, <2>2
<1> QED
  BY <1>7, Zenon DEF Ledger!Draw, Budget

LEMMA MovesAreMoves ==
  ASSUME TokenInv, NEW from \in Users, NEW to \in Users, NEW amount \in Int,
         MoveBalance(from, to, amount)
  PROVE  /\ Ledger!Move(from, to, amount)
         /\ Ledger!Move(from, to, Ledger!Given(from))
<1>1. /\ amount \in 0 .. tokenBalances[from]
      /\ tokenBalances' = IF from = to THEN tokenBalances
                          ELSE [tokenBalances EXCEPT ![from] = @ - amount, ![to] = @ + amount]
  BY MovedBalancesType
<1>2. tokenBalances \in [Users -> Nat] /\ supply' = supply
  BY BudgetType DEF MoveBalance
<1>3. Ledger!Move(from, to, amount)
  BY <1>1, <1>2 DEF Ledger!Move
<1>4. CASE from = to
  <2>1. Ledger!Given(from) = 0
    BY <1>1, <1>2, <1>4 DEF Ledger!Given
  <2> QED
    BY <1>1, <1>2, <1>3, <1>4, <2>1 DEF Ledger!Move
<1>5. CASE from # to
  <2>1. Ledger!Given(from) = amount
    BY <1>1, <1>2, <1>5 DEF Ledger!Given
  <2> QED
    BY <1>3, <2>1
<1> QED
  BY <1>3, <1>4, <1>5

LEMMA HolderCallSteps ==
  ASSUME TokenInv, HolderCall
  PROVE  Ledger!LedgerNext
<1>0. Budget' = Budget
  BY BudgetUntouched DEF HolderCall, Mint, Burn, TokenTransfer
<1>1. ASSUME NEW user \in Users, NEW amount \in Int, Mint(user, amount)
      PROVE  signer' = user /\ Ledger!Issue(user)
  <2>1. supply' - supply = amount /\ amount >= 0
    BY <1>1, MintedBalancesType
  <2>2. tokenBalances' = [tokenBalances EXCEPT ![user] = tokenBalances[user] + amount]
    BY <1>1 DEF Mint
  <2>3. signer' = user
    BY <1>1 DEF Mint
  <2> QED
    BY <2>1, <2>2, <2>3 DEF Ledger!Issue
<1>2. ASSUME NEW user \in Users, NEW amount \in Int, Burn(user, amount)
      PROVE  signer' = user /\ Ledger!Retire(user)
  BY <1>2, BurntBalancesType DEF Burn, Ledger!Retire
<1>3. ASSUME NEW user \in Users, NEW to \in Users, NEW amount \in Int,
             TokenTransfer(user, to, amount)
      PROVE  signer' = user /\ Ledger!Move(user, to, Ledger!Given(user))
  BY <1>3, MovesAreMoves DEF TokenTransfer
<1>4. MintAmounts \subseteq Int /\ SpendAmounts \subseteq Int
  BY TokenAssumption
<1>5. \E user \in Users :
        /\ signer' = user
        /\ \/ Ledger!Issue(user)
           \/ Ledger!Retire(user)
           \/ \E to \in Users : Ledger!Move(user, to, Ledger!Given(user))
  BY <1>1, <1>2, <1>3, <1>4 DEF HolderCall
<1>6. \E user \in Users : Ledger!OwnTokens(user)
  BY <1>0, <1>5, Zenon DEF Ledger!OwnTokens, Budget
<1> QED
  BY <1>6 DEF Ledger!LedgerNext

LEMMA AllowanceCallSteps ==
  ASSUME TokenInv, AllowanceCall
  PROVE  Ledger!LedgerNext
<1>1. /\ Owners \subseteq Users /\ Spenders \subseteq Users
      /\ SpendAmounts \subseteq Int /\ Expirations \subseteq Ledgers
  BY TokenAssumption
<1>2. ASSUME NEW from \in Users, NEW spender \in Users,
             NEW amount \in GrantAmounts, NEW expiration \in Ledgers,
             Approve(from, spender, amount, expiration)
      PROVE  Ledger!Grant(from, spender)
  <2>1. /\ amount \in 0 .. I128_MAX
        /\ WriteAllowance(<<from, spender>>, amount, expiration)
        /\ UNCHANGED <<tokenBalances, now, supply>> /\ signer' = from
    BY <1>2, ApproveInv DEF Approve
  <2>2. Budget' = [Budget EXCEPT ![from][spender] = amount]
    BY <2>1, BudgetWritten
  <2>3. Budget'[from][spender] = amount /\ amount >= 0
    BY <2>1, <2>2, BudgetType
  <2>4. /\ Budget'[from][spender] >= 0
        /\ Budget' = [Budget EXCEPT ![from][spender] = Budget'[from][spender]]
    BY <2>2, <2>3
  <2> QED
    BY <2>1, <2>4, Zenon DEF Ledger!Grant, Ledger!supplyVars, Budget
<1>3. ASSUME NEW from \in Users, NEW spender \in Users, NEW amount \in Int,
             BurnFrom(spender, from, amount)
      PROVE  Ledger!Draw(from, spender)
  <2>1. /\ amount \in Nat /\ SpendAllowance(<<from, spender>>, amount)
        /\ BurnBalance(from, amount) /\ now' = now /\ signer' = spender
    BY <1>3 DEF BurnFrom
  <2>2. Ledger!Retire(from) /\ supply - supply' = amount
    BY <2>1, BurntBalancesType DEF Ledger!Retire
  <2> QED
    BY <2>1, <2>2, SpendIsDraw
<1>4. ASSUME NEW from \in Users, NEW spender \in Users, NEW to \in Users, NEW amount \in Int,
             TransferFrom(spender, from, to, amount)
      PROVE  Ledger!Draw(from, spender)
  <2>1. /\ amount \in Nat /\ SpendAllowance(<<from, spender>>, amount)
        /\ MoveBalance(from, to, amount) /\ now' = now /\ signer' = spender
    BY <1>4 DEF TransferFrom
  <2>2. Ledger!Move(from, to, amount)
    BY <2>1, MovesAreMoves
  <2> QED
    BY <2>1, <2>2, SpendIsDraw
<1>5. \E owner, spender \in Users : Ledger!Grant(owner, spender) \/ Ledger!Draw(owner, spender)
  BY <1>1, <1>2, <1>3, <1>4 DEF AllowanceCall
<1> QED
  BY <1>5, Zenon DEF Ledger!LedgerNext

LEMMA LedgerSteps ==
  ASSUME TokenInv, [Next]_vars
  PROVE  [Ledger!LedgerNext]_(Ledger!ledgerVars)
<1>1. CASE AdminCall
  <2>1. UNCHANGED <<tokenBalances, allowanceVars, now, supply>>
    BY <1>1 DEF AdminCall, TokenInitialize, SetAdmin
  <2>2. Budget' = Budget
    BY <2>1, BudgetUntouched
  <2> QED
    BY <2>1, <2>2, Zenon DEF Ledger!ledgerVars, Budget
<1>2. CASE CloseLedger
  <2>1. \A owner, spender \in Users :
          Budget'[owner][spender] \in {Budget[owner][spender], 0}
    BY <1>2, BudgetLapses
  <2>2. UNCHANGED <<tokenBalances, supply>> /\ signer' \notin Users
    BY <1>2, TokenAssumption DEF CloseLedger
  <2>3. Ledger!Lapse
    BY <2>1, <2>2, Zenon DEF Ledger!Lapse, Ledger!supplyVars, Budget
  <2> QED
    BY <2>3 DEF Ledger!LedgerNext
<1>3. CASE UNCHANGED vars
  <2>1. UNCHANGED <<tokenBalances, allowanceVars, now, supply>>
    BY <1>3 DEF vars
  <2>2. Budget' = Budget
    BY <2>1, BudgetUntouched
  <2> QED
    BY <2>1, <2>2, Zenon DEF Ledger!ledgerVars, Budget
<1> QED
  BY <1>1, <1>2, <1>3, HolderCallSteps, AllowanceCallSteps DEF Next

(***************************************************************************)
(* The token implements FungibleLedger: whatever holders and spenders do,   *)
(* tokens are issued, retired and moved, never copied or lost, a transfer   *)
(* to oneself included; an owner's tokens leave it in a step it signed, or  *)
(* in one a spender signed that takes as much from the allowance the owner  *)
(* signed for that spender; and no allowance changes in any other way but   *)
(* by lapsing.                                                              *)
(***************************************************************************)
THEOREM LedgerImplemented == Spec => ImplementsLedger
<1>1. Init => Ledger!LedgerInit
  BY LedgerInitially
<1>2. TokenInv /\ [Next]_vars => [Ledger!LedgerNext]_(Ledger!ledgerVars)
  BY LedgerSteps
<1> QED
  BY <1>1, <1>2, TokenInvCorrect, PTL DEF Spec, ImplementsLedger, Ledger!LedgerSpec

-----------------------------------------------------------------------------
(***************************************************************************)
(* The supply                                                               *)
(***************************************************************************)

\* Every token that was minted and not burnt is somebody's.
SupplyHeld == SumFunction(tokenBalances) = supply

(***************************************************************************)
(* A step of FungibleLedger moves the sum of the holdings as it moves the   *)
(* supply.  It is all that is needed: whatever else changes, the holdings   *)
(* and the supply take no other steps.                                      *)
(***************************************************************************)
LEMMA LedgerStepsHold ==
  ASSUME TokenInv, TokenInv', SupplyHeld, [Ledger!LedgerNext]_(Ledger!ledgerVars)
  PROVE  SupplyHeld'
<1>1. /\ tokenBalances \in [Users -> Int] /\ tokenBalances' \in [Users -> Int]
      /\ supply \in Int /\ supply' \in Int /\ IsFiniteSet(Users)
  BY TokenAssumption DEF TokenInv, TokenType
<1>2. CASE UNCHANGED <<tokenBalances, supply>>
  BY <1>2 DEF SupplyHeld
<1>3. ASSUME NEW holder \in Users,
             tokenBalances'[holder] - tokenBalances[holder] = supply' - supply,
             \A x \in Users \ {holder} : tokenBalances'[x] = tokenBalances[x]
      PROVE  SupplyHeld'
  <2>1. SumFunction(tokenBalances')
          = SumFunction(tokenBalances) + (tokenBalances'[holder] - tokenBalances[holder])
    BY <1>1, <1>3, SumFunctionChanges
  <2>2. SumFunction(tokenBalances') = supply'
    BY <1>1, <1>3, <2>1 DEF SupplyHeld
  <2> QED
    BY <2>2 DEF SupplyHeld
<1>4. ASSUME NEW to \in Users, Ledger!Issue(to)
      PROVE  SupplyHeld'
  <2>1. tokenBalances' = [tokenBalances EXCEPT ![to] = @ + (supply' - supply)]
    BY <1>4 DEF Ledger!Issue
  <2>2. tokenBalances'[to] = tokenBalances[to] + (supply' - supply)
    BY <1>1, <2>1
  <2>3. tokenBalances'[to] - tokenBalances[to] = supply' - supply
    BY <1>1, <2>2
  <2>4. \A x \in Users \ {to} : tokenBalances'[x] = tokenBalances[x]
    BY <1>1, <2>1
  <2> QED
    BY <1>3, <2>3, <2>4
<1>5. ASSUME NEW from \in Users, Ledger!Retire(from)
      PROVE  SupplyHeld'
  <2>1. tokenBalances' = [tokenBalances EXCEPT ![from] = @ - (supply - supply')]
    BY <1>5 DEF Ledger!Retire
  <2>2. tokenBalances'[from] = tokenBalances[from] - (supply - supply')
    BY <1>1, <2>1
  <2>3. tokenBalances'[from] - tokenBalances[from] = supply' - supply
    BY <1>1, <2>2
  <2>4. \A x \in Users \ {from} : tokenBalances'[x] = tokenBalances[x]
    BY <1>1, <2>1
  <2> QED
    BY <1>3, <2>3, <2>4
<1>6. ASSUME NEW from \in Users, NEW to \in Users, NEW amount, Ledger!Move(from, to, amount)
      PROVE  SupplyHeld'
  <2>1. CASE from = to
    BY <1>2, <1>6, <2>1 DEF Ledger!Move
  <2>2. CASE from # to
    <3>1. /\ amount \in Int /\ supply' = supply
          /\ tokenBalances' = [tokenBalances EXCEPT ![from] = @ - amount, ![to] = @ + amount]
      BY <1>1, <1>6, <2>2 DEF Ledger!Move
    <3>2. /\ tokenBalances'[from] + tokenBalances'[to] = tokenBalances[from] + tokenBalances[to]
          /\ \A x \in Users \ {from, to} : tokenBalances'[x] = tokenBalances[x]
      BY <1>1, <2>2, <3>1
    <3>3. SumFunction(tokenBalances') = SumFunction(tokenBalances)
      BY <1>1, <2>2, <3>2, SumFunctionMoves
    <3> QED
      BY <3>1, <3>3 DEF SupplyHeld
  <2> QED
    BY <2>1, <2>2
<1>7. CASE UNCHANGED Ledger!ledgerVars
  BY <1>2, <1>7 DEF Ledger!ledgerVars
<1> QED
  BY <1>2, <1>4, <1>5, <1>6, <1>7
     DEF Ledger!LedgerNext, Ledger!OwnTokens, Ledger!Grant, Ledger!Draw, Ledger!Lapse,
         Ledger!supplyVars

LEMMA SupplyHeldCorrect == Spec => []SupplyHeld
<1>1. Init => SupplyHeld
  <2>1. SumFunction([user \in Users |-> 0]) = 0
    BY SumFunctionZero, TokenAssumption
  <2> QED
    BY <2>1 DEF Init, SupplyHeld
<1>2. TokenInv /\ TokenInv' /\ SupplyHeld /\ [Next]_vars => SupplyHeld'
  BY LedgerSteps, LedgerStepsHold
<1> QED
  BY <1>1, <1>2, TokenInvCorrect, PTL DEF Spec

\* The last signer is a user or nobody, whatever was called.
SignerKnown == signer \in Users \union {Nobody}

LEMMA SignerKnownCorrect == Spec => []SignerKnown
<1>1. Init => SignerKnown
  BY DEF Init, SignerKnown
<1>2. SignerKnown /\ [Next]_vars => SignerKnown'
  <2>1. Owners \subseteq Users /\ Spenders \subseteq Users
    BY TokenAssumption
  <2> QED
    BY <2>1 DEF SignerKnown, Next, AdminCall, HolderCall, AllowanceCall, CloseLedger, vars,
         TokenInitialize, SetAdmin, Mint, Burn, TokenTransfer, Approve, BurnFrom, TransferFrom
<1> QED
  BY <1>1, <1>2, PTL DEF Spec

(***************************************************************************)
(* Every variable of the token keeps its type; in particular burns never    *)
(* exceed mints, since whoever burns holds what is burnt.                   *)
(***************************************************************************)
THEOREM TokenTypeCorrect == Spec => []TypeOK
<1>1. ASSUME TokenInv, SupplyHeld, SignerKnown PROVE TypeOK
  <2>1. tokenBalances \in [Users -> Nat] /\ tokenBalances \in [Users -> Int]
    BY <1>1, TokenAssumption DEF TokenInv, TokenType
  <2>2. 0 <= SumFunction(tokenBalances)
    BY <2>1, SumFunctionNatural, TokenAssumption
  <2>3. supply \in Nat
    BY <1>1, <2>2 DEF TokenInv, TokenType, SupplyHeld
  <2> QED
    BY <1>1, <2>3 DEF TokenInv, TokenType, SignerKnown, TypeOK
<1> QED
  BY <1>1, SupplyHeldCorrect, TokenInvCorrect, SignerKnownCorrect, PTL
=============================================================================
