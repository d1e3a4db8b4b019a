------------------------------ MODULE SumProofs ------------------------------
(***************************************************************************)
(* Sums over finite sets: what SumFunction and SumFunctionOnSet of the      *)
(* community modules, which the properties on funds are stated with, do to  *)
(* integers.  SumFunctionOnSet is a CHOSEN solution of a recursive equation *)
(* over the subsets of the set; that the equation has a solution comes      *)
(* first.  Induction is over sets of numbers and sets of sets, so that no   *)
(* theorem with an operator parameter is needed.                            *)
(***************************************************************************)
EXTENDS Integers, Functions, FiniteSetTheorems, TLAPS

(***************************************************************************)
(* Induction on the naturals, for a set.  A number m outside S would make   *)
(* n |-> n + 1 an injection of the finite set of the smaller members of S   *)
(* into itself without 0, against the pigeonhole principle.                 *)
(***************************************************************************)
LEMMA SetInduction ==
  ASSUME NEW S, 0 \in S, \A n \in Nat : n \in S => n + 1 \in S
  PROVE  Nat \subseteq S
<1> SUFFICES ASSUME NEW m \in Nat, m \notin S
             PROVE  FALSE
  OBVIOUS
<1> DEFINE T == S \intersect (0 .. m)
           rest == T \ {0}
           next == [n \in T |-> n + 1]
<1>1. IsFiniteSet(T)
  <2>1. IsFiniteSet(0 .. m)
    BY FS_Interval
  <2> QED
    BY <2>1, FS_Subset
<1>2. 0 \in T
  OBVIOUS
<1>3. /\ IsFiniteSet(rest) /\ Cardinality(rest) = Cardinality(T) - 1
      /\ Cardinality(T) \in Nat
  BY <1>1, <1>2, FS_RemoveElement, FS_CardinalityType
<1>4. next \in [T -> rest]
  OBVIOUS
<1>5. \A x, y \in T : next[x] = next[y] => x = y
  OBVIOUS
<1> HIDE DEF T, rest, next
<1>6. next \in Injection(T, rest)
  BY <1>4, <1>5 DEF Injection, IsInjective
<1>7. Cardinality(T) <= Cardinality(rest)
  BY <1>3, <1>6, FS_Injection
<1> QED
  BY <1>3, <1>7

-----------------------------------------------------------------------------
\* The element the library's fold takes out of a set first.
Pick(s) == CHOOSE x \in s : TRUE

\* What the fold of a set is, given the folds of the smaller ones.
SumStep(g, fun, s) == IF s = {} THEN 0 ELSE fun[Pick(s)] + g[s \ {Pick(s)}]

\* Such a function on all the subsets of S.
IsSum(g, fun, S) == g = [s \in SUBSET S |-> SumStep(g, fun, s)]

\* The fold of every subset of S, as the library defines it.
PartSums(fun, S) == CHOOSE g : IsSum(g, fun, S)

\* The library's definition in these terms.
LEMMA SumUnfolded ==
  ASSUME NEW fun, NEW S
  PROVE  SumFunctionOnSet(fun, S) = PartSums(fun, S)[S]
  BY DEF SumFunctionOnSet, FoldFunctionOnSet, MapThenFoldSet, PartSums, IsSum, SumStep, Pick

\* Taking the picked element away leaves a smaller set.
LEMMA PickSmaller ==
  ASSUME NEW S, IsFiniteSet(S), NEW s \in SUBSET S, s # {}
  PROVE  /\ Pick(s) \in s /\ s \ {Pick(s)} \in SUBSET S
         /\ Cardinality(s) \in Nat /\ Cardinality(s) >= 1
         /\ Cardinality(s \ {Pick(s)}) = Cardinality(s) - 1
<1>1. Pick(s) \in s
  BY DEF Pick
<1>2. IsFiniteSet(s)
  BY FS_Subset
<1>3. Cardinality(s) \in Nat /\ Cardinality(s) # 0
  BY <1>2, FS_CardinalityType, FS_EmptySet
<1>4. Cardinality(s \ {Pick(s)}) = Cardinality(s) - 1
  BY <1>1, <1>2, FS_RemoveElement
<1> QED
  BY <1>1, <1>3, <1>4

(***************************************************************************)
(* The recursive equation has a solution: one that is right for the sets of *)
(* at most n elements gives one that is right for n + 1.                    *)
(***************************************************************************)
LEMMA SumExists ==
  ASSUME NEW S, IsFiniteSet(S), NEW fun, \A x \in S : fun[x] \in Int
  PROVE  \E g \in [SUBSET S -> Int] : IsSum(g, fun, S)
<1> DEFINE SumsUpTo(g, n) ==
             \A s \in SUBSET S : Cardinality(s) <= n => g[s] = SumStep(g, fun, s)
           Reached == {n \in Nat : \E g \in [SUBSET S -> Int] : SumsUpTo(g, n)}
<1>0. \A s \in SUBSET S : Cardinality(s) \in Nat /\ (Cardinality(s) = 0 <=> s = {})
  BY FS_Subset, FS_CardinalityType, FS_EmptySet
<1>1. 0 \in Reached
  <2> DEFINE g == [s \in SUBSET S |-> 0]
  <2>1. g \in [SUBSET S -> Int]
    OBVIOUS
  <2>2. SumsUpTo(g, 0)
    BY <1>0 DEF SumStep
  <2> QED
    BY <2>1, <2>2
<1>2. ASSUME NEW n \in Nat, n \in Reached
      PROVE  n + 1 \in Reached
  <2>1. PICK g \in [SUBSET S -> Int] : SumsUpTo(g, n)
    BY <1>2
  <2> DEFINE h == [s \in SUBSET S |-> SumStep(g, fun, s)]
  <2>2. ASSUME NEW s \in SUBSET S
        PROVE  SumStep(g, fun, s) \in Int
    <3>1. CASE s = {}
      BY <3>1 DEF SumStep
    <3>2. CASE s # {}
      <4>1. Pick(s) \in S /\ s \ {Pick(s)} \in SUBSET S
        BY <3>2, PickSmaller
      <4>2. fun[Pick(s)] \in Int /\ g[s \ {Pick(s)}] \in Int
        BY <4>1
      <4> QED
        BY <3>2, <4>2 DEF SumStep
    <3> QED
      BY <3>1, <3>2
  <2>3. h \in [SUBSET S -> Int]
    BY <2>2
  <2>4. \A s \in SUBSET S : Cardinality(s) <= n => h[s] = g[s]
    BY <2>1
  <2>5. ASSUME NEW s \in SUBSET S, Cardinality(s) <= n + 1
        PROVE  h[s] = SumStep(h, fun, s)
    <3>1. CASE s = {}
      BY <3>1 DEF SumStep
    <3>2. CASE s # {}
      <4>1. s \ {Pick(s)} \in SUBSET S /\ Cardinality(s \ {Pick(s)}) <= n
        BY <2>5, <3>2, PickSmaller
      <4>2. h[s \ {Pick(s)}] = g[s \ {Pick(s)}]
        BY <2>4, <4>1
      <4>3. h[s] = SumStep(g, fun, s)
        OBVIOUS
      <4> HIDE DEF h
      <4> QED
        BY <4>2, <4>3 DEF SumStep
    <3> QED
      BY <3>1, <3>2
  <2> HIDE DEF h
  <2>6. SumsUpTo(h, n + 1)
    BY <2>5
  <2> QED
    BY <2>3, <2>6
<1>3. Cardinality(S) \in Reached
  <2>1. Nat \subseteq Reached
    <3> HIDE DEF Reached
    <3> QED
      BY <1>1, <1>2, SetInduction
  <2> QED
    BY <1>0, <2>1
<1>4. PICK g \in [SUBSET S -> Int] : SumsUpTo(g, Cardinality(S))
  BY <1>3
<1>5. \A s \in SUBSET S : Cardinality(s) <= Cardinality(S)
  BY FS_Subset
<1>6. \A s \in SUBSET S : g[s] = SumStep(g, fun, s)
  BY <1>4, <1>5
<1> QED
  BY <1>6 DEF IsSum

(***************************************************************************)
(* The sums over the subsets of a finite set, from the definition of        *)
(* SumFunction: a function that solves its recursive equation.              *)
(***************************************************************************)
LEMMA SumSolved ==
  ASSUME NEW S, IsFiniteSet(S), NEW fun, \A x \in S : fun[x] \in Int
  PROVE  /\ SumFunctionOnSet(fun, S) = PartSums(fun, S)[S]
         /\ PartSums(fun, S)[{}] = 0
         /\ \A s \in SUBSET S :
              s # {} => PartSums(fun, S)[s] = fun[Pick(s)] + PartSums(fun, S)[s \ {Pick(s)}]
<1> DEFINE g == PartSums(fun, S)
<1>1. IsSum(g, fun, S)
  BY SumExists DEF PartSums
<1>2. SumFunctionOnSet(fun, S) = g[S]
  BY SumUnfolded
<1> HIDE DEF g
<1>3. \A s \in SUBSET S : g[s] = SumStep(g, fun, s)
  BY <1>1 DEF IsSum
<1>4. g[{}] = 0 /\ \A s \in SUBSET S : s # {} => g[s] = fun[Pick(s)] + g[s \ {Pick(s)}]
  BY <1>3 DEF SumStep
<1> QED
  BY <1>2, <1>4 DEF g

-----------------------------------------------------------------------------
\* What holds of the empty set and of a set once it holds of the set without
\* the element the fold picks holds of every subset of a finite set.
LEMMA PickInduction ==
  ASSUME NEW S, IsFiniteSet(S), NEW Good, {} \in Good,
         \A s \in SUBSET S : s # {} /\ s \ {Pick(s)} \in Good => s \in Good
  PROVE  SUBSET S \subseteq Good
<1> DEFINE Reached == {n \in Nat : \A s \in SUBSET S : Cardinality(s) <= n => s \in Good}
<1>0. \A s \in SUBSET S : Cardinality(s) \in Nat /\ (Cardinality(s) = 0 <=> s = {})
  BY FS_Subset, FS_CardinalityType, FS_EmptySet
<1>1. 0 \in Reached
  BY <1>0
<1>2. ASSUME NEW n \in Nat, n \in Reached
      PROVE  n + 1 \in Reached
  <2>1. ASSUME NEW s \in SUBSET S, Cardinality(s) <= n + 1
        PROVE  s \in Good
    <3>1. CASE s = {}
      BY <3>1
    <3>2. CASE s # {}
      <4>1. s \ {Pick(s)} \in SUBSET S /\ Cardinality(s \ {Pick(s)}) <= n
        BY <2>1, <3>2, PickSmaller
      <4>2. s \ {Pick(s)} \in Good
        BY <1>2, <4>1
      <4> QED
        BY <3>2, <4>2
    <3> QED
      BY <3>1, <3>2
  <2> QED
    BY <2>1
<1>3. Nat \subseteq Reached
  <2> HIDE DEF Reached
  <2> QED
    BY <1>1, <1>2, SetInduction
<1> QED
  BY <1>0, <1>3

\* A sum of integers is one.
LEMMA SumType ==
  ASSUME NEW S, IsFiniteSet(S), NEW fun, \A x \in S : fun[x] \in Int
  PROVE  SumFunctionOnSet(fun, S) \in Int
<1> DEFINE g == PartSums(fun, S)
<1>1. /\ SumFunctionOnSet(fun, S) = g[S] /\ g[{}] = 0
      /\ \A s \in SUBSET S : s # {} => g[s] = fun[Pick(s)] + g[s \ {Pick(s)}]
  BY SumSolved
<1> HIDE DEF g
<1> DEFINE Good == {s \in SUBSET S : g[s] \in Int}
<1>2. {} \in Good
  BY <1>1
<1>3. ASSUME NEW s \in SUBSET S, s # {}, s \ {Pick(s)} \in Good
      PROVE  s \in Good
  <2>1. Pick(s) \in S
    BY <1>3, PickSmaller
  <2>2. g[s] = fun[Pick(s)] + g[s \ {Pick(s)}]
    BY <1>1, <1>3
  <2> QED
    BY <1>3, <2>1, <2>2
<1>4. S \in Good
  <2> HIDE DEF Good
  <2> QED
    BY <1>2, <1>3, PickInduction
<1> QED
  BY <1>1, <1>4

\* A sum changes by what its one changed summand does.
LEMMA SumChanges ==
  ASSUME NEW S, IsFiniteSet(S),
         NEW fun, \A x \in S : fun[x] \in Int, NEW new, \A x \in S : new[x] \in Int,
         NEW i \in S, \A x \in S \ {i} : new[x] = fun[x]
  PROVE  SumFunctionOnSet(new, S) = SumFunctionOnSet(fun, S) + (new[i] - fun[i])
<1> DEFINE g == PartSums(fun, S)
<1>1. /\ SumFunctionOnSet(fun, S) = g[S] /\ g[{}] = 0
      /\ \A s \in SUBSET S : s # {} => g[s] = fun[Pick(s)] + g[s \ {Pick(s)}]
  BY SumSolved
<1> HIDE DEF g
<1> DEFINE h == PartSums(new, S)
<1>2. /\ SumFunctionOnSet(new, S) = h[S] /\ h[{}] = 0
      /\ \A s \in SUBSET S : s # {} => h[s] = new[Pick(s)] + h[s \ {Pick(s)}]
  BY SumSolved
<1> HIDE DEF h
<1> DEFINE change == new[i] - fun[i]
           share(s) == IF i \in s THEN change ELSE 0
           Good == {s \in SUBSET S : g[s] \in Int /\ h[s] = g[s] + share(s)}
<1>3. change \in Int
  OBVIOUS
<1>4. {} \in Good
  BY <1>1, <1>2
<1>5. ASSUME NEW s \in SUBSET S, s # {}, s \ {Pick(s)} \in Good
      PROVE  s \in Good
  <2> DEFINE x == Pick(s)
             rest == s \ {x}
  <2>1. x \in s /\ x \in S
    BY <1>5, PickSmaller
  <2>2. g[s] = fun[x] + g[rest] /\ h[s] = new[x] + h[rest]
    BY <1>1, <1>2, <1>5
  <2>3. g[rest] \in Int /\ h[rest] = g[rest] + share(rest)
    BY <1>5
  <2>4. CASE x = i
    <3>1. new[x] = fun[x] + change /\ share(rest) = 0 /\ share(s) = change /\ fun[x] \in Int
      BY <2>1, <2>4
    <3> HIDE DEF x, rest, share, change
    <3> QED
      BY <1>3, <2>2, <2>3, <3>1
  <2>5. CASE x # i
    <3>1. new[x] = fun[x] /\ share(rest) = share(s) /\ fun[x] \in Int /\ share(s) \in Int
      BY <1>3, <2>1, <2>5
    <3> HIDE DEF x, rest, share, change
    <3> QED
      BY <2>2, <2>3, <3>1
  <2> QED
    BY <2>4, <2>5
<1>6. S \in Good
  <2> HIDE DEF Good
  <2> QED
    BY <1>4, <1>5, PickInduction
<1> QED
  BY <1>1, <1>2, <1>6

\* Larger summands, larger sum.
LEMMA SumMonotone ==
  ASSUME NEW S, IsFiniteSet(S),
         NEW fun, \A x \in S : fun[x] \in Int, NEW new, \A x \in S : new[x] \in Int,
         \A x \in S : fun[x] <= new[x]
  PROVE  SumFunctionOnSet(fun, S) <= SumFunctionOnSet(new, S)
<1> DEFINE g == PartSums(fun, S)
<1>1. /\ SumFunctionOnSet(fun, S) = g[S] /\ g[{}] = 0
      /\ \A s \in SUBSET S : s # {} => g[s] = fun[Pick(s)] + g[s \ {Pick(s)}]
  BY SumSolved
<1> HIDE DEF g
<1> DEFINE h == PartSums(new, S)
<1>2. /\ SumFunctionOnSet(new, S) = h[S] /\ h[{}] = 0
      /\ \A s \in SUBSET S : s # {} => h[s] = new[Pick(s)] + h[s \ {Pick(s)}]
  BY SumSolved
<1> HIDE DEF h
<1> DEFINE Good == {s \in SUBSET S : g[s] \in Int /\ h[s] \in Int /\ g[s] <= h[s]}
<1>3. {} \in Good
  BY <1>1, <1>2
<1>4. ASSUME NEW s \in SUBSET S, s # {}, s \ {Pick(s)} \in Good
      PROVE  s \in Good
  <2>1. Pick(s) \in S
    BY <1>4, PickSmaller
  <2>2. /\ g[s] = fun[Pick(s)] + g[s \ {Pick(s)}]
        /\ h[s] = new[Pick(s)] + h[s \ {Pick(s)}]
    BY <1>1, <1>2, <1>4
  <2> QED
    BY <1>4, <2>1, <2>2
<1>5. S \in Good
  <2> HIDE DEF Good
  <2> QED
    BY <1>3, <1>4, PickInduction
<1> QED
  BY <1>1, <1>2, <1>5

\* Nothing adds up to nothing.
LEMMA SumOfNothing ==
  ASSUME NEW S, IsFiniteSet(S), NEW fun, \A x \in S : fun[x] = 0
  PROVE  SumFunctionOnSet(fun, S) = 0
<1> DEFINE g == PartSums(fun, S)
<1>0. \A x \in S : fun[x] \in Int
  OBVIOUS
<1>1. /\ SumFunctionOnSet(fun, S) = g[S] /\ g[{}] = 0
      /\ \A s \in SUBSET S : s # {} => g[s] = fun[Pick(s)] + g[s \ {Pick(s)}]
  BY <1>0, SumSolved
<1> HIDE DEF g
<1> DEFINE Good == {s \in SUBSET S : g[s] = 0}
<1>2. {} \in Good
  BY <1>1
<1>3. ASSUME NEW s \in SUBSET S, s # {}, s \ {Pick(s)} \in Good
      PROVE  s \in Good
  <2>1. Pick(s) \in S
    BY <1>3, PickSmaller
  <2>2. g[s] = fun[Pick(s)] + g[s \ {Pick(s)}]
    BY <1>1, <1>3
  <2> QED
    BY <1>3, <2>1, <2>2
<1>4. S \in Good
  <2> HIDE DEF Good
  <2> QED
    BY <1>2, <1>3, PickInduction
<1> QED
  BY <1>1, <1>4
-----------------------------------------------------------------------------
\* The same for the functions the properties sum, which are total on a set.
LEMMA SumFunctionType ==
  ASSUME NEW S, IsFiniteSet(S), NEW fun \in [S -> Int]
  PROVE  SumFunction(fun) \in Int
<1>1. SumFunction(fun) = SumFunctionOnSet(fun, S)
  BY DEF SumFunction
<1>2. \A x \in S : fun[x] \in Int
  OBVIOUS
<1> QED
  BY <1>1, <1>2, SumType

\* A step that changes one summand changes the sum by as much.
LEMMA SumFunctionChanges ==
  ASSUME NEW S, IsFiniteSet(S), NEW fun \in [S -> Int], NEW new \in [S -> Int],
         NEW i \in S, \A x \in S \ {i} : new[x] = fun[x]
  PROVE  /\ SumFunction(fun) \in Int
         /\ SumFunction(new) = SumFunction(fun) + (new[i] - fun[i])
<1>1. SumFunction(new) = SumFunctionOnSet(new, S) /\ SumFunction(fun) = SumFunctionOnSet(fun, S)
  BY DEF SumFunction
<1>2. (\A x \in S : fun[x] \in Int) /\ (\A x \in S : new[x] \in Int)
  OBVIOUS
<1>3. SumFunctionOnSet(new, S) = SumFunctionOnSet(fun, S) + (new[i] - fun[i])
  BY <1>2, SumChanges
<1> QED
  BY <1>1, <1>3, SumFunctionType

\* What is moved from one summand to another leaves the sum alone.
LEMMA SumFunctionMoves ==
  ASSUME NEW S, IsFiniteSet(S), NEW fun \in [S -> Int], NEW new \in [S -> Int],
         NEW i \in S, NEW j \in S, i # j,
         new[i] + new[j] = fun[i] + fun[j],
         \A x \in S \ {i, j} : new[x] = fun[x]
  PROVE  SumFunction(new) = SumFunction(fun)
<1> DEFINE half == [fun EXCEPT ![i] = new[i]]
<1>1. /\ half \in [S -> Int] /\ half[i] = new[i] /\ half[j] = fun[j]
      /\ \A x \in S \ {i} : half[x] = fun[x]
  OBVIOUS
<1> HIDE DEF half
<1>2. \A x \in S \ {j} : new[x] = half[x]
  BY <1>1
<1>3. /\ SumFunction(fun) \in Int
      /\ SumFunction(half) = SumFunction(fun) + (half[i] - fun[i])
  BY <1>1, SumFunctionChanges
<1>4. SumFunction(new) = SumFunction(half) + (new[j] - half[j])
  BY <1>1, <1>2, SumFunctionChanges
<1>5. /\ new[i] \in Int /\ new[j] \in Int /\ fun[i] \in Int /\ fun[j] \in Int
  OBVIOUS
<1> QED
  BY <1>1, <1>3, <1>4, <1>5

\* Where every summand is nothing, so is the sum.
LEMMA SumFunctionZero ==
  ASSUME NEW S, IsFiniteSet(S)
  PROVE  SumFunction([x \in S |-> 0]) = 0
<1>1. \A x \in S : [y \in S |-> 0][x] = 0
  OBVIOUS
<1>2. SumFunctionOnSet([x \in S |-> 0], S) = 0
  BY <1>1, SumOfNothing
<1> QED
  BY <1>2 DEF SumFunction

\* A sum of naturals is one, and no summand exceeds it.
LEMMA SumFunctionNatural ==
  ASSUME NEW S, IsFiniteSet(S), NEW fun \in [S -> Int], \A x \in S : 0 <= fun[x]
  PROVE  0 <= SumFunction(fun)
<1> DEFINE zero == [x \in S |-> 0]
<1>1. SumFunction(zero) = 0
  BY SumFunctionZero
<1>2. zero \in [S -> Int] /\ \A x \in S : zero[x] = 0
  OBVIOUS
<1> HIDE DEF zero
<1>3. /\ SumFunction(zero) = SumFunctionOnSet(zero, S)
      /\ SumFunction(fun) = SumFunctionOnSet(fun, S)
  BY <1>2 DEF SumFunction
<1>4. /\ \A x \in S : zero[x] \in Int
      /\ \A x \in S : fun[x] \in Int
      /\ \A x \in S : zero[x] <= fun[x]
  BY <1>2
<1>5. SumFunctionOnSet(zero, S) <= SumFunctionOnSet(fun, S)
  BY <1>4, SumMonotone
<1> QED
  BY <1>1, <1>3, <1>5

LEMMA SumFunctionBounds ==
  ASSUME NEW S, IsFiniteSet(S), NEW fun \in [S -> Nat], NEW i \in S
  PROVE  fun[i] <= SumFunction(fun)
<1> DEFINE rest == [fun EXCEPT ![i] = 0]
<1>1. /\ rest \in [S -> Int] /\ rest[i] = 0 /\ fun \in [S -> Int] /\ fun[i] \in Int
      /\ \A x \in S \ {i} : rest[x] = fun[x]
      /\ \A x \in S : 0 <= rest[x]
  OBVIOUS
<1> HIDE DEF rest
<1>2. SumFunction(rest) = SumFunction(fun) + (rest[i] - fun[i]) /\ SumFunction(fun) \in Int
  BY <1>1, SumFunctionChanges
<1>3. 0 <= SumFunction(rest)
  BY <1>1, SumFunctionNatural
<1> QED
  BY <1>1, <1>2, <1>3
=============================================================================
