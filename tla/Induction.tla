------------------------------ MODULE Induction -------------------------------
(***************************************************************************)
(* Induction over data, for the operators of the models that loop: the     *)
(* least element of a set of naturals, and from it induction with a set in *)
(* the place of the predicate, functions defined by recursion, the extreme *)
(* elements of bounded sets, and the sequences that list a finite set.     *)
(***************************************************************************)
EXTENDS Integers, SequencesExt, FiniteSetTheorems, SequenceTheorems, WellFoundedInduction, TLAPS

-----------------------------------------------------------------------------
(* Naturals *)

\* A set of naturals has a least element.
LEMMA LeastNatural ==
    ASSUME NEW S, S \subseteq Nat, S # {}
    PROVE  \E n \in S : \A m \in S : n <= m
<1> DEFINE R == OpToRel(<, Nat)
<1>1. IsWellFoundedOn(R, Nat)
  BY NatLessThanWellFounded
<1>2. PICK n \in S : \A m \in S : ~(<<m, n>> \in R)
  <2> HIDE DEF R
  <2> QED BY <1>1, WFMin
<1>3. \A m \in S : m < n => <<m, n>> \in R
  BY DEF OpToRel
<1> HIDE DEF R
<1>4. n \in Nat /\ \A m \in S : m \in Nat /\ ~(m < n)
  BY <1>2, <1>3
<1> QED BY <1>4

\* Induction: a set that holds 0, and with a natural the next, holds the naturals.
LEMMA NaturalInduction ==
    ASSUME NEW S, 0 \in S, \A n \in Nat : n \in S => n + 1 \in S
    PROVE  Nat \subseteq S
<1> SUFFICES ASSUME Nat \ S # {} PROVE FALSE
  OBVIOUS
<1>1. PICK n \in Nat \ S : \A m \in Nat \ S : n <= m
  <2> DEFINE T == Nat \ S
  <2>1. T \subseteq Nat /\ T # {}
    OBVIOUS
  <2> HIDE DEF T
  <2>2. \E n \in T : \A m \in T : n <= m
    BY <2>1, LeastNatural
  <2> QED BY <2>2 DEF T
<1>2. n # 0 /\ n - 1 \in Nat /\ n - 1 \in S
  BY <1>1
<1> QED BY <1>1, <1>2

\* Max of a set of numbers that has an upper bound is its greatest element (x: the bound).
LEMMA MaxIsGreatest ==
    ASSUME NEW S, S \subseteq Int, S # {}, NEW x \in Int, \A y \in S : y <= x
    PROVE  Max(S) \in S /\ \A y \in S : Max(S) >= y
<1> DEFINE T == {x - y : y \in S}
<1>1. T \subseteq Nat /\ T # {}
  <2>1. \A y \in S : x - y \in Nat
    OBVIOUS
  <2>2. T \subseteq Nat
    BY <2>1, Zenon
  <2>3. PICK y \in S : TRUE
    OBVIOUS
  <2>4. x - y \in T
    OBVIOUS
  <2> QED BY <2>2, <2>4
<1>2. PICK n \in T : \A m \in T : n <= m
  <2> HIDE DEF T
  <2> QED BY <1>1, LeastNatural
<1>3. PICK z \in S : n = x - z
  BY <1>2
<1>4. ASSUME NEW y \in S PROVE z >= y
  <2>1. x - y \in T
    OBVIOUS
  <2>2. x - z <= x - y
    BY <1>2, <1>3, <2>1
  <2> QED BY <2>2
<1>5. \E u \in S : \A y \in S : u >= y
  BY <1>4
<1> QED BY <1>5 DEF Max

\* Min of a set of numbers that has a lower bound is its least element (x: the bound).
LEMMA MinIsLeast ==
    ASSUME NEW S, S \subseteq Int, S # {}, NEW x \in Int, \A y \in S : x <= y
    PROVE  Min(S) \in S /\ \A y \in S : Min(S) <= y
<1> DEFINE T == {y - x : y \in S}
<1>1. T \subseteq Nat /\ T # {}
  <2>1. \A y \in S : y - x \in Nat
    OBVIOUS
  <2>2. T \subseteq Nat
    BY <2>1, Zenon
  <2>3. PICK y \in S : TRUE
    OBVIOUS
  <2>4. y - x \in T
    OBVIOUS
  <2> QED BY <2>2, <2>4
<1>2. PICK n \in T : \A m \in T : n <= m
  <2> HIDE DEF T
  <2> QED BY <1>1, LeastNatural
<1>3. PICK z \in S : n = z - x
  BY <1>2
<1>4. ASSUME NEW y \in S PROVE z <= y
  <2>1. y - x \in T
    OBVIOUS
  <2>2. z - x <= y - x
    BY <1>2, <1>3, <2>1
  <2> QED BY <2>2
<1>5. \E u \in S : \A y \in S : u <= y
  BY <1>4
<1> QED BY <1>5 DEF Min

\* The smaller of two numbers.
LEMMA MinOfTwo ==
    ASSUME NEW m \in Nat, NEW n \in Nat
    PROVE  Min({m, n}) = IF m <= n THEN m ELSE n
<1>1. \E x \in {m, n} : \A y \in {m, n} : x <= y
  OBVIOUS
<1>2. Min({m, n}) \in {m, n} /\ \A y \in {m, n} : Min({m, n}) <= y
  BY <1>1 DEF Min
<1> QED BY <1>2

-----------------------------------------------------------------------------
(* Functions defined by recursion *)

\* g is a run of n rounds of a loop over a state of X, from a: round i takes the state x to h[i][x].
IsRun(g, X, a, n, h) ==
    g \in [0..n -> X] /\ g[0] = a /\ \A i \in 1..n : g[i] = h[i][g[i - 1]]

\* Such a loop has a run from every state.
LEMMA LoopRuns ==
    ASSUME NEW X, NEW a \in X, NEW n \in Nat, NEW h \in [1..n -> [X -> X]]
    PROVE  \E g : IsRun(g, X, a, n, h)
<1> DEFINE Run(g, k) == g \in [0..k -> X] /\ g[0] = a
                        /\ \A i \in 1..k : g[i] = h[i][g[i - 1]]
           S == {k \in Nat : k <= n => \E g : Run(g, k)}
<1>1. 0 \in S
  <2>1. Run([i \in 0..0 |-> a], 0)
    OBVIOUS
  <2> HIDE DEF Run
  <2> QED BY <2>1
<1>2. ASSUME NEW k \in Nat, k \in S PROVE k + 1 \in S
  <2> SUFFICES ASSUME k + 1 <= n PROVE \E g : Run(g, k + 1)
    OBVIOUS
  <2>1. PICK g : Run(g, k)
    <3> HIDE DEF Run
    <3> QED BY <1>2
  <2> DEFINE f == [i \in 0..(k + 1) |-> IF i <= k THEN g[i] ELSE h[i][g[k]]]
  <2>2. k \in 0..k /\ g[k] \in X
    BY <2>1
  <2>3. h[k + 1][g[k]] \in X
    <3>1. k + 1 \in 1..n
      OBVIOUS
    <3> QED BY <2>2, <3>1
  <2>4. f \in [0..(k + 1) -> X]
    <3> SUFFICES ASSUME NEW i \in 0..(k + 1) PROVE f[i] \in X
      OBVIOUS
    <3>1. CASE i <= k
      BY <2>1, <3>1
    <3>2. CASE ~(i <= k)
      <4>1. i = k + 1
        BY <3>2
      <4> QED BY <2>3, <3>2, <4>1
    <3> QED BY <3>1, <3>2
  <2>5. f[0] = a
    BY <2>1
  <2>6. ASSUME NEW i \in 1..(k + 1) PROVE f[i] = h[i][f[i - 1]]
    <3>1. f[i - 1] = g[i - 1]
      OBVIOUS
    <3>2. CASE i <= k
      <4>1. f[i] = g[i] /\ i \in 1..k
        BY <3>2
      <4> QED BY <2>1, <3>1, <4>1
    <3>3. CASE ~(i <= k)
      <4>1. i = k + 1 /\ i - 1 = k
        BY <3>3
      <4> QED BY <3>1, <3>3, <4>1
    <3> QED BY <3>2, <3>3
  <2>7. Run(f, k + 1)
    <3> HIDE DEF f
    <3> QED BY <2>4, <2>5, <2>6
  <2> HIDE DEF Run, f
  <2> QED BY <2>7
<1>3. n \in S
  <2> HIDE DEF S
  <2> QED BY <1>1, <1>2, NaturalInduction
<1> QED BY <1>3 DEF IsRun

-----------------------------------------------------------------------------
(* Listing a finite set *)

\* A sequence without repetition of as many elements as a set has lists the set.
LEMMA ListingIsOnto ==
    ASSUME NEW S, IsFiniteSet(S), NEW s \in [1..Cardinality(S) -> S],
           \A i, j \in 1..Cardinality(S) : i # j => s[i] # s[j]
    PROVE  /\ s \in Seq(S) /\ Len(s) = Cardinality(S)
           /\ Range(s) = S
<1> DEFINE D == 1..Cardinality(S)
<1>1. Cardinality(S) \in Nat
  BY FS_CardinalityType
<1>2. s \in Injection(D, S)
  BY DEF Injection, IsInjective
<1>3. Cardinality(D) = Cardinality(S)
  BY <1>1, FS_Interval
<1>4. s \in Surjection(D, S)
  BY <1>2, <1>3, FS_Injection
<1>5. s \in Seq(S)
  BY <1>1, SeqDef
<1>6. Len(s) = Cardinality(S)
  BY <1>1, <1>5, LenProperties
<1>7. Range(s) = S
  BY <1>4 DEF Surjection, Range
<1> QED BY <1>5, <1>6, <1>7

\* SetToSeq lists a finite set without repetition.
LEMMA SetToSeqLists ==
    ASSUME NEW S, IsFiniteSet(S)
    PROVE  /\ SetToSeq(S) \in Seq(S)
           /\ IsInjective(SetToSeq(S))
           /\ Range(SetToSeq(S)) = S
<1>1. \E g \in [1..Cardinality(S) -> S] : IsInjective(g)
  BY FS_CardinalityType DEF ExistsBijection, Bijection, Injection
<1>2. PICK s \in [1..Cardinality(S) -> S] : s = SetToSeq(S) /\ IsInjective(s)
  BY <1>1 DEF SetToSeq
<1>3. \A i, j \in 1..Cardinality(S) : i # j => s[i] # s[j]
  BY <1>2 DEF IsInjective
<1> QED BY <1>2, <1>3, ListingIsOnto

\* A set of naturals up to b can be listed from the greatest down.
LEMMA DescendingExists ==
    ASSUME NEW b \in Nat, NEW S \in SUBSET (0..b)
    PROVE  \E s \in [1..Cardinality(S) -> S] :
              \A i, j \in 1..Cardinality(S) : i < j => s[i] > s[j]
<1> DEFINE Falls(s, M, n) == s \in [1..n -> M] /\ \A i, j \in 1..n : i < j => s[i] > s[j]
           T == {n \in Nat : \A M \in SUBSET (0..b) :
                                Cardinality(M) = n => \E s : Falls(s, M, n)}
<1>1. \A M \in SUBSET (0..b) : IsFiniteSet(M) /\ Cardinality(M) \in Nat
  <2>1. IsFiniteSet(0..b)
    BY FS_Interval
  <2> QED BY <2>1, FS_Subset, FS_CardinalityType
<1>2. 0 \in T
  <2> SUFFICES ASSUME NEW M \in SUBSET (0..b) PROVE \E s : Falls(s, M, 0)
    OBVIOUS
  <2>1. Falls([i \in 1..0 |-> 0], M, 0)
    OBVIOUS
  <2> HIDE DEF Falls
  <2> QED BY <2>1
<1>3. ASSUME NEW n \in Nat, n \in T PROVE n + 1 \in T
  <2> SUFFICES ASSUME NEW M \in SUBSET (0..b), Cardinality(M) = n + 1
               PROVE  \E s : Falls(s, M, n + 1)
    OBVIOUS
  <2>1. M # {} /\ M \subseteq Int /\ b \in Int /\ \A y \in M : y <= b
    BY FS_EmptySet
  <2>2. PICK m \in M : \A y \in M : m >= y
    BY <2>1, MaxIsGreatest
  <2>3. M \ {m} \in SUBSET (0..b) /\ Cardinality(M \ {m}) = n
    BY <1>1, FS_RemoveElement
  <2>4. PICK s : Falls(s, M \ {m}, n)
    <3> HIDE DEF Falls
    <3> QED BY <1>3, <2>3
  <2> DEFINE f == [i \in 1..(n + 1) |-> IF i = 1 THEN m ELSE s[i - 1]]
  <2>5. ASSUME NEW i \in 1..(n + 1), i # 1
        PROVE  i - 1 \in 1..n /\ f[i] = s[i - 1] /\ f[i] \in M /\ f[i] # m
    <3>1. i - 1 \in 1..n /\ f[i] = s[i - 1]
      BY <2>5
    <3>2. s[i - 1] \in M \ {m}
      BY <2>4, <3>1
    <3> HIDE DEF f
    <3> QED BY <3>1, <3>2
  <2>6. 1 \in 1..(n + 1) /\ f[1] = m
    OBVIOUS
  <2>7. f \in [1..(n + 1) -> M]
    <3>1. \A i \in 1..(n + 1) : f[i] \in M
      <4> HIDE DEF f
      <4> QED BY <2>5, <2>6
    <3> QED BY <3>1
  <2>8. ASSUME NEW i \in 1..(n + 1), NEW j \in 1..(n + 1), i < j PROVE f[i] > f[j]
    <3> HIDE DEF f
    <3>1. j # 1
      BY <2>8
    <3>2. f[j] \in M /\ f[j] # m /\ f[j] = s[j - 1] /\ j - 1 \in 1..n
      BY <2>5, <3>1
    <3>3. CASE i = 1
      <4>1. f[i] = m /\ m >= f[j]
        BY <2>2, <2>6, <3>2, <3>3
      <4>2. m \in Int /\ f[j] \in Int
        BY <2>1, <3>2
      <4> QED BY <3>2, <4>1, <4>2
    <3>4. CASE i # 1
      <4>1. f[i] = s[i - 1] /\ i - 1 \in 1..n /\ i - 1 < j - 1
        BY <2>5, <2>8, <3>4
      <4> QED BY <2>4, <3>2, <4>1
    <3> QED BY <3>3, <3>4
  <2>9. Falls(f, M, n + 1)
    <3> HIDE DEF f
    <3> QED BY <2>7, <2>8
  <2> HIDE DEF Falls, f
  <2> QED BY <2>9
<1>4. Cardinality(S) \in T
  <2> HIDE DEF T
  <2> QED BY <1>1, <1>2, <1>3, NaturalInduction
<1>5. PICK s : Falls(s, S, Cardinality(S))
  <2> HIDE DEF Falls
  <2> QED BY <1>4
<1> QED BY <1>5
=============================================================================
