------------------------------ MODULE DataProofs ------------------------------
(***************************************************************************)
(* Theorems about ChunkPlan, MetaStore and ConnectTransports, whose operators *)
(* are about data of any size: files, sets of chunks, lists of addresses.    *)
(* They are proved by induction.  The library's induction theorems are about *)
(* predicates; the first section states induction for sets, from the fact    *)
(* that strict inclusion of finite sets is well founded.                     *)
(***************************************************************************)
EXTENDS MetaStore, ConnectTransports, FiniteSetTheorems, SequenceTheorems, TLAPS

------------------------------------------------------------------------------
(* Induction.                                                                *)

LEMMA MinimalSubset ==
  ASSUME NEW S, IsFiniteSet(S), NEW T, T \subseteq SUBSET S, T # {}
  PROVE  \E X \in T : \A Y \in T : Y \subseteq X => Y = X
<1>1. FiniteSubsetsOf(S) = SUBSET S
  BY FS_FiniteSubsetsOfFinite
<1>2. IsWellFoundedOn(StrictSubsetOrdering(S), SUBSET S)
  BY <1>1, FS_StrictSubsetOrderingWellFounded
<1>3. \E X \in T : \A Y \in T : <<Y, X>> \notin StrictSubsetOrdering(S)
  BY <1>2, WFMin
<1> QED BY <1>3 DEF StrictSubsetOrdering

\* Induction over the numbers up to N: among the initial segments that end outside A
\* there would be a smallest one.
LEMMA InductionUpTo ==
  ASSUME NEW N \in Nat, NEW A, 0 \in A, \A n \in 0 .. N - 1 : n \in A => n + 1 \in A
  PROVE  0 .. N \subseteq A
<1> SUFFICES ASSUME NEW n \in 0 .. N, n \notin A PROVE FALSE
  OBVIOUS
<1> DEFINE T == {0 .. k : k \in {k \in 0 .. n : k \notin A}}
<1>1. IsFiniteSet(0 .. n)
  BY FS_Interval
<1>2. T \subseteq SUBSET (0 .. n)
  OBVIOUS
<1>3. 0 .. n \in T
  OBVIOUS
<1>4. PICK X \in T : \A Y \in T : Y \subseteq X => Y = X
  <2>1. T # {}
    BY <1>3
  <2> HIDE DEF T
  <2>2. ASSUME NEW S, IsFiniteSet(S), T \subseteq SUBSET S, T # {}
        PROVE  \E X \in T : \A Y \in T : Y \subseteq X => Y = X
    BY <2>2, MinimalSubset
  <2> QED BY <1>1, <1>2, <2>1, <2>2
<1>5. PICK k \in 0 .. n : k \notin A /\ X = 0 .. k
  OBVIOUS
<1>6. k # 0
  BY <1>5
<1>7. k - 1 \in 0 .. N - 1 /\ k - 1 \in 0 .. n /\ (k - 1) + 1 = k
  BY <1>6
<1>8. k - 1 \notin A
  BY <1>5, <1>7
<1>9. 0 .. (k - 1) \in T /\ 0 .. (k - 1) \subseteq X
  BY <1>5, <1>7, <1>8
<1>10. k \in X /\ k \notin 0 .. (k - 1)
  BY <1>5
<1> QED BY <1>4, <1>9, <1>10

\* A loop of N steps has a trace.
HasTrace(N, X, x0, step) ==
  \E p \in [0 .. N -> X] : p[0] = x0 /\ \A n \in 1 .. N : p[n] = step[n][p[n - 1]]

LEMMA Iteration ==
  ASSUME NEW N \in Nat, NEW X, NEW x0 \in X, NEW step \in [1 .. N -> [X -> X]]
  PROVE  HasTrace(N, X, x0, step)
<1> DEFINE Trace(m, p) == p[0] = x0 /\ \A n \in 1 .. m : p[n] = step[n][p[n - 1]]
           A == {m \in 0 .. N : \E p \in [0 .. m -> X] : Trace(m, p)}
<1>1. 0 \in A
  <2>1. [n \in 0 .. 0 |-> x0] \in [0 .. 0 -> X] /\ Trace(0, [n \in 0 .. 0 |-> x0])
    OBVIOUS
  <2>2. 0 \in 0 .. N
    OBVIOUS
  <2> HIDE DEF Trace
  <2> QED BY <2>1, <2>2
<1>2. ASSUME NEW m \in 0 .. N - 1, m \in A PROVE m + 1 \in A
  <2>1. PICK p \in [0 .. m -> X] : Trace(m, p)
    BY <1>2
  <2> DEFINE q == [n \in 0 .. m + 1 |-> IF n <= m THEN p[n] ELSE step[m + 1][p[m]]]
  <2>2. p[m] \in X /\ m + 1 \in 1 .. N /\ step[m + 1][p[m]] \in X
    OBVIOUS
  <2>3. q \in [0 .. m + 1 -> X]
    BY <2>2
  <2>4. q[0] = x0
    BY <2>1
  <2>5. ASSUME NEW n \in 1 .. m + 1 PROVE q[n] = step[n][q[n - 1]]
    <3>1. CASE n <= m
      <4>1. n \in 1 .. m /\ n - 1 \in 0 .. m /\ q[n] = p[n] /\ q[n - 1] = p[n - 1]
        BY <3>1
      <4> QED BY <2>1, <4>1
    <3>2. CASE n = m + 1
      BY <3>2
    <3> QED BY <3>1, <3>2
  <2>6. Trace(m + 1, q)
    BY <2>4, <2>5
  <2>7. m + 1 \in 0 .. N
    OBVIOUS
  <2> HIDE DEF Trace, q
  <2> QED BY <2>3, <2>6, <2>7
<1>3. 0 .. N \subseteq A
  <2> HIDE DEF A
  <2> QED BY <1>1, <1>2, InductionUpTo
<1>4. N \in A
  <2> HIDE DEF A
  <2> QED BY <1>3
<1> QED BY <1>4 DEF HasTrace

------------------------------------------------------------------------------
(* Extrema, and the sorted sequence of a set.                                *)

LEMMA Greatest ==
  ASSUME NEW S, S \subseteq Int, IsFiniteSet(S), S # {}
  PROVE  \E x \in S : \A y \in S : y <= x
<1> DEFINE T == {{y \in S : y >= x} : x \in S}
<1>1. T \subseteq SUBSET S
  OBVIOUS
<1>0. T # {}
  OBVIOUS
<1>2. PICK X \in T : \A Y \in T : Y \subseteq X => Y = X
  <2> HIDE DEF T
  <2>1. ASSUME NEW U, IsFiniteSet(U), T \subseteq SUBSET U, T # {}
        PROVE  \E X \in T : \A Y \in T : Y \subseteq X => Y = X
    BY <2>1, MinimalSubset
  <2> QED BY <1>0, <1>1, <2>1
<1>3. PICK x \in S : X = {y \in S : y >= x}
  OBVIOUS
<1>4. ASSUME NEW z \in S, z > x PROVE FALSE
  <2>1. {y \in S : y >= z} \in T
    OBVIOUS
  <2>2. {y \in S : y >= z} \subseteq X
    <3> SUFFICES ASSUME NEW y \in S, y >= z PROVE y >= x
      BY <1>3
    <3>1. x \in Int /\ y \in Int /\ z \in Int
      OBVIOUS
    <3> QED BY <3>1, <1>4
  <2>3. x \in X /\ x \notin {y \in S : y >= z}
    BY <1>3, <1>4
  <2> QED BY <1>2, <2>1, <2>2, <2>3
<1> QED BY <1>4

LEMMA Least ==
  ASSUME NEW S, S \subseteq Int, IsFiniteSet(S), S # {}
  PROVE  Min(S) \in S /\ \A y \in S : Min(S) <= y
<1> DEFINE T == {{y \in S : y <= x} : x \in S}
<1>1. T \subseteq SUBSET S
  OBVIOUS
<1>0. T # {}
  OBVIOUS
<1>2. PICK X \in T : \A Y \in T : Y \subseteq X => Y = X
  <2> HIDE DEF T
  <2>1. ASSUME NEW U, IsFiniteSet(U), T \subseteq SUBSET U, T # {}
        PROVE  \E X \in T : \A Y \in T : Y \subseteq X => Y = X
    BY <2>1, MinimalSubset
  <2> QED BY <1>0, <1>1, <2>1
<1>3. PICK x \in S : X = {y \in S : y <= x}
  OBVIOUS
<1>4. ASSUME NEW z \in S, z < x PROVE FALSE
  <2>1. {y \in S : y <= z} \in T
    OBVIOUS
  <2>2. {y \in S : y <= z} \subseteq X
    <3> SUFFICES ASSUME NEW y \in S, y <= z PROVE y <= x
      BY <1>3
    <3>1. x \in Int /\ y \in Int /\ z \in Int
      OBVIOUS
    <3> QED BY <3>1, <1>4
  <2>3. x \in X /\ x \notin {y \in S : y <= z}
    BY <1>3, <1>4
  <2> QED BY <1>2, <2>1, <2>2, <2>3
<1>5. \E m \in S : \A y \in S : m <= y
  BY <1>4
<1> QED BY <1>5 DEF Min


Increasing(s) == \A i, j \in DOMAIN s : i < j => s[i] < s[j]

\* Every finite set of numbers can be sorted: its greatest element comes last.
LEMMA SortingExists ==
  ASSUME NEW S, S \subseteq Int, IsFiniteSet(S)
  PROVE  \E s \in [1 .. Cardinality(S) -> S] : Increasing(s)
<1> DEFINE Sortable(T) == \E s \in [1 .. Cardinality(T) -> T] : Increasing(s)
           A == {n \in Nat : \A T \in SUBSET S : Cardinality(T) = n => Sortable(T)}
<1>1. \A T \in SUBSET S : IsFiniteSet(T) /\ Cardinality(T) \in Nat
  BY FS_Subset, FS_CardinalityType
<1>2. 0 \in A
  <2>1. ASSUME NEW T \in SUBSET S, Cardinality(T) = 0 PROVE Sortable(T)
    <3>1. <<>> \in [1 .. Cardinality(T) -> T] /\ Increasing(<<>>)
      BY <2>1 DEF Increasing
    <3> QED BY <3>1
  <2> HIDE DEF Sortable
  <2> QED BY <2>1
<1>3. ASSUME NEW n \in Nat, n \in A PROVE n + 1 \in A
  <2>1. ASSUME NEW T \in SUBSET S, Cardinality(T) = n + 1 PROVE Sortable(T)
    <3>1. T # {} /\ T \subseteq Int /\ IsFiniteSet(T)
      BY <1>1, <2>1, FS_EmptySet
    <3>2. PICK m \in T : \A y \in T : y <= m
      BY <3>1, Greatest
    <3> DEFINE U == T \ {m}
    <3>3. U \in SUBSET S
      OBVIOUS
    <3>3a. Cardinality(U) = Cardinality(T) - 1
      BY <3>1, <3>2, FS_RemoveElement
    <3>3b. Cardinality(U) = n
      BY <2>1, <3>3a
    <3>4. PICK s \in [1 .. n -> U] : Increasing(s)
      BY <1>3, <3>3, <3>3b
    <3> DEFINE t == [i \in 1 .. n + 1 |-> IF i <= n THEN s[i] ELSE m]
    <3>5. t \in [1 .. n + 1 -> T]
      OBVIOUS
    <3>6. ASSUME NEW i \in 1 .. n + 1, NEW j \in 1 .. n + 1, i < j PROVE t[i] < t[j]
      <4>0. i \in 1 .. n
        BY <3>6
      <4>1. t[i] = s[i] /\ s[i] \in U /\ s[i] \in T /\ s[i] # m
        BY <4>0
      <4>1a. s[i] \in Int /\ m \in Int
        BY <3>1, <4>1
      <4>2. CASE j <= n
        <5>1. j \in 1 .. n /\ t[j] = s[j]
          BY <4>2
        <5>2. DOMAIN s = 1 .. n
          OBVIOUS
        <5> HIDE DEF t
        <5> QED BY <3>4, <3>6, <4>0, <4>1, <5>1, <5>2 DEF Increasing
      <4>3. CASE j = n + 1
        <5>1. t[j] = m
          BY <4>3
        <5> HIDE DEF t
        <5> QED BY <3>2, <4>1, <4>1a, <5>1
      <4> QED BY <4>2, <4>3
    <3> HIDE DEF t
    <3>7. Increasing(t)
      BY <3>5, <3>6 DEF Increasing
    <3> QED BY <2>1, <3>5, <3>7
  <2> HIDE DEF Sortable
  <2> QED BY <2>1
<1>4. Cardinality(S) \in Nat
  BY <1>1
<1>5. 0 .. Cardinality(S) \subseteq A
  <2> HIDE DEF A
  <2>1. \A n \in 0 .. Cardinality(S) - 1 : n \in A => n + 1 \in A
    BY <1>3, <1>4
  <2> QED BY <1>2, <1>4, <2>1, InductionUpTo
<1>6. Cardinality(S) \in A
  <2> HIDE DEF A
  <2> QED BY <1>4, <1>5
<1> QED BY <1>6

\* What sort_unstable returns.
LEMMA Sorted ==
  ASSUME NEW S, S \subseteq Int, IsFiniteSet(S)
  PROVE  /\ Cardinality(S) \in Nat
         /\ Ascending(S) \in [1 .. Cardinality(S) -> S]
         /\ Increasing(Ascending(S))
         /\ S = {Ascending(S)[i] : i \in 1 .. Cardinality(S)}
<1> DEFINE N == Cardinality(S)
           s == Ascending(S)
<1>1. N \in Nat
  BY FS_CardinalityType
<1>2. s \in [1 .. N -> S] /\ Increasing(s)
  BY SortingExists DEF Ascending, Increasing
<1>3. ASSUME NEW i \in 1 .. N, NEW j \in 1 .. N, s[i] = s[j] PROVE i = j
  <2>1. s[i] \in Int
    BY <1>2
  <2>2. i < j => s[i] < s[j]
    BY <1>2 DEF Increasing
  <2>3. j < i => s[j] < s[i]
    BY <1>2 DEF Increasing
  <2> HIDE DEF s, N
  <2> QED BY <1>1, <1>3, <2>1, <2>2, <2>3
<1>4. s \in Injection(1 .. N, S)
  BY <1>2, <1>3 DEF Injection, IsInjective
<1>5. Cardinality(1 .. N) = N
  BY <1>1, FS_Interval
<1>6. s \in Surjection(1 .. N, S)
  BY <1>4, <1>5, FS_Injection
<1>7. S = {s[i] : i \in 1 .. N}
  BY <1>2, <1>6 DEF Surjection
<1> QED BY <1>1, <1>2, <1>7

------------------------------------------------------------------------------
(* The ranges.                                                               *)

Ranges == Nat \X Nat

\* Ranges in ascending order, none of which touches the next.
Apart(r) ==
  /\ \A i \in 1 .. Len(r) : r[i][1] <= r[i][2]
  /\ \A i, j \in 1 .. Len(r) : i < j => r[i][2] + 1 < r[j][1]

LEMMA Expanded ==
  ASSUME NEW r \in Seq(Ranges)
  PROVE  /\ \A i \in 1 .. Len(r) : r[i][1] \in Nat /\ r[i][2] \in Nat
         /\ \A x : x \in ExpandRanges(r)
                   <=> \E i \in 1 .. Len(r) : x \in r[i][1] .. r[i][2]
<1>1. DOMAIN r = 1 .. Len(r) /\ \A i \in 1 .. Len(r) : r[i] \in Ranges
  BY LenProperties, ElementOfSeq
<1>2. ToSet(r) = {r[i] : i \in 1 .. Len(r)}
  BY <1>1 DEF ToSet
<1> QED BY <1>1, <1>2 DEF ExpandRanges, Ranges

LEMMA Beyond ==
  ASSUME NEW a \in Nat, NEW b \in Nat, NEW c \in Nat, NEW d \in Nat,
         a + 1 < b, b <= c, c + 1 < d
  PROVE  a + 1 < d
OBVIOUS

\* A chunk above all ranges is added to what they stand for, and nothing else.
LEMMA ChunkAdded ==
  ASSUME NEW r \in Seq(Ranges), Apart(r), NEW id \in Nat,
         r # <<>> => Last(r)[2] < id
  PROVE  /\ WithChunk(r, id) \in Seq(Ranges)
         /\ WithChunk(r, id) # <<>>
         /\ Apart(WithChunk(r, id))
         /\ Last(WithChunk(r, id))[2] = id
         /\ \A x : x \in ExpandRanges(WithChunk(r, id)) <=> x \in ExpandRanges(r) \/ x = id
<1> DEFINE q == WithChunk(r, id)
           n == Len(r)
<1>0. n \in Nat /\ DOMAIN r = 1 .. n /\ \A i \in 1 .. n : r[i] \in Ranges
  BY LenProperties, ElementOfSeq
<1>0a. \A i \in 1 .. n : r[i][1] \in Nat /\ r[i][2] \in Nat /\ r[i][1] <= r[i][2]
  BY Expanded DEF Apart
<1>0b. \A i, j \in 1 .. n : i < j => r[i][2] + 1 < r[j][1]
  BY DEF Apart
<1>1. CASE r # <<>> /\ id = Last(r)[2] + 1
  <2>1. n \in 1 .. n /\ Last(r) = r[n]
    BY <1>0, <1>1, EmptySeq DEF Last
  <2>2. q = [r EXCEPT ![n] = <<r[n][1], id>>]
    BY <1>1 DEF WithChunk
  <2>3. <<r[n][1], id>> \in Ranges
    BY <1>0a, <2>1 DEF Ranges
  <2>4. q \in Seq(Ranges) /\ Len(q) = n
    BY <1>0, <2>1, <2>2, <2>3, ExceptSeq
  <2>5. q[n] = <<r[n][1], id>> /\ \A i \in 1 .. n : i # n => q[i] = r[i]
    BY <1>0, <2>1, <2>2
  <2>6. q[n][1] = r[n][1] /\ q[n][2] = id /\ id = r[n][2] + 1
    BY <1>1, <2>1, <2>5
  <2>6a. \A i \in 1 .. n : q[i][1] = r[i][1] /\ (i # n => q[i][2] = r[i][2])
    BY <2>5, <2>6
  <2> HIDE DEF q, n
  <2>7. Apart(q)
    <3>1. ASSUME NEW i \in 1 .. n PROVE q[i][1] <= q[i][2]
      <4>1. CASE i = n
        BY <1>0a, <2>6, <4>1
      <4>2. CASE i # n
        BY <1>0a, <2>6a, <4>2
      <4> QED BY <4>1, <4>2
    <3>2. ASSUME NEW i \in 1 .. n, NEW j \in 1 .. n, i < j PROVE q[i][2] + 1 < q[j][1]
      <4>1. i # n
        BY <1>0, <3>2
      <4> QED BY <1>0b, <2>6a, <3>2, <4>1
    <3> QED BY <2>4, <3>1, <3>2 DEF Apart
  <2>8. ASSUME NEW x PROVE x \in ExpandRanges(q) <=> x \in ExpandRanges(r) \/ x = id
    <3>1. \A i \in 1 .. n : i # n => q[i][1] .. q[i][2] = r[i][1] .. r[i][2]
      BY <2>6a
    <3>2. x \in q[n][1] .. q[n][2] <=> x \in r[n][1] .. r[n][2] \/ x = id
      BY <1>0a, <2>1, <2>6
    <3>3. x \in ExpandRanges(q) <=> \E i \in 1 .. n : x \in q[i][1] .. q[i][2]
      BY <2>4, Expanded
    <3>4. x \in ExpandRanges(r) <=> \E i \in 1 .. n : x \in r[i][1] .. r[i][2]
      BY Expanded DEF n
    <3> QED BY <2>1, <3>1, <3>2, <3>3, <3>4
  <2>9. q # <<>> /\ Last(q)[2] = id
    BY <1>0, <2>1, <2>4, <2>6, EmptySeq DEF Last
  <2> QED BY <2>4, <2>7, <2>8, <2>9 DEF q
<1>2. CASE ~(r # <<>> /\ id = Last(r)[2] + 1)
  <2>1. q = Append(r, <<id, id>>)
    BY <1>2 DEF WithChunk
  <2>2. <<id, id>> \in Ranges
    BY DEF Ranges
  <2>3. q \in Seq(Ranges) /\ Len(q) = n + 1
    BY <1>0, <2>1, <2>2, AppendProperties
  <2>4. q[n + 1] = <<id, id>> /\ \A i \in 1 .. n : q[i] = r[i]
    BY <1>0, <2>1, <2>2, AppendProperties
  <2>5. q[n + 1][1] = id /\ q[n + 1][2] = id
    BY <2>4
  <2>6. ASSUME NEW i \in 1 .. n PROVE r[i][2] + 1 < id
    <3>1. r # <<>> /\ n \in 1 .. n
      BY <1>0, EmptySeq
    <3>2. Last(r) = r[n]
      BY DEF Last
    <3>3. r[n][2] + 1 < id
      BY <1>0a, <1>2, <3>1, <3>2
    <3> HIDE DEF n
    <3>4. CASE i < n
      <4>1. r[i][2] + 1 < r[n][1]
        BY <1>0b, <3>1, <3>4
      <4>2. r[i][2] \in Nat
        BY <1>0a, Zenon
      <4>3. r[n][1] \in Nat /\ r[n][2] \in Nat /\ r[n][1] <= r[n][2]
        BY <1>0a, <3>1, Zenon
      <4> QED BY <3>3, <4>1, <4>2, <4>3, Beyond, Zenon
    <3> QED BY <1>0, <3>3, <3>4
  <2> HIDE DEF q, n
  <2>7. Apart(q)
    <3>1. ASSUME NEW i \in 1 .. n + 1 PROVE q[i][1] <= q[i][2]
      <4>1. CASE i = n + 1
        BY <2>5, <4>1
      <4>2. CASE i # n + 1
        <5>1. i \in 1 .. n
          BY <1>0, <4>2
        <5> QED BY <1>0a, <2>4, <5>1
      <4> QED BY <4>1, <4>2
    <3>2. ASSUME NEW i \in 1 .. n + 1, NEW j \in 1 .. n + 1, i < j
          PROVE  q[i][2] + 1 < q[j][1]
      <4>1. i \in 1 .. n /\ q[i] = r[i]
        BY <1>0, <2>4, <3>2
      <4>2. CASE j = n + 1
        BY <2>5, <2>6, <4>1, <4>2
      <4>3. CASE j # n + 1
        <5>1. j \in 1 .. n
          BY <1>0, <4>3
        <5> QED BY <1>0b, <2>4, <3>2, <4>1, <5>1
      <4> QED BY <4>2, <4>3
    <3> QED BY <2>3, <3>1, <3>2 DEF Apart
  <2>8. ASSUME NEW x PROVE x \in ExpandRanges(q) <=> x \in ExpandRanges(r) \/ x = id
    <3>1. \A i \in 1 .. n : q[i][1] .. q[i][2] = r[i][1] .. r[i][2]
      BY <2>4
    <3>2. x \in q[n + 1][1] .. q[n + 1][2] <=> x = id
      BY <2>5
    <3>3. x \in ExpandRanges(q) <=> \E i \in 1 .. n + 1 : x \in q[i][1] .. q[i][2]
      BY <2>3, Expanded
    <3>4. x \in ExpandRanges(r) <=> \E i \in 1 .. n : x \in r[i][1] .. r[i][2]
      BY Expanded DEF n
    <3>5. 1 .. n + 1 = 1 .. n \cup {n + 1}
      BY <1>0
    <3> QED BY <3>1, <3>2, <3>3, <3>4, <3>5
  <2>9. q # <<>> /\ Last(q)[2] = id
    BY <1>0, <2>3, <2>5, EmptySeq DEF Last
  <2> QED BY <2>3, <2>7, <2>8, <2>9 DEF q
<1> QED BY <1>1, <1>2


LEMMA ChunkTyped ==
  ASSUME NEW r \in Seq(Ranges), NEW id \in Nat
  PROVE  WithChunk(r, id) \in Seq(Ranges)
<1>1. CASE r # <<>> /\ id = Last(r)[2] + 1
  <2>1. Len(r) \in 1 .. Len(r) /\ <<r[Len(r)][1], id>> \in Ranges
    BY <1>1, EmptySeq, LenProperties, Expanded DEF Ranges
  <2> QED BY <1>1, <2>1, ExceptSeq DEF WithChunk
<1>2. CASE ~(r # <<>> /\ id = Last(r)[2] + 1)
  BY <1>2, AppendProperties DEF WithChunk, Ranges
<1> QED BY <1>1, <1>2

\* What the file says of a set of chunks: ranges in ascending order, as few as
\* possible, and when they are read back the same set, for any set of chunks
\* (schema.rs, coalesce_ranges and expand_ranges).
THEOREM RangesRoundTrip ==
  ASSUME NEW S, S \subseteq Nat, IsFiniteSet(S)
  PROVE  /\ CoalesceRanges(S) \in Seq(Ranges)
         /\ Apart(CoalesceRanges(S))
         /\ ExpandRanges(CoalesceRanges(S)) = S
<1> DEFINE N == Cardinality(S)
           ids == Ascending(S)
           Pass(f) == [n \in 0 .. N |-> IF n = 0 THEN <<>> ELSE WithChunk(f[n - 1], ids[n])]
           pass == CHOOSE f : f = Pass(f)
           step == [n \in 1 .. N |-> [r \in Seq(Ranges) |-> WithChunk(r, ids[n])]]
<1>1. CoalesceRanges(S) = pass[N]
  BY DEF CoalesceRanges
<1>2. /\ N \in Nat /\ S = {ids[i] : i \in 1 .. N}
      /\ \A i \in 1 .. N : ids[i] \in Nat
      /\ \A i, j \in 1 .. N : i < j => ids[i] < ids[j]
  <2>1. S \subseteq Int
    OBVIOUS
  <2>2. /\ N \in Nat /\ ids \in [1 .. N -> S] /\ Increasing(ids)
        /\ S = {ids[i] : i \in 1 .. N}
    BY <2>1, Sorted
  <2> HIDE DEF N, ids
  <2>3. \A i, j \in 1 .. N : i < j => ids[i] < ids[j]
    BY <2>2 DEF Increasing
  <2> QED BY <2>2, <2>3
<1> HIDE DEF N, ids
<1>3. <<>> \in Seq(Ranges)
  OBVIOUS
<1>4. step \in [1 .. N -> [Seq(Ranges) -> Seq(Ranges)]]
  BY <1>2, ChunkTyped
<1>5. PICK p \in [0 .. N -> Seq(Ranges)] :
        p[0] = <<>> /\ \A n \in 1 .. N : p[n] = step[n][p[n - 1]]
  <2> HIDE DEF step
  <2>1. N \in Nat
    BY <1>2
  <2>2. HasTrace(N, Seq(Ranges), <<>>, step)
    BY <1>3, <1>4, <2>1, Iteration
  <2> QED BY <2>2 DEF HasTrace
<1>6. p = Pass(p)
  <2>1. ASSUME NEW n \in 1 .. N PROVE p[n] = WithChunk(p[n - 1], ids[n])
    <3>1. p[n - 1] \in Seq(Ranges)
      BY <1>2
    <3> QED BY <1>5, <3>1
  <2>2. ASSUME NEW n \in 0 .. N
        PROVE  p[n] = IF n = 0 THEN <<>> ELSE WithChunk(p[n - 1], ids[n])
    BY <1>2, <1>5, <2>1
  <2> QED BY <2>2
<1>7. pass = Pass(pass)
  <2> HIDE DEF Pass
  <2> QED BY <1>6
<1>8. pass[0] = <<>> /\ \A n \in 1 .. N : pass[n] = WithChunk(pass[n - 1], ids[n])
  <2> HIDE DEF pass
  <2>1. \A n \in 0 .. N : pass[n] = IF n = 0 THEN <<>> ELSE WithChunk(pass[n - 1], ids[n])
    BY <1>7
  <2>2. 0 \in 0 .. N
    BY <1>2
  <2>3. ASSUME NEW n \in 1 .. N PROVE n \in 0 .. N /\ n # 0
    BY <1>2
  <2> HIDE DEF Pass
  <2> QED BY <2>1, <2>2, <2>3
<1> HIDE DEF pass, Pass, step
<1> DEFINE Covers(n) == \A x : x \in ExpandRanges(pass[n]) <=> \E m \in 1 .. n : x = ids[m]
           Right(n) == /\ pass[n] \in Seq(Ranges) /\ Apart(pass[n])
                       /\ pass[n] # <<>> => n \in 1 .. n /\ Last(pass[n])[2] = ids[n]
                       /\ Covers(n)
           A == {n \in 0 .. N : Right(n)}
<1>9. 0 \in A
  <2>1. Covers(0)
    <3>1. Len(<<>>) = 0 /\ 1 .. 0 = {}
      OBVIOUS
    <3>2. \A x : x \notin ExpandRanges(<<>>)
      BY <1>3, <3>1, Expanded
    <3> QED BY <1>8, <3>1, <3>2
  <2>2. Right(0)
    BY <1>8, <2>1 DEF Apart
  <2> HIDE DEF Right
  <2> QED BY <1>2, <2>2
<1>10. ASSUME NEW n \in 0 .. N - 1, n \in A PROVE n + 1 \in A
  <2>1. Right(n)
    BY <1>10
  <2>2. n + 1 \in 1 .. N /\ (n + 1) - 1 = n /\ ids[n + 1] \in Nat
    BY <1>2
  <2>3. pass[n + 1] = WithChunk(pass[n], ids[n + 1])
    BY <1>8, <2>2
  <2>4. pass[n] # <<>> => Last(pass[n])[2] < ids[n + 1]
    <3>1. n \in 1 .. n => n \in 1 .. N /\ n < n + 1
      BY <1>2
    <3> QED BY <1>2, <2>1, <2>2, <3>1
  <2>4a. /\ WithChunk(pass[n], ids[n + 1]) \in Seq(Ranges)
         /\ Apart(WithChunk(pass[n], ids[n + 1]))
         /\ Last(WithChunk(pass[n], ids[n + 1]))[2] = ids[n + 1]
         /\ \A x : x \in ExpandRanges(WithChunk(pass[n], ids[n + 1]))
                   <=> x \in ExpandRanges(pass[n]) \/ x = ids[n + 1]
    <3>1. pass[n] \in Seq(Ranges) /\ Apart(pass[n])
      BY <2>1
    <3>2. ASSUME NEW r \in Seq(Ranges), Apart(r), NEW id \in Nat,
                 r # <<>> => Last(r)[2] < id
          PROVE  /\ WithChunk(r, id) \in Seq(Ranges)
                 /\ Apart(WithChunk(r, id))
                 /\ Last(WithChunk(r, id))[2] = id
                 /\ \A x : x \in ExpandRanges(WithChunk(r, id))
                           <=> x \in ExpandRanges(r) \/ x = id
      BY <3>2, ChunkAdded
    <3>3. ids[n + 1] \in Nat
      BY <1>2, <2>2
    <3> QED BY <2>4, <3>1, <3>2, <3>3, Zenon
  <2>5. /\ pass[n + 1] \in Seq(Ranges) /\ Apart(pass[n + 1])
        /\ Last(pass[n + 1])[2] = ids[n + 1]
        /\ \A x : x \in ExpandRanges(pass[n + 1])
                  <=> x \in ExpandRanges(pass[n]) \/ x = ids[n + 1]
    BY <2>3, <2>4a
  <2>6. 1 .. n + 1 = 1 .. n \cup {n + 1}
    BY <1>2
  <2>7. Covers(n + 1)
    BY <2>1, <2>5, <2>6
  <2>8. Right(n + 1) /\ n + 1 \in 0 .. N
    BY <2>2, <2>5, <2>7
  <2> HIDE DEF Right
  <2> QED BY <2>8
<1>11. N \in A
  <2> HIDE DEF A
  <2>1. 0 .. N \subseteq A
    BY <1>2, <1>9, <1>10, InductionUpTo
  <2> QED BY <1>2, <2>1
<1>12. ExpandRanges(pass[N]) = S
  BY <1>2, <1>11
<1> QED BY <1>1, <1>11, <1>12


\* The values of a function on a finite set.
LEMMA ImageFinite ==
  ASSUME NEW S, IsFiniteSet(S), NEW T, NEW f \in [S -> T]
  PROVE  IsFiniteSet({f[x] : x \in S})
<1> DEFINE U == {f[x] : x \in S}
<1>1. f \in [S -> U] /\ \A u \in U : \E x \in S : f[x] = u
  OBVIOUS
<1> HIDE DEF U
<1>2. f \in Surjection(S, U)
  BY <1>1 DEF Surjection
<1>3. IsFiniteSet(U)
  BY <1>2, FS_Surjection
<1> QED BY <1>3 DEF U

\* A tracker filled from ranges holds their chunks.
LEMMA TrackerHolds ==
  ASSUME NEW ranges
  PROVE  {done.chunk : done \in TrackerFrom(ranges)} = ExpandRanges(ranges)
<1> DEFINE S == {done.chunk : done \in TrackerFrom(ranges)}
<1>1. ASSUME NEW id \in ExpandRanges(ranges) PROVE id \in S
  <2>1. [chunk |-> id, checksum |-> 0] \in TrackerFrom(ranges)
    BY DEF TrackerFrom
  <2> QED BY <2>1
<1>2. ASSUME NEW done \in TrackerFrom(ranges) PROVE done.chunk \in ExpandRanges(ranges)
  BY DEF TrackerFrom
<1>3. S \subseteq ExpandRanges(ranges) /\ ExpandRanges(ranges) \subseteq S
  BY <1>1, <1>2
<1> HIDE DEF S
<1> QED BY <1>3 DEF S

\* What meta.json says was saved fills the tracker of the next session, which marks more
\* chunks; the ranges it answers an offer with leave the sender exactly the others to
\* send (schema.rs, tracker.rs, session/mod.rs).
THEOREM ResumeSendsTheRest ==
  ASSUME NEW saved, saved \subseteq Nat, IsFiniteSet(saved),
         NEW marked, IsFiniteSet(marked), \A done \in marked : done.chunk \in Nat,
         NEW plan
  PROVE  LET tracker == TrackerFrom(CoalesceRanges(saved)) \cup marked
         IN MissingChunks(plan, CompletedRanges(tracker))
              = DOMAIN plan \ (saved \cup {done.chunk : done \in marked})
<1> DEFINE tracker == TrackerFrom(CoalesceRanges(saved)) \cup marked
           more    == {done.chunk : done \in marked}
           S       == {done.chunk : done \in tracker}
<1>1. S = saved \cup more
  <2>1. {done.chunk : done \in TrackerFrom(CoalesceRanges(saved))} = saved
    BY TrackerHolds, RangesRoundTrip
  <2> QED BY <2>1
<1>2. IsFiniteSet(more) /\ more \subseteq Nat
  <2> DEFINE f == [done \in marked |-> done.chunk]
  <2>1. f \in [marked -> Nat] /\ more = {f[done] : done \in marked}
    OBVIOUS
  <2> HIDE DEF f, more
  <2>2. IsFiniteSet({f[done] : done \in marked})
    BY <2>1, ImageFinite
  <2>3. more \subseteq Nat
    BY <2>1
  <2> QED BY <2>1, <2>2, <2>3
<1> HIDE DEF S, more
<1>3. IsFiniteSet(S) /\ S \subseteq Nat
  BY <1>1, <1>2, FS_Union
<1>4. ExpandRanges(CoalesceRanges(S)) = S
  BY <1>3, RangesRoundTrip
<1>5. CompletedRanges(tracker) = CoalesceRanges(S)
  BY DEF CompletedRanges, S
<1> HIDE DEF tracker
<1>6. MissingChunks(plan, CompletedRanges(tracker)) = DOMAIN plan \ (saved \cup more)
  BY <1>1, <1>4, <1>5 DEF MissingChunks
<1> QED BY <1>6 DEF tracker, more

------------------------------------------------------------------------------
(* The plan.                                                                 *)

\* Division, as the plan uses it.
LEMMA Quotient ==
  ASSUME NEW a \in Nat, NEW d \in Nat \ {0}
  PROVE  a \div d \in Nat /\ d * (a \div d) <= a /\ a < d * (a \div d) + d
OBVIOUS

LEMMA Rest ==
  ASSUME NEW a \in Nat, NEW d \in Nat \ {0}
  PROVE  a % d \in 0 .. d - 1 /\ a = d * (a \div d) + (a % d)
OBVIOUS

LEMMA Multiples ==
  ASSUME NEW a \in Int, NEW b \in Int, NEW d \in Nat \ {0}
  PROVE  /\ a * d = d * a /\ a * d \in Int /\ (a - 1) * d = a * d - d
         /\ a < b => a * d + d <= b * d
         /\ a * d < b * d => a < b
OBVIOUS

LEMMA Small ==
  ASSUME NEW d \in Nat \ {0}, NEW a \in 0 .. d - 1
  PROVE  a % d = a
OBVIOUS

\* A plan that fits has as many chunks as it takes to reach the end of the file.
LEMMA TotalReaches ==
  ASSUME NEW fileSize \in Nat \ {0}, NEW chunkSize \in Nat \ {0}, Fits(fileSize, chunkSize)
  PROVE  /\ TotalChunks(fileSize, chunkSize) \in Nat \ {0}
         /\ (TotalChunks(fileSize, chunkSize) - 1) * chunkSize < fileSize
         /\ fileSize <= TotalChunks(fileSize, chunkSize) * chunkSize
<1> DEFINE a == fileSize + chunkSize - 1
           q == a \div chunkSize
<1>1. a \in Nat
  OBVIOUS
<1>2. q \in Nat /\ chunkSize * q <= a /\ a < chunkSize * q + chunkSize
  BY <1>1, Quotient
<1> HIDE DEF q
<1>3. ChunkNumbers \in Nat \ {0}
  BY PlanAssumption
<1>4. q * chunkSize = chunkSize * q /\ (q - 1) * chunkSize = q * chunkSize - chunkSize
  BY <1>2, Multiples
<1>5. q < ChunkNumbers
  <2>1. /\ chunkSize * (ChunkNumbers - 1) = (ChunkNumbers - 1) * chunkSize
        /\ (ChunkNumbers - 1) * chunkSize = ChunkNumbers * chunkSize - chunkSize
        /\ ChunkNumbers * chunkSize \in Int
    BY <1>3, Multiples
  <2>2. q * chunkSize < ChunkNumbers * chunkSize
    BY <1>2, <1>4, <2>1 DEF Fits
  <2> QED BY <1>2, <1>3, <2>2, Multiples
<1>6. TotalChunks(fileSize, chunkSize) = q
  <2>1. q % ChunkNumbers = q
    BY <1>2, <1>3, <1>5, Small
  <2> QED BY <2>1 DEF TotalChunks, q
<1>7. fileSize <= q * chunkSize /\ (q - 1) * chunkSize < fileSize
  BY <1>2, <1>4
<1>8. q # 0
  BY <1>2
<1> QED BY <1>2, <1>6, <1>7, <1>8

\* When the numbers suffice, the plan is exact.
LEMMA PlanCuts ==
  ASSUME NEW fileSize \in Nat, NEW chunkSize \in Nat \ {0}, Fits(fileSize, chunkSize)
  PROVE  CutsTheFile(Plan(fileSize, chunkSize), fileSize, chunkSize)
<1> DEFINE total == TotalChunks(fileSize, chunkSize)
           plan  == Plan(fileSize, chunkSize)
<1>1. CASE fileSize = 0
  <2>1. total = 0
    BY <1>1 DEF TotalChunks
  <2>2. DOMAIN plan = {}
    BY <2>1 DEF Plan
  <2>3. 0 .. fileSize - 1 = {}
    BY <1>1
  <2> HIDE DEF plan
  <2> QED BY <2>2, <2>3 DEF CutsTheFile, plan
<1>2. CASE fileSize # 0
  <2>1. /\ total \in Nat \ {0} /\ (total - 1) * chunkSize < fileSize
        /\ fileSize <= total * chunkSize
    BY <1>2, TotalReaches
  <2> HIDE DEF total
  <2>2. DOMAIN plan = 0 .. total - 1
    BY DEF Plan, total
  <2>3. ASSUME NEW id \in 0 .. total - 1
        PROVE  /\ plan[id].offset = id * chunkSize /\ id * chunkSize \in Nat
               /\ plan[id].length \in 1 .. chunkSize
               /\ id * chunkSize + plan[id].length <= fileSize
               /\ id < total - 1 => plan[id].length = chunkSize
               /\ id = total - 1 => id * chunkSize + plan[id].length = fileSize
    <3>1. plan[id] = [offset |-> id * chunkSize,
                      length |-> IF (IF fileSize > id * chunkSize
                                     THEN fileSize - id * chunkSize ELSE 0) < chunkSize
                                 THEN IF fileSize > id * chunkSize
                                      THEN fileSize - id * chunkSize ELSE 0
                                 ELSE chunkSize]
      BY DEF Plan, total
    <3>2. id \in Int /\ total \in Int /\ id * chunkSize \in Int
      BY <2>1, Multiples
    <3>3. id * chunkSize >= 0
      <4>1. id = 0 \/ 0 < id
        OBVIOUS
      <4>2. 0 * chunkSize = 0
        OBVIOUS
      <4> QED BY <3>2, <4>1, <4>2, Multiples
    <3>4. id < total - 1 => id * chunkSize + chunkSize <= (total - 1) * chunkSize
      BY <2>1, Multiples
    <3>5. (total - 1) * chunkSize = total * chunkSize - chunkSize /\ total * chunkSize \in Int
      BY <2>1, Multiples
    <3>6. id * chunkSize < fileSize
      BY <2>1, <3>2, <3>4, <3>5
    <3>7. /\ plan[id].offset = id * chunkSize
          /\ plan[id].length = IF fileSize - id * chunkSize < chunkSize
                               THEN fileSize - id * chunkSize ELSE chunkSize
      BY <3>1, <3>6
    <3> HIDE DEF plan
    <3> DEFINE offset == id * chunkSize
               length == plan[id].length
               end    == total * chunkSize
    <3>8. /\ offset \in Nat /\ end \in Nat /\ offset < fileSize /\ fileSize <= end
          /\ length = IF fileSize - offset < chunkSize THEN fileSize - offset ELSE chunkSize
          /\ id < total - 1 => offset + chunkSize <= end - chunkSize
          /\ end - chunkSize < fileSize
          /\ id = total - 1 => offset = end - chunkSize
      BY <2>1, <3>2, <3>3, <3>4, <3>5, <3>6, <3>7
    <3>9. /\ length \in 1 .. chunkSize /\ offset + length <= fileSize
          /\ id < total - 1 => length = chunkSize
          /\ id = total - 1 => offset + length = fileSize
      <4> HIDE DEF offset, length, end
      <4> QED BY <3>8
    <3> QED BY <3>7, <3>8, <3>9
  <2> HIDE DEF plan
  <2>4. \A id \in 0 .. total - 1 : BytesOf(plan[id]) \subseteq 0 .. fileSize - 1
    BY <2>3 DEF BytesOf
  <2>5. ASSUME NEW b \in 0 .. fileSize - 1
        PROVE  \E id \in 0 .. total - 1 : b \in BytesOf(plan[id])
    <3> DEFINE id == b \div chunkSize
    <3>1. id \in Nat /\ chunkSize * id <= b /\ b < chunkSize * id + chunkSize
      BY Quotient
    <3> HIDE DEF id
    <3>2. id * chunkSize = chunkSize * id /\ id * chunkSize \in Int
      BY <3>1, Multiples
    <3>3. id * chunkSize < total * chunkSize
      BY <2>1, <3>1, <3>2, Multiples
    <3>4. id < total
      BY <2>1, <3>1, <3>3, Multiples
    <3>5. id \in 0 .. total - 1
      BY <2>1, <3>1, <3>4
    <3>6. /\ plan[id].offset = id * chunkSize /\ plan[id].length \in 1 .. chunkSize
          /\ id < total - 1 => plan[id].length = chunkSize
          /\ id = total - 1 => id * chunkSize + plan[id].length = fileSize
      BY <2>3, <3>5
    <3>7. id < total - 1 \/ id = total - 1
      BY <2>1, <3>5
    <3>8. b < id * chunkSize + plan[id].length
      BY <3>1, <3>2, <3>6, <3>7
    <3> QED BY <3>1, <3>2, <3>5, <3>6, <3>8 DEF BytesOf
  <2>6. ASSUME NEW i \in 0 .. total - 1, NEW j \in 0 .. total - 1, i < j
        PROVE  BytesOf(plan[i]) \cap BytesOf(plan[j]) = {}
    <3>1. i * chunkSize + chunkSize <= j * chunkSize
      BY <2>6, Multiples
    <3>2. /\ plan[i].offset = i * chunkSize /\ i * chunkSize \in Nat
          /\ plan[i].length \in 1 .. chunkSize
      BY <2>3
    <3>3. plan[j].offset = j * chunkSize /\ j * chunkSize \in Nat
          /\ plan[j].length \in 1 .. chunkSize
      BY <2>3
    <3> DEFINE p == i * chunkSize
               q == j * chunkSize
               m == plan[i].length
               n == plan[j].length
    <3>4. /\ p \in Nat /\ q \in Nat /\ m \in 1 .. chunkSize /\ n \in 1 .. chunkSize
          /\ p + chunkSize <= q
          /\ BytesOf(plan[i]) = p .. p + m - 1 /\ BytesOf(plan[j]) = q .. q + n - 1
      BY <3>1, <3>2, <3>3 DEF BytesOf
    <3> HIDE DEF p, q, m, n
    <3> QED BY <3>4
  <2>7. ASSUME NEW i \in 0 .. total - 1, NEW j \in 0 .. total - 1, i # j
        PROVE  BytesOf(plan[i]) \cap BytesOf(plan[j]) = {}
    <3>1. i < j \/ j < i
      BY <2>7
    <3> QED BY <2>6, <3>1
  <2>8. \A id \in 0 .. total - 1 : plan[id].length \in 1 .. chunkSize
    BY <2>3
  <2> QED BY <2>2, <2>4, <2>5, <2>7, <2>8 DEF CutsTheFile, plan
<1> QED BY <1>1, <1>2

\* The plan cuts the file as it should, whatever the sizes, when the chunks can be
\* numbered, and only then: total_chunks is cut off to 32 bits (chunk/mod.rs).
THEOREM PlanIsExact ==
  ASSUME NEW fileSize \in Nat, NEW chunkSize \in Nat \ {0}
  PROVE  CutsTheFile(Plan(fileSize, chunkSize), fileSize, chunkSize) <=> Fits(fileSize, chunkSize)
<1> DEFINE total == TotalChunks(fileSize, chunkSize)
           plan  == Plan(fileSize, chunkSize)
           n     == ChunkNumbers - 1
<1>1. ASSUME ~Fits(fileSize, chunkSize), CutsTheFile(plan, fileSize, chunkSize)
      PROVE  FALSE
  <2>1. n \in Nat /\ ChunkNumbers \in Nat \ {0}
    BY PlanAssumption
  <2>2. n * chunkSize < fileSize /\ n * chunkSize \in Nat
    BY <1>1, <2>1, Multiples DEF Fits
  <2>3. total \in 0 .. n
    <3>1. (fileSize + chunkSize - 1) \div chunkSize \in Nat
      BY Quotient
    <3>2. ((fileSize + chunkSize - 1) \div chunkSize) % ChunkNumbers \in 0 .. n
      BY <2>1, <3>1, Rest
    <3> QED BY <2>1, <3>2 DEF TotalChunks
  <2> HIDE DEF total, n
  <2>4. DOMAIN plan = 0 .. total - 1
    BY DEF Plan, total
  <2>5. PICK id \in 0 .. total - 1 : fileSize - 1 \in BytesOf(plan[id])
    <3>1. fileSize - 1 \in 0 .. fileSize - 1
      BY <2>2
    <3> QED BY <1>1, <2>4, <3>1 DEF CutsTheFile
  <2>6. plan[id].offset = id * chunkSize /\ plan[id].length \in 1 .. chunkSize
    BY <1>1, <2>4, <2>5 DEF CutsTheFile, Plan, total
  <2>7. fileSize - 1 < id * chunkSize + chunkSize /\ id * chunkSize \in Int
    BY <2>5, <2>6, Multiples DEF BytesOf
  <2>8. id * chunkSize + chunkSize <= n * chunkSize
    BY <2>1, <2>3, <2>5, Multiples
  <2> QED BY <2>2, <2>7, <2>8
<1> QED BY <1>1, PlanCuts

\* Before it is connected, a resumed transfer counts the bytes of the chunks that are
\* done from the sizes alone (sender.rs); the session counts them from its plan.
THEOREM LengthsAgree ==
  ASSUME NEW fileSize \in Nat, NEW chunkSize \in Nat \ {0}, Fits(fileSize, chunkSize),
         NEW id \in DOMAIN Plan(fileSize, chunkSize)
  PROVE  ResumedLength(fileSize, chunkSize, id) = Plan(fileSize, chunkSize)[id].length
<1> DEFINE total == TotalChunks(fileSize, chunkSize)
           r     == fileSize % chunkSize
           q     == fileSize \div chunkSize
           off   == id * chunkSize
           end   == total * chunkSize
<1>1. id \in 0 .. total - 1
  BY DEF Plan
<1>2. fileSize # 0 /\ total \in Int
  <2>1. TotalChunks(0, chunkSize) = 0
    BY DEF TotalChunks
  <2>2. fileSize # 0
    BY <1>1, <2>1
  <2> QED BY <2>2, TotalReaches
<1>3. total \in Nat \ {0} /\ (total - 1) * chunkSize < fileSize /\ fileSize <= end
  BY <1>2, TotalReaches
<1>4. r \in 0 .. chunkSize - 1 /\ fileSize = chunkSize * q + r /\ q \in Nat
  BY Rest, Quotient
<1>5. /\ ResumedLength(fileSize, chunkSize, id)
           = IF id = total - 1 /\ r > 0 THEN r ELSE chunkSize
  BY <1>3 DEF ResumedLength
<1>6. Plan(fileSize, chunkSize)[id].length
        = IF (IF fileSize > off THEN fileSize - off ELSE 0) < chunkSize
          THEN IF fileSize > off THEN fileSize - off ELSE 0 ELSE chunkSize
  BY <1>1 DEF Plan
<1> HIDE DEF total, r, q
<1>7. (total - 1) * chunkSize = end - chunkSize /\ end \in Int /\ off \in Int
  BY <1>1, <1>3, Multiples
<1>8. CASE id < total - 1
  <2>1. off + chunkSize <= (total - 1) * chunkSize
    BY <1>1, <1>3, <1>8, Multiples
  <2> HIDE DEF off, end
  <2>2. fileSize > off /\ ~(fileSize - off < chunkSize) /\ id # total - 1
    BY <1>1, <1>3, <1>7, <1>8, <2>1
  <2> QED BY <1>5, <1>6, <2>2
<1>9. CASE id = total - 1
  <2>1. off = end - chunkSize
    BY <1>7, <1>9
  <2>2. q * chunkSize = chunkSize * q /\ q * chunkSize \in Int
    BY <1>4, Multiples
  <2>3. r > 0 => q = total - 1
    <3>1. ASSUME r > 0, q < total - 1 PROVE FALSE
      <4>1. q * chunkSize + chunkSize <= (total - 1) * chunkSize
        BY <1>3, <1>4, <3>1, Multiples
      <4> HIDE DEF end
      <4> QED BY <1>3, <1>4, <2>2, <4>1
    <3>2. ASSUME r > 0, total - 1 < q PROVE FALSE
      <4>1. (total - 1) * chunkSize + chunkSize <= q * chunkSize
        BY <1>3, <1>4, <3>2, Multiples
      <4> HIDE DEF end
      <4> QED BY <1>3, <1>4, <1>7, <2>2, <3>2, <4>1
    <3> QED BY <1>3, <1>4, <3>1, <3>2
  <2>4. r = 0 => q = total
    <3>1. ASSUME r = 0, q < total PROVE FALSE
      <4>1. q * chunkSize + chunkSize <= total * chunkSize
        BY <1>3, <1>4, <3>1, Multiples
      <4> QED BY <1>3, <1>4, <1>7, <2>2, <3>1, <4>1
    <3>2. ASSUME r = 0, total < q PROVE FALSE
      <4>1. total * chunkSize + chunkSize <= q * chunkSize
        BY <1>3, <1>4, <3>2, Multiples
      <4> QED BY <1>3, <1>4, <1>7, <2>2, <3>2, <4>1
    <3> QED BY <1>3, <1>4, <3>1, <3>2
  <2>5. fileSize - off = IF r > 0 THEN r ELSE chunkSize
    <3>1. CASE r > 0
      <4>1. q * chunkSize = end - chunkSize
        BY <1>7, <2>3, <3>1
      <4> HIDE DEF off, end
      <4> QED BY <1>4, <1>7, <2>1, <2>2, <3>1, <4>1
    <3>2. CASE ~(r > 0)
      <4>1. r = 0
        BY <1>4, <3>2
      <4>2. q * chunkSize = end
        BY <2>4, <4>1
      <4> HIDE DEF off, end
      <4> QED BY <1>4, <1>7, <2>1, <2>2, <3>2, <4>1, <4>2
    <3> QED BY <3>1, <3>2
  <2> HIDE DEF off, end
  <2> QED BY <1>4, <1>5, <1>6, <1>7, <1>9, <2>5
<1> QED BY <1>1, <1>3, <1>8, <1>9

\* The sizes that select_optimal_chunk_size chooses suffice for every file up to 2 MiB
\* times the largest chunk number: 8 PiB with numbers of 32 bits.
THEOREM OptimalSizeFits ==
  ASSUME ChunkNumbers > 64, NEW highSpeed \in BOOLEAN,
         NEW fileSize \in 0 .. 2 * MiB * (ChunkNumbers - 1)
  PROVE  LET chunkSize == OptimalChunkSize(fileSize, highSpeed)
         IN CutsTheFile(Plan(fileSize, chunkSize), fileSize, chunkSize)
<1> DEFINE chunkSize == OptimalChunkSize(fileSize, highSpeed)
<1>1. MiB \in Nat \ {0} /\ MiB > 1000 /\ 4 * (256 * KiB) = MiB /\ 2 * (512 * KiB) = MiB
  BY SMT DEF MiB, KiB
<1>2. /\ fileSize < MiB => chunkSize = 256 * KiB
      /\ fileSize \in MiB .. 4 * MiB - 1 => chunkSize = 512 * KiB
      /\ fileSize \in 4 * MiB .. 64 * MiB - 1 => chunkSize \in {MiB, 2 * MiB}
      /\ fileSize >= 64 * MiB => chunkSize \in {2 * MiB, 4 * MiB}
  <2>0. fileSize \in Int
    BY <1>1, PlanAssumption
  <2>1. fileSize < MiB => chunkSize = 256 * KiB
    BY <1>1, <2>0 DEF OptimalChunkSize
  <2>2. fileSize \in MiB .. 4 * MiB - 1 => chunkSize = 512 * KiB
    BY <1>1, <2>0 DEF OptimalChunkSize
  <2>3. fileSize \in 4 * MiB .. 64 * MiB - 1 => chunkSize \in {MiB, 2 * MiB}
    BY <1>1, <2>0 DEF OptimalChunkSize
  <2>4. fileSize >= 64 * MiB => chunkSize \in {2 * MiB, 4 * MiB}
    BY <1>1, <2>0 DEF OptimalChunkSize
  <2> QED BY <2>1, <2>2, <2>3, <2>4
<1> HIDE DEF chunkSize
<1> DEFINE n == ChunkNumbers - 1
<1>3. n \in Nat /\ n >= 64
  BY PlanAssumption
<1> HIDE DEF n
<1>4. fileSize \in Nat /\ fileSize <= (2 * MiB) * n
  BY <1>1, <1>3, PlanAssumption DEF n
<1>5. KiB \in Nat \ {0}
  BY SMT DEF KiB
<1>6. chunkSize \in Nat \ {0}
  BY <1>1, <1>2, <1>4, <1>5
<1>7. ASSUME NEW k \in Nat \ {0} PROVE 64 * k <= k * n
  BY <1>3
<1>8. fileSize <= chunkSize * n
  <2>1. CASE fileSize < MiB
    <3>1. 4 * chunkSize = MiB
      BY <1>1, <1>2, <2>1
    <3>2. 64 * chunkSize <= chunkSize * n
      BY <1>6, <1>7
    <3> QED BY <1>1, <1>3, <1>6, <2>1, <3>1, <3>2
  <2>2. CASE fileSize \in MiB .. 4 * MiB - 1
    <3>1. 2 * chunkSize = MiB
      BY <1>1, <1>2, <2>2
    <3>2. 64 * chunkSize <= chunkSize * n
      BY <1>6, <1>7
    <3> QED BY <1>1, <1>3, <1>6, <2>2, <3>1, <3>2
  <2>3. CASE fileSize \in 4 * MiB .. 64 * MiB - 1
    <3>1. 64 * chunkSize <= chunkSize * n /\ chunkSize >= MiB
      BY <1>1, <1>2, <1>6, <1>7, <2>3
    <3> QED BY <1>1, <1>3, <1>6, <2>3, <3>1
  <2>4. CASE fileSize >= 64 * MiB
    <3>1. CASE chunkSize = 2 * MiB
      BY <1>4, <3>1
    <3>2. CASE chunkSize = 4 * MiB
      <4>1. (4 * MiB) * n = (2 * MiB) * n + (2 * MiB) * n
        BY <1>1, <1>3
      <4>2. (2 * MiB) * n \in Nat
        BY <1>1, <1>3
      <4> QED BY <1>4, <3>2, <4>1, <4>2
    <3> QED BY <1>2, <2>4, <3>1, <3>2
  <2> QED BY <1>1, <1>4, <2>1, <2>2, <2>3, <2>4
<1>9. Fits(fileSize, chunkSize)
  BY <1>8 DEF Fits, n
<1> QED BY <1>4, <1>6, <1>9, PlanIsExact DEF chunkSize

------------------------------------------------------------------------------
(* The MetaActors: what meta.json says was reported.                         *)

Message == [kind : {"done", "stop"}, chunk : Int]

MetaTyped ==
  /\ metaPc \in [MetaSlots -> {"down", "select", "flush", "swap"}]
  /\ metaExits \in [MetaSlots -> BOOLEAN]
  /\ completedSet \in [MetaSlots -> SUBSET MetaChunks]
  /\ dirtyEvents \in [MetaSlots -> Nat] /\ missed \in [MetaSlots -> Nat]
  /\ metaQueue \in [MetaSlots -> Seq(Message)]
  /\ renameReplaces \in BOOLEAN /\ sharedFile \in BOOLEAN
  /\ reported \subseteq MetaChunks

FileInv == metaFile.ranges \in Seq(Ranges) /\ Apart(metaFile.ranges)

\* Whatever is on its way to the file was reported.
KnowsReported(a) ==
  /\ completedSet[a] \subseteq reported
  /\ \A i \in 1 .. Len(metaQueue[a]) :
       metaQueue[a][i].kind = "done" => metaQueue[a][i].chunk \in reported

HonestInv == Saved \subseteq reported /\ \A a \in MetaSlots : KnowsReported(a)

\* Without an overlap one actor lives at most.
AloneInv ==
  ~sharedFile =>
    \A a, b \in MetaSlots : metaPc[a] # "down" /\ metaPc[b] # "down" => a = b

Unsaved(a) == Cardinality(completedSet[a] \ Saved)

\* The case in which the file holds what an actor knew: it writes alone, and no write
\* left it without a file.
Counts(a) == ~sharedFile /\ (renameReplaces \/ missed[a] = 0)

\* What a lone actor knows of the file: all that it says; no file is there between
\* the removal and the rename; every unsaved chunk has been counted since the last
\* flush, and a full batch is flushed at once.
KnowsFile(a) ==
  /\ metaPc[a] # "down" /\ ~sharedFile => Saved \subseteq completedSet[a]
  /\ metaPc[a] = "swap" => ~renameReplaces /\ (sharedFile \/ metaFile = NoFile)
  /\ metaPc[a] = "select" /\ Counts(a) =>
       /\ Unsaved(a) <= dirtyEvents[a] + DoneBatch * missed[a]
       /\ Unsaved(a) < DoneBatch * (missed[a] + 1)
  /\ metaPc[a] = "flush" /\ Counts(a) => Unsaved(a) <= DoneBatch * (missed[a] + 1)

MetaInv == MetaTyped /\ FileInv /\ HonestInv /\ AloneInv /\ \A a \in MetaSlots : KnowsFile(a)

LEMMA MetaConstants ==
  /\ MetaChunks \subseteq Nat /\ IsFiniteSet(MetaChunks)
  /\ DoneBatch \in Nat /\ DoneBatch > 0
BY MetaAssumption

LEMMA NothingSaved == NoFile.ranges \in Seq(Ranges) /\ Apart(NoFile.ranges)
                      /\ ExpandRanges(NoFile.ranges) = {}
<1>1. NoFile.ranges = <<>> /\ <<>> \in Seq(Ranges) /\ Len(<<>>) = 0
  BY DEF NoFile
<1>2. \A x : x \notin ExpandRanges(<<>>)
  <2>1. Len(<<>>) = 0 /\ 1 .. 0 = {}
    OBVIOUS
  <2> QED BY <1>1, <2>1, Expanded
<1>3. ExpandRanges(<<>>) = {}
  BY <1>2
<1>4. Apart(<<>>)
  BY <1>1 DEF Apart
<1> QED BY <1>1, <1>3, <1>4

LEMMA EmptyQueue == <<>> \in Seq(Message) /\ Len(<<>>) = 0 /\ 1 .. 0 = {}
OBVIOUS

LEMMA MetaStart == MetaInit => MetaInv
<1> SUFFICES ASSUME MetaInit PROVE MetaInv
  OBVIOUS
<1>1. /\ metaPc = [a \in MetaSlots |-> "down"] /\ metaExits = [a \in MetaSlots |-> FALSE]
      /\ completedSet = [a \in MetaSlots |-> {}]
      /\ dirtyEvents = [a \in MetaSlots |-> 0] /\ missed = [a \in MetaSlots |-> 0]
      /\ metaQueue = [a \in MetaSlots |-> <<>>]
      /\ metaFile = NoFile /\ reported = {} /\ sharedFile = FALSE
      /\ renameReplaces \in BOOLEAN
  BY MetaAssumption DEF MetaInit
<1>2. MetaTyped
  BY <1>1, EmptyQueue DEF MetaTyped
<1>3. FileInv /\ Saved = {}
  BY <1>1, NothingSaved DEF FileInv, Saved
<1>4. \A a \in MetaSlots : KnowsReported(a) /\ KnowsFile(a)
  BY <1>1, EmptyQueue DEF KnowsReported, KnowsFile
<1> QED BY <1>1, <1>2, <1>3, <1>4 DEF MetaInv, HonestInv, AloneInv

\* A step that writes nothing leaves what the file says.
LEMMA FileKept ==
  ASSUME FileInv, UNCHANGED metaFile
  PROVE  FileInv' /\ Saved' = Saved
BY DEF FileInv, Saved

LEMMA FileWritten ==
  ASSUME MetaInv, NEW a \in MetaSlots,
         metaFile' = [there |-> TRUE, ranges |-> CoalesceRanges(completedSet[a])]
  PROVE  FileInv' /\ Saved' = completedSet[a]
<1>1. completedSet[a] \subseteq Nat /\ IsFiniteSet(completedSet[a])
  <2>1. completedSet[a] \subseteq MetaChunks
    BY DEF MetaInv, MetaTyped
  <2> QED BY <2>1, MetaConstants, FS_Subset
<1>2. metaFile'.ranges = CoalesceRanges(completedSet[a])
  OBVIOUS
<1> QED BY <1>1, <1>2, RangesRoundTrip DEF FileInv, Saved

\* The chunks that a kill would lose, in a step of HandleChunk.
LEMMA OneMoreUnsaved ==
  ASSUME NEW S, S \subseteq MetaChunks, NEW T, NEW c \in MetaChunks
  PROVE  /\ Cardinality(S \ T) \in Nat
         /\ Cardinality((S \cup {c}) \ T) \in Nat
         /\ Cardinality((S \cup {c}) \ T) <= Cardinality(S \ T) + 1
<1>1. IsFiniteSet(S \ T)
  BY MetaConstants, FS_Subset
<1>2. Cardinality(S \ T) \in Nat
  BY <1>1, FS_CardinalityType
<1>3. CASE c \in (S \ T) \/ c \in T
  <2>1. (S \cup {c}) \ T = S \ T
    BY <1>3
  <2> QED BY <1>2, <2>1
<1>4. CASE ~(c \in (S \ T) \/ c \in T)
  <2>1. (S \cup {c}) \ T = (S \ T) \cup {c}
    BY <1>4
  <2>2. Cardinality((S \ T) \cup {c}) = Cardinality(S \ T) + 1
    BY <1>1, <1>4, FS_AddElement
  <2> QED BY <1>2, <2>1, <2>2
<1> QED BY <1>3, <1>4

LEMMA UnsavedCounted ==
  ASSUME MetaTyped, NEW a \in MetaSlots
  PROVE  /\ Unsaved(a) \in Nat
         /\ Unsaved(a) <= Cardinality(MetaChunks)
         /\ completedSet[a] \subseteq Saved => Unsaved(a) = 0
<1>1. completedSet[a] \ Saved \subseteq MetaChunks
  BY DEF MetaTyped
<1>2. Cardinality(completedSet[a] \ Saved) \in Nat
      /\ Cardinality(completedSet[a] \ Saved) <= Cardinality(MetaChunks)
  BY <1>1, MetaConstants, FS_Subset, FS_CardinalityType
<1>3. completedSet[a] \subseteq Saved => completedSet[a] \ Saved = {}
  OBVIOUS
<1> QED BY <1>2, <1>3, FS_EmptySet DEF Unsaved

\* The bound with one more failed flush.
LEMMA OneMoreBatch ==
  ASSUME NEW m \in Nat
  PROVE  /\ DoneBatch * (m + 1) \in Nat /\ DoneBatch * (m + 1) = DoneBatch * m + DoneBatch
         /\ DoneBatch * m \in Nat /\ DoneBatch * m < DoneBatch * (m + 1)
         /\ DoneBatch * 0 = 0
BY MetaConstants

\* A step of one actor leaves what holds of the others, as long as it leaves the file
\* or they do not count on it.
LEMMA OthersKept ==
  ASSUME MetaInv, NEW a \in MetaSlots, metaPc[a] # "down",
         NEW b \in MetaSlots, b # a,
         UNCHANGED <<renameReplaces, sharedFile>>, reported \subseteq reported',
         metaPc'[b] = metaPc[b], completedSet'[b] = completedSet[b],
         dirtyEvents'[b] = dirtyEvents[b], missed'[b] = missed[b],
         metaQueue'[b] = metaQueue[b]
  PROVE  KnowsReported(b)' /\ KnowsFile(b)'
<1>1. KnowsReported(b)'
  BY DEF MetaInv, HonestInv, KnowsReported
<1>2. ~sharedFile => metaPc[b] = "down"
  BY DEF MetaInv, AloneInv
<1>3. metaPc[b] = "swap" => ~renameReplaces
  BY DEF MetaInv, KnowsFile
<1> QED BY <1>1, <1>2, <1>3 DEF KnowsFile, Counts

\* Actors that end promise nothing more.
LEMMA Ended ==
  ASSUME MetaInv, NEW ended, ended \subseteq MetaSlots, End(ended)
  PROVE  /\ metaPc' \in [MetaSlots -> {"down", "select", "flush", "swap"}]
         /\ metaExits' \in [MetaSlots -> BOOLEAN]
         /\ completedSet' \in [MetaSlots -> SUBSET MetaChunks]
         /\ dirtyEvents' \in [MetaSlots -> Nat] /\ missed' \in [MetaSlots -> Nat]
         /\ metaQueue' \in [MetaSlots -> Seq(Message)]
         /\ \A a \in ended : /\ metaPc'[a] = "down" /\ completedSet'[a] = {}
                             /\ metaQueue'[a] = <<>>
         /\ \A a \in MetaSlots \ ended :
              /\ metaPc'[a] = metaPc[a] /\ completedSet'[a] = completedSet[a]
              /\ dirtyEvents'[a] = dirtyEvents[a] /\ missed'[a] = missed[a]
              /\ metaQueue'[a] = metaQueue[a]
<1>1. MetaTyped
  BY DEF MetaInv
<1>2. /\ metaPc' \in [MetaSlots -> {"down", "select", "flush", "swap"}]
      /\ metaExits' \in [MetaSlots -> BOOLEAN]
  BY <1>1 DEF End, MetaTyped
<1>3. completedSet' \in [MetaSlots -> SUBSET MetaChunks]
  BY <1>1 DEF End, MetaTyped
<1>4. dirtyEvents' \in [MetaSlots -> Nat] /\ missed' \in [MetaSlots -> Nat]
  BY <1>1 DEF End, MetaTyped
<1>5. metaQueue' \in [MetaSlots -> Seq(Message)]
  BY <1>1, EmptyQueue DEF End, MetaTyped
<1>6. \A a \in ended : /\ metaPc'[a] = "down" /\ completedSet'[a] = {}
                       /\ metaQueue'[a] = <<>>
  BY DEF End
<1>7. \A a \in MetaSlots \ ended :
        /\ metaPc'[a] = metaPc[a] /\ completedSet'[a] = completedSet[a]
        /\ dirtyEvents'[a] = dirtyEvents[a] /\ missed'[a] = missed[a]
        /\ metaQueue'[a] = metaQueue[a]
  BY DEF End
<1> QED BY <1>2, <1>3, <1>4, <1>5, <1>6, <1>7

LEMMA DownKnows ==
  ASSUME NEW a \in MetaSlots, metaPc[a] = "down", completedSet[a] = {}, metaQueue[a] = <<>>
  PROVE  KnowsReported(a) /\ KnowsFile(a)
BY EmptyQueue DEF KnowsReported, KnowsFile

\* One actor ends, having written its file or not.
LEMMA LastStep ==
  ASSUME MetaInv, NEW a \in MetaSlots, metaPc[a] # "down", End({a}), FileInv',
         UNCHANGED <<renameReplaces, sharedFile, reported>>, Saved' \subseteq reported
  PROVE  MetaInv'
<1>1. /\ metaPc' \in [MetaSlots -> {"down", "select", "flush", "swap"}]
      /\ metaExits' \in [MetaSlots -> BOOLEAN]
      /\ completedSet' \in [MetaSlots -> SUBSET MetaChunks]
      /\ dirtyEvents' \in [MetaSlots -> Nat] /\ missed' \in [MetaSlots -> Nat]
      /\ metaQueue' \in [MetaSlots -> Seq(Message)]
      /\ metaPc'[a] = "down" /\ completedSet'[a] = {} /\ metaQueue'[a] = <<>>
      /\ \A b \in MetaSlots \ {a} :
           /\ metaPc'[b] = metaPc[b] /\ completedSet'[b] = completedSet[b]
           /\ dirtyEvents'[b] = dirtyEvents[b] /\ missed'[b] = missed[b]
           /\ metaQueue'[b] = metaQueue[b]
  BY Ended
<1>2. MetaTyped'
  BY <1>1 DEF MetaInv, MetaTyped
<1>3. KnowsReported(a)' /\ KnowsFile(a)'
  BY <1>1, EmptyQueue DEF KnowsReported, KnowsFile
<1>4. \A b \in MetaSlots : b # a => KnowsReported(b)' /\ KnowsFile(b)'
  BY <1>1, OthersKept
<1>5. AloneInv'
  BY <1>1 DEF MetaInv, AloneInv
<1> QED BY <1>2, <1>3, <1>4, <1>5 DEF MetaInv, HonestInv

\* The facts about one living actor that make a step of it keep the invariant.
LEMMA OneActorStep ==
  ASSUME MetaInv, NEW a \in MetaSlots, metaPc[a] # "down",
         MetaTyped', FileInv', Saved' \subseteq reported',
         KnowsReported(a)', KnowsFile(a)',
         UNCHANGED <<renameReplaces, sharedFile>>, reported \subseteq reported',
         \A b \in MetaSlots \ {a} :
           /\ metaPc'[b] = metaPc[b] /\ completedSet'[b] = completedSet[b]
           /\ dirtyEvents'[b] = dirtyEvents[b] /\ missed'[b] = missed[b]
           /\ metaQueue'[b] = metaQueue[b]
  PROVE  MetaInv'
<1>1. \A b \in MetaSlots : b # a => KnowsReported(b)' /\ KnowsFile(b)'
  BY OthersKept
<1>2. AloneInv'
  BY DEF MetaInv, AloneInv
<1> QED BY <1>1, <1>2 DEF MetaInv, HonestInv

\* A flush ends: the file holds what the actor knows, or the flush is counted as
\* failed, or another actor's file is in the way.
LEMMA AfterFlush ==
  ASSUME MetaInv, NEW a \in MetaSlots, metaPc[a] \in {"flush", "swap"},
         NEW failures \in Nat, Flushed(a, failures), FileInv',
         \/ Saved' = completedSet[a] /\ failures = 0
         \/ Saved' = Saved /\ failures = missed[a] + 1
         \/ Saved' = Saved /\ failures = missed[a] /\ sharedFile
  PROVE  MetaInv'
<1> USE DEF MetaInv
<1>1. UNCHANGED <<renameReplaces, reported, sharedFile>> /\ metaPc[a] # "down"
  BY DEF Flushed, lifeVars
<1>2. Saved' \subseteq reported
  BY DEF HonestInv, KnowsReported
<1>3. CASE End({a})
  BY <1>1, <1>2, <1>3, LastStep
<1>4. CASE ~End({a})
  <2>1. /\ dirtyEvents' = [dirtyEvents EXCEPT ![a] = 0]
        /\ metaPc' = [metaPc EXCEPT ![a] = "select"]
        /\ missed' = [missed EXCEPT ![a] = failures]
        /\ UNCHANGED <<metaExits, completedSet, metaQueue>>
    BY <1>4 DEF Flushed
  <2>2. /\ MetaTyped' /\ metaPc'[a] = "select" /\ dirtyEvents'[a] = 0
        /\ missed'[a] = failures
        /\ \A b \in MetaSlots \ {a} :
             /\ metaPc'[b] = metaPc[b] /\ completedSet'[b] = completedSet[b]
             /\ dirtyEvents'[b] = dirtyEvents[b] /\ missed'[b] = missed[b]
             /\ metaQueue'[b] = metaQueue[b]
    BY <1>1, <2>1 DEF MetaTyped
  <2>3. KnowsReported(a)'
    BY <1>1, <2>1 DEF HonestInv, KnowsReported
  <2>4. KnowsFile(a)'
    <3>1. ~sharedFile => Saved' \subseteq completedSet[a]
      BY DEF KnowsFile
    <3>2. ASSUME Counts(a)'
          PROVE  /\ Unsaved(a)' <= DoneBatch * failures
                 /\ Unsaved(a)' < DoneBatch * (failures + 1)
      <4>1. /\ ~sharedFile /\ (renameReplaces \/ failures = 0)
        BY <1>1, <2>2, <3>2 DEF Counts
      <4>2. Unsaved(a)' \in Nat
        <5>1. completedSet'[a] \ Saved' \subseteq MetaChunks
          BY <2>1 DEF MetaTyped
        <5> QED BY <5>1, MetaConstants, FS_Subset, FS_CardinalityType DEF Unsaved
      <4>3. CASE Saved' = completedSet[a]
        <5>1. completedSet'[a] \ Saved' = {}
          BY <2>1, <4>3
        <5>2. Unsaved(a)' = 0
          BY <5>1, FS_EmptySet DEF Unsaved
        <5> QED BY <5>2, OneMoreBatch
      <4>4. CASE Saved' = Saved /\ failures = missed[a] + 1
        <5>1. missed[a] \in Nat
          BY DEF MetaTyped
        <5>2. renameReplaces /\ metaPc[a] = "flush" /\ Counts(a)
          BY <4>1, <4>4, <5>1 DEF KnowsFile, Counts
        <5>3. Unsaved(a) <= DoneBatch * (missed[a] + 1)
          BY <5>2 DEF KnowsFile
        <5>4. Unsaved(a)' = Unsaved(a)
          BY <2>1, <4>4 DEF Unsaved
        <5> QED BY <4>2, <4>4, <5>3, <5>4, OneMoreBatch
      <4> QED BY <4>1, <4>3, <4>4
    <3>3. DoneBatch * failures \in Nat
      BY OneMoreBatch
    <3> QED BY <1>1, <2>1, <2>2, <3>1, <3>2, <3>3 DEF KnowsFile
  <2> QED BY <1>1, <1>2, <2>2, <2>3, <2>4, OneActorStep
<1> QED BY <1>3, <1>4

\* Taking the first message of a queue leaves the others.
LEMMA QueueTail ==
  ASSUME MetaTyped, NEW a \in MetaSlots, metaQueue[a] # <<>>
  PROVE  /\ Tail(metaQueue[a]) \in Seq(Message) /\ Head(metaQueue[a]) \in Message
         /\ \A i \in 1 .. Len(Tail(metaQueue[a])) :
              \E j \in 1 .. Len(metaQueue[a]) : Tail(metaQueue[a])[i] = metaQueue[a][j]
         /\ 1 \in 1 .. Len(metaQueue[a]) /\ Head(metaQueue[a]) = metaQueue[a][1]
<1> DEFINE q == metaQueue[a]
<1>1. q \in Seq(Message)
  BY DEF MetaTyped
<1>2. q # <<>>
  OBVIOUS
<1> HIDE DEF q
<1>3. /\ Head(q) \in Message /\ Tail(q) \in Seq(Message)
      /\ Len(Tail(q)) = Len(q) - 1
      /\ \A i \in 1 .. Len(Tail(q)) : Tail(q)[i] = q[i + 1]
  BY <1>1, <1>2, HeadTailProperties
<1>4. Len(q) \in Nat /\ Len(q) > 0
  BY <1>1, <1>2, EmptySeq, LenProperties
<1>5. Head(q) = q[1] /\ 1 \in 1 .. Len(q)
  BY <1>1, <1>4
<1>6. ASSUME NEW i \in 1 .. Len(Tail(q))
      PROVE  \E j \in 1 .. Len(q) : Tail(q)[i] = q[j]
  <2>1. i + 1 \in 1 .. Len(q)
    BY <1>3, <1>4
  <2> QED BY <1>3, <2>1
<1> QED BY <1>3, <1>5, <1>6 DEF q

LEMMA SpawnKeeps == ASSUME MetaInv, NEW a \in MetaSlots, SpawnMeta(a) PROVE MetaInv'
<1> USE DEF MetaInv
<1>1. /\ metaPc[a] = "down"
      /\ metaPc' = [metaPc EXCEPT ![a] = "flush"]
      /\ completedSet' = [completedSet EXCEPT ![a] = Saved]
      /\ sharedFile' = \E b \in MetaSlots : metaPc[b] # "down"
      /\ UNCHANGED <<metaExits, dirtyEvents, metaQueue, missed, metaFile, renameReplaces,
                     reported>>
  BY DEF SpawnMeta, SpawnWith, diskVars
<1>2. FileInv' /\ Saved' = Saved
  BY <1>1, FileKept
<1>3. Saved \subseteq MetaChunks
  BY DEF HonestInv, MetaTyped
<1>4. MetaTyped'
  <2>1. sharedFile' \in BOOLEAN
    BY <1>1
  <2>2. completedSet' \in [MetaSlots -> SUBSET MetaChunks]
    BY <1>1, <1>3 DEF MetaTyped
  <2>3. metaPc' \in [MetaSlots -> {"down", "select", "flush", "swap"}]
    BY <1>1 DEF MetaTyped
  <2> QED BY <1>1, <2>1, <2>2, <2>3 DEF MetaTyped
<1>5. /\ metaPc'[a] = "flush" /\ completedSet'[a] = Saved
      /\ \A b \in MetaSlots \ {a} : metaPc'[b] = metaPc[b] /\ completedSet'[b] = completedSet[b]
  BY <1>1 DEF MetaTyped
<1>6. HonestInv'
  <2>1. \A b \in MetaSlots : KnowsReported(b)'
    BY <1>1, <1>5 DEF HonestInv, KnowsReported
  <2> QED BY <1>1, <1>2, <2>1 DEF HonestInv
<1>7. AloneInv'
  BY <1>1, <1>5 DEF AloneInv
<1>8. KnowsFile(a)'
  <2>1. completedSet'[a] \ Saved' = {}
    BY <1>2, <1>5
  <2>2. Unsaved(a)' = 0
    BY <2>1, FS_EmptySet DEF Unsaved
  <2>3. missed'[a] \in Nat
    BY <1>4 DEF MetaTyped
  <2> QED BY <1>2, <1>5, <2>2, <2>3, OneMoreBatch DEF KnowsFile
<1>9. ASSUME NEW b \in MetaSlots, b # a PROVE KnowsFile(b)'
  <2>1. CASE metaPc[b] = "down"
    BY <1>5, <1>9, <2>1 DEF KnowsFile
  <2>2. CASE metaPc[b] # "down"
    <3>1. sharedFile'
      BY <1>1, <2>2
    <3>2. metaPc[b] = "swap" => ~renameReplaces
      BY DEF KnowsFile
    <3> QED BY <1>1, <1>5, <1>9, <3>1, <3>2 DEF KnowsFile, Counts
  <2> QED BY <2>1, <2>2
<1> QED BY <1>2, <1>4, <1>6, <1>7, <1>8, <1>9

LEMMA ChunkKeeps == ASSUME MetaInv, NEW a \in MetaSlots, HandleChunk(a) PROVE MetaInv'
<1> USE DEF MetaInv
<1> DEFINE m == Head(metaQueue[a])
           known == completedSet[a] \cup {m.chunk}
<1>1. /\ metaPc[a] = "select" /\ metaQueue[a] # <<>>
      /\ UNCHANGED <<metaExits, missed, metaFile, renameReplaces, reported, sharedFile>>
      /\ dirtyEvents' = [dirtyEvents EXCEPT ![a] = @ + 1]
      /\ metaQueue' = [metaQueue EXCEPT ![a] = Tail(@)]
  BY DEF HandleChunk, diskVars, lifeVars
<1>2. FileInv' /\ Saved' = Saved
  BY <1>1, FileKept
<1>3. /\ Tail(metaQueue[a]) \in Seq(Message) /\ m \in Message
      /\ \A i \in 1 .. Len(Tail(metaQueue[a])) :
           \E j \in 1 .. Len(metaQueue[a]) : Tail(metaQueue[a])[i] = metaQueue[a][j]
      /\ 1 \in 1 .. Len(metaQueue[a]) /\ m = metaQueue[a][1]
  BY <1>1, QueueTail
<1>4. /\ completedSet' = [completedSet EXCEPT ![a] = known]
      /\ \/ metaPc' = [metaPc EXCEPT ![a] = "flush"]
         \/ metaPc' = metaPc /\ ~(dirtyEvents[a] + 1 >= DoneBatch)
      /\ m.kind = "done"
  BY DEF HandleChunk, FlushDue, MetaTyped
<1>5. m.chunk \in reported
  BY <1>3, <1>4 DEF HonestInv, KnowsReported
<1>6. completedSet[a] \subseteq reported /\ reported \subseteq MetaChunks
  BY DEF HonestInv, KnowsReported, MetaTyped
<1>7. known \subseteq reported /\ completedSet[a] \subseteq known
  BY <1>5, <1>6
<1>8. CASE TRUE
  <2> DEFINE n == dirtyEvents[a] + 1
  <2>1. MetaTyped'
    <3>1. completedSet' \in [MetaSlots -> SUBSET MetaChunks]
      BY <1>4, <1>6, <1>7 DEF MetaTyped
    <3>2. metaPc' \in [MetaSlots -> {"down", "select", "flush", "swap"}]
      BY <1>4 DEF MetaTyped
    <3>3. dirtyEvents' \in [MetaSlots -> Nat]
      BY <1>1 DEF MetaTyped
    <3>4. metaQueue' \in [MetaSlots -> Seq(Message)]
      BY <1>1, <1>3 DEF MetaTyped
    <3> QED BY <1>1, <3>1, <3>2, <3>3, <3>4 DEF MetaTyped
  <2>2. /\ metaPc'[a] \in {"select", "flush"} /\ completedSet'[a] = known
        /\ dirtyEvents'[a] = n /\ metaQueue'[a] = Tail(metaQueue[a])
        /\ missed'[a] = missed[a]
        /\ metaPc'[a] = "select" => ~(n >= DoneBatch)
    BY <1>1, <1>4 DEF MetaTyped
  <2>3. \A b \in MetaSlots \ {a} :
          /\ metaPc'[b] = metaPc[b] /\ completedSet'[b] = completedSet[b]
          /\ dirtyEvents'[b] = dirtyEvents[b] /\ missed'[b] = missed[b]
          /\ metaQueue'[b] = metaQueue[b]
    BY <1>1, <1>4 DEF MetaTyped
  <2>4. KnowsReported(a)'
    <3>1. \A i \in 1 .. Len(metaQueue[a]) :
            metaQueue[a][i].kind = "done" => metaQueue[a][i].chunk \in reported
      BY DEF HonestInv, KnowsReported
    <3>2. \A i \in 1 .. Len(Tail(metaQueue[a])) :
            Tail(metaQueue[a])[i].kind = "done" => Tail(metaQueue[a])[i].chunk \in reported
      BY <1>3, <3>1
    <3>3. reported' = reported /\ metaQueue'[a] = Tail(metaQueue[a])
          /\ completedSet'[a] \subseteq reported
      BY <1>1, <1>7, <2>2
    <3> HIDE DEF m, known
    <3> QED BY <3>2, <3>3 DEF KnowsReported
  <2>5. KnowsFile(a)'
    <3>1. ~sharedFile => Saved' \subseteq completedSet'[a]
      BY <1>1, <1>2, <1>7, <2>2 DEF KnowsFile
    <3>2. ASSUME Counts(a)'
          PROVE  /\ metaPc'[a] = "select" =>
                      /\ Unsaved(a)' <= n + DoneBatch * missed[a]
                      /\ Unsaved(a)' < DoneBatch * (missed[a] + 1)
                 /\ Unsaved(a)' <= DoneBatch * (missed[a] + 1)
      <4>1. Counts(a)
        BY <1>1, <2>2, <3>2 DEF Counts
      <4>2. /\ Unsaved(a) <= dirtyEvents[a] + DoneBatch * missed[a]
            /\ Unsaved(a) < DoneBatch * (missed[a] + 1)
        BY <1>1, <4>1 DEF KnowsFile
      <4>3. dirtyEvents[a] \in Nat /\ missed[a] \in Nat /\ DoneBatch \in Nat
        BY MetaConstants DEF MetaTyped
      <4>4. /\ DoneBatch * (missed[a] + 1) \in Nat /\ DoneBatch * missed[a] \in Nat
            /\ DoneBatch * (missed[a] + 1) = DoneBatch * missed[a] + DoneBatch
        BY <4>3, OneMoreBatch
      <4>5. Unsaved(a) \in Nat
        BY UnsavedCounted
      <4>6. /\ Cardinality((completedSet[a] \cup {m.chunk}) \ Saved) \in Nat
            /\ Cardinality((completedSet[a] \cup {m.chunk}) \ Saved)
                 <= Cardinality(completedSet[a] \ Saved) + 1
        BY <1>5, <1>6, OneMoreUnsaved
      <4>7. Unsaved(a)' \in Nat /\ Unsaved(a)' <= Unsaved(a) + 1
        BY <1>2, <2>2, <4>6 DEF Unsaved
      <4>8. metaPc'[a] = "select" => n < DoneBatch
        BY <2>2, <4>3
      <4> QED BY <4>2, <4>3, <4>4, <4>5, <4>7, <4>8
    <3> QED BY <1>1, <2>2, <3>1, <3>2 DEF KnowsFile
  <2>6. Saved' \subseteq reported'
    BY <1>1, <1>2 DEF HonestInv
  <2> QED BY <1>1, <1>2, <2>1, <2>3, <2>4, <2>5, <2>6, OneActorStep
<1> QED BY <1>8

\* An actor decides to write: to end, because its batch is old, or with the last handle.
LEMMA FlushBegins ==
  ASSUME MetaInv, NEW a \in MetaSlots, metaPc[a] = "select",
         metaPc' = [metaPc EXCEPT ![a] = "flush"],
         metaExits' \in [MetaSlots -> BOOLEAN],
         \/ metaQueue' = metaQueue
         \/ metaQueue[a] # <<>> /\ metaQueue' = [metaQueue EXCEPT ![a] = Tail(@)],
         UNCHANGED <<completedSet, dirtyEvents, missed, metaFile, renameReplaces, reported,
                     sharedFile>>
  PROVE  MetaInv'
<1> USE DEF MetaInv
<1>1. FileInv' /\ Saved' = Saved
  BY FileKept
<1>2. /\ metaQueue' \in [MetaSlots -> Seq(Message)]
      /\ \A b \in MetaSlots \ {a} : metaQueue'[b] = metaQueue[b]
      /\ \A i \in 1 .. Len(metaQueue'[a]) :
           \E j \in 1 .. Len(metaQueue[a]) : metaQueue'[a][i] = metaQueue[a][j]
  <2>1. CASE metaQueue' = metaQueue
    BY <2>1 DEF MetaTyped
  <2>2. CASE metaQueue[a] # <<>> /\ metaQueue' = [metaQueue EXCEPT ![a] = Tail(@)]
    <3>1. /\ Tail(metaQueue[a]) \in Seq(Message)
          /\ \A i \in 1 .. Len(Tail(metaQueue[a])) :
               \E j \in 1 .. Len(metaQueue[a]) : Tail(metaQueue[a])[i] = metaQueue[a][j]
      BY <2>2, QueueTail
    <3>2. metaQueue'[a] = Tail(metaQueue[a])
      BY <2>2 DEF MetaTyped
    <3> QED BY <2>2, <3>1, <3>2 DEF MetaTyped
  <2> QED BY <2>1, <2>2
<1>3. MetaTyped'
  BY <1>2 DEF MetaTyped
<1>4. /\ metaPc'[a] = "flush"
      /\ \A b \in MetaSlots \ {a} : metaPc'[b] = metaPc[b]
  BY DEF MetaTyped
<1>5. KnowsReported(a)'
  <2>1. \A j \in 1 .. Len(metaQueue[a]) :
          metaQueue[a][j].kind = "done" => metaQueue[a][j].chunk \in reported
    BY DEF HonestInv, KnowsReported
  <2>2. ASSUME NEW i \in 1 .. Len(metaQueue'[a]), metaQueue'[a][i].kind = "done"
        PROVE  metaQueue'[a][i].chunk \in reported
    <3>1. PICK j \in 1 .. Len(metaQueue[a]) : metaQueue'[a][i] = metaQueue[a][j]
      BY <1>2
    <3> QED BY <2>1, <2>2, <3>1
  <2>3. completedSet'[a] \subseteq reported'
    BY DEF HonestInv, KnowsReported
  <2> QED BY <2>2, <2>3 DEF KnowsReported
<1>6. KnowsFile(a)'
  <2>1. Unsaved(a)' = Unsaved(a) /\ Unsaved(a) \in Nat
    BY <1>1, UnsavedCounted DEF Unsaved
  <2>2. missed[a] \in Nat /\ DoneBatch * (missed[a] + 1) \in Nat
    BY OneMoreBatch DEF MetaTyped
  <2> QED BY <1>1, <1>4, <2>1, <2>2 DEF KnowsFile, Counts
<1>7. Saved' \subseteq reported'
  BY <1>1 DEF HonestInv
<1> QED BY <1>1, <1>2, <1>3, <1>4, <1>5, <1>6, <1>7, OneActorStep

LEMMA FlushDecided ==
  ASSUME MetaInv, NEW a \in MetaSlots,
         HandleControl(a) \/ TimerTick(a) \/ HandlesDropped(a)
  PROVE  MetaInv'
<1> USE DEF MetaInv
<1>1. metaPc[a] = "select" /\ UNCHANGED <<metaFile, renameReplaces, reported, sharedFile>>
  BY DEF HandleControl, TimerTick, HandlesDropped, diskVars, lifeVars
<1>2. CASE HandleControl(a)
  <2>1. /\ metaPc' = [metaPc EXCEPT ![a] = "flush"]
        /\ metaExits' = [metaExits EXCEPT ![a] = TRUE]
        /\ metaQueue[a] # <<>> /\ metaQueue' = [metaQueue EXCEPT ![a] = Tail(@)]
        /\ UNCHANGED <<completedSet, dirtyEvents, missed>>
    BY <1>2 DEF HandleControl
  <2>2. metaExits' \in [MetaSlots -> BOOLEAN]
    BY <2>1 DEF MetaTyped
  <2> QED BY <1>1, <2>1, <2>2, FlushBegins
<1>3. CASE TimerTick(a)
  <2>1. /\ metaPc' = [metaPc EXCEPT ![a] = "flush"]
        /\ UNCHANGED <<metaExits, metaQueue, completedSet, dirtyEvents, missed>>
    BY <1>3 DEF TimerTick
  <2>2. metaExits' \in [MetaSlots -> BOOLEAN]
    BY <2>1 DEF MetaTyped
  <2> QED BY <1>1, <2>1, <2>2, FlushBegins
<1>4. CASE HandlesDropped(a)
  <2>1. CASE End({a})
    <3>1. FileInv' /\ Saved' = Saved
      BY <1>1, FileKept
    <3>2. Saved' \subseteq reported
      BY <3>1 DEF HonestInv
    <3> QED BY <1>1, <2>1, <3>1, <3>2, LastStep
  <2>2. CASE ~End({a})
    <3>1. /\ metaPc' = [metaPc EXCEPT ![a] = "flush"]
          /\ metaExits' = [metaExits EXCEPT ![a] = TRUE]
          /\ UNCHANGED <<metaQueue, completedSet, dirtyEvents, missed>>
      BY <1>4, <2>2 DEF HandlesDropped
    <3>2. metaExits' \in [MetaSlots -> BOOLEAN]
      BY <3>1 DEF MetaTyped
    <3> QED BY <1>1, <3>1, <3>2, FlushBegins
  <2> QED BY <2>1, <2>2
<1> QED BY <1>2, <1>3, <1>4

LEMMA WriteKeeps == ASSUME MetaInv, NEW a \in MetaSlots, Write(a) PROVE MetaInv'
<1> USE DEF MetaInv
<1>1. missed[a] \in Nat /\ 0 \in Nat /\ missed[a] + 1 \in Nat
  BY DEF MetaTyped
<1>2. CASE WriteMeta(a)
  <2>1. /\ Flushed(a, 0) /\ metaPc[a] \in {"flush", "swap"}
        /\ metaFile' = [there |-> TRUE, ranges |-> CoalesceRanges(completedSet[a])]
    BY <1>2 DEF WriteMeta, Renamable
  <2>2. FileInv' /\ Saved' = completedSet[a]
    BY <2>1, FileWritten
  <2> QED BY <1>1, <2>1, <2>2, AfterFlush
<1>3. CASE WriteMetaFails(a)
  <2>1. /\ Flushed(a, missed[a] + 1) /\ metaPc[a] \in {"flush", "swap"} /\ UNCHANGED metaFile
    BY <1>3 DEF WriteMetaFails
  <2>2. FileInv' /\ Saved' = Saved
    BY <2>1, FileKept
  <2> QED BY <1>1, <2>1, <2>2, AfterFlush
<1>4. CASE RenameRefused(a)
  <2>1. /\ Flushed(a, missed[a]) /\ metaPc[a] = "swap" /\ UNCHANGED metaFile
        /\ metaFile # NoFile
    BY <1>4 DEF RenameRefused
  <2>2. FileInv' /\ Saved' = Saved
    BY <2>1, FileKept
  <2>3. sharedFile
    BY <2>1 DEF KnowsFile, MetaTyped
  <2> QED BY <1>1, <2>1, <2>2, <2>3, AfterFlush
<1>5. CASE RemoveOld(a)
  <2>1. /\ metaPc[a] = "flush" /\ ~renameReplaces /\ metaFile' = NoFile
        /\ metaPc' = [metaPc EXCEPT ![a] = "swap"]
        /\ UNCHANGED <<metaExits, completedSet, dirtyEvents, metaQueue, missed,
                       renameReplaces, reported, sharedFile>>
    BY <1>5 DEF RemoveOld, lifeVars
  <2>2. FileInv' /\ Saved' = {}
    BY <2>1, NothingSaved DEF FileInv, Saved
  <2>3. MetaTyped'
    BY <2>1 DEF MetaTyped
  <2>4. metaPc'[a] = "swap" /\ \A b \in MetaSlots \ {a} : metaPc'[b] = metaPc[b]
    BY <2>1 DEF MetaTyped
  <2>5. KnowsReported(a)'
    BY <2>1 DEF HonestInv, KnowsReported
  <2>6. KnowsFile(a)'
    BY <2>1, <2>2, <2>4 DEF KnowsFile
  <2> QED BY <2>1, <2>2, <2>3, <2>4, <2>5, <2>6, OneActorStep
<1> QED BY <1>2, <1>3, <1>4, <1>5 DEF Write

\* A message joins the queue of an actor; a report counts whether or not there is room.
LEMMA MessageKeeps ==
  ASSUME MetaInv, NEW a \in MetaSlots, NEW m \in Message, metaPc[a] # "down",
         \/ metaQueue' = metaQueue
         \/ metaQueue' = [metaQueue EXCEPT ![a] = Append(@, m)],
         m.kind = "done" => m.chunk \in reported',
         reported \subseteq reported', reported' \subseteq MetaChunks,
         UNCHANGED <<metaPc, metaExits, completedSet, dirtyEvents, missed, metaFile,
                     renameReplaces, sharedFile>>
  PROVE  MetaInv'
<1> USE DEF MetaInv
<1>1. FileInv' /\ Saved' = Saved
  BY FileKept
<1>2. /\ metaQueue' \in [MetaSlots -> Seq(Message)]
      /\ \A b \in MetaSlots \ {a} : metaQueue'[b] = metaQueue[b]
      /\ \A i \in 1 .. Len(metaQueue'[a]) :
           \/ metaQueue'[a][i] = m
           \/ \E j \in 1 .. Len(metaQueue[a]) : metaQueue'[a][i] = metaQueue[a][j]
  <2>1. CASE metaQueue' = metaQueue
    BY <2>1 DEF MetaTyped
  <2>2. CASE metaQueue' = [metaQueue EXCEPT ![a] = Append(@, m)]
    <3>1. metaQueue[a] \in Seq(Message)
      BY DEF MetaTyped
    <3>2. /\ metaQueue'[a] = Append(metaQueue[a], m)
          /\ \A b \in MetaSlots \ {a} : metaQueue'[b] = metaQueue[b]
      BY <2>2 DEF MetaTyped
    <3>3. /\ Append(metaQueue[a], m) \in Seq(Message)
          /\ \A i \in 1 .. Len(Append(metaQueue[a], m)) :
               \/ Append(metaQueue[a], m)[i] = m
               \/ \E j \in 1 .. Len(metaQueue[a]) :
                    Append(metaQueue[a], m)[i] = metaQueue[a][j]
      BY <3>1, AppendProperties
    <3>4. metaQueue' \in [MetaSlots -> Seq(Message)]
      BY <2>2, <3>3 DEF MetaTyped
    <3> QED BY <3>2, <3>3, <3>4
  <2> QED BY <2>1, <2>2
<1>3. MetaTyped'
  BY <1>2 DEF MetaTyped
<1>4. KnowsReported(a)'
  BY <1>2 DEF HonestInv, KnowsReported
<1>5. KnowsFile(a)'
  BY <1>1 DEF KnowsFile, Counts, Unsaved
<1>6. Saved' \subseteq reported'
  BY <1>1 DEF HonestInv
<1> QED BY <1>1, <1>2, <1>3, <1>4, <1>5, <1>6, OneActorStep

LEMMA KilledKeeps == ASSUME MetaInv, MetaKilled PROVE MetaInv'
<1> USE DEF MetaInv
<1>1. End(MetaSlots) /\ UNCHANGED <<metaFile, renameReplaces, reported, sharedFile>>
  BY DEF MetaKilled, diskVars, lifeVars
<1>2. FileInv' /\ Saved' = Saved
  BY <1>1, FileKept
<1>3. /\ metaPc' \in [MetaSlots -> {"down", "select", "flush", "swap"}]
      /\ metaExits' \in [MetaSlots -> BOOLEAN]
      /\ completedSet' \in [MetaSlots -> SUBSET MetaChunks]
      /\ dirtyEvents' \in [MetaSlots -> Nat] /\ missed' \in [MetaSlots -> Nat]
      /\ metaQueue' \in [MetaSlots -> Seq(Message)]
      /\ \A a \in MetaSlots : metaPc'[a] = "down" /\ completedSet'[a] = {}
                              /\ metaQueue'[a] = <<>>
  BY <1>1, Ended
<1>4. MetaTyped'
  BY <1>1, <1>3 DEF MetaTyped
<1>5. \A a \in MetaSlots : KnowsReported(a)' /\ KnowsFile(a)'
  BY <1>3, EmptyQueue DEF KnowsReported, KnowsFile
<1>6. AloneInv'
  BY <1>3 DEF AloneInv
<1> QED BY <1>1, <1>2, <1>4, <1>5, <1>6 DEF HonestInv

LEMMA MetaInductive == MetaInv /\ [MetaNext]_metaVars => MetaInv'
<1> SUFFICES ASSUME MetaInv, [MetaNext]_metaVars PROVE MetaInv'
  OBVIOUS
<1>1. ASSUME NEW a \in MetaSlots, NEW c \in MetaChunks, Report(a, c) PROVE MetaInv'
  <2> DEFINE m == [kind |-> "done", chunk |-> c]
  <2>1. m \in Message /\ m.chunk = c /\ c \in Nat
    BY MetaConstants DEF Message
  <2>2. /\ reported' = reported \cup {c} /\ metaPc[a] # "down"
        /\ \/ metaQueue' = metaQueue
           \/ metaQueue' = [metaQueue EXCEPT ![a] = Append(@, m)]
        /\ UNCHANGED <<metaPc, metaExits, completedSet, dirtyEvents, missed, metaFile,
                       renameReplaces, sharedFile>>
    BY <1>1 DEF Report, diskVars, lifeVars
  <2>3. reported \subseteq MetaChunks
    BY DEF MetaInv, MetaTyped
  <2> HIDE DEF m
  <2> QED BY <2>1, <2>2, <2>3, MessageKeeps
<1>2. ASSUME NEW a \in MetaSlots, SendStop(a) PROVE MetaInv'
  <2> DEFINE m == [kind |-> "stop", chunk |-> -1]
  <2>1. m \in Message /\ m.kind # "done"
    BY DEF Message
  <2>2. /\ metaQueue' = [metaQueue EXCEPT ![a] = Append(@, m)] /\ metaPc[a] # "down"
        /\ UNCHANGED <<metaPc, metaExits, completedSet, dirtyEvents, missed, metaFile,
                       renameReplaces, reported, sharedFile>>
    BY <1>2 DEF SendStop, diskVars, lifeVars
  <2>3. reported \subseteq MetaChunks
    BY DEF MetaInv, MetaTyped
  <2> HIDE DEF m
  <2> QED BY <2>1, <2>2, <2>3, MessageKeeps
<1>3. ASSUME NEW a \in MetaSlots, MetaStep(a) PROVE MetaInv'
  BY <1>1, <1>2, <1>3, SpawnKeeps, ChunkKeeps, FlushDecided, WriteKeeps DEF MetaStep
<1>4. CASE UNCHANGED metaVars
  <2>1. UNCHANGED <<metaPc, metaExits, completedSet, dirtyEvents, metaQueue, missed,
                    metaFile, renameReplaces, reported, sharedFile>>
    BY <1>4 DEF metaVars, actorVars, diskVars, lifeVars
  <2>2. FileInv' /\ Saved' = Saved
    BY <2>1, FileKept DEF MetaInv
  <2> QED BY <2>1, <2>2 DEF MetaInv, MetaTyped, HonestInv, KnowsReported, AloneInv, KnowsFile,
                            Counts, Unsaved
<1> QED BY <1>3, <1>4, KilledKeeps DEF MetaNext

LEMMA MetaInvHolds == MetaSpec => []MetaInv
<1> QED BY MetaStart, MetaInductive, PTL DEF MetaSpec

\* What meta.json claims to be completed was reported, in the fewest ranges that say
\* so, however often actors are killed and spawned and however they overlap
\* (actor.rs, run).
THEOREM SavedAlwaysHonest == MetaSpec => []SavedIsHonest
<1>1. MetaInv => SavedIsHonest
  <2> SUFFICES ASSUME MetaInv PROVE SavedIsHonest
    OBVIOUS
  <2>1. DOMAIN metaFile.ranges = 1 .. Len(metaFile.ranges)
    BY LenProperties DEF MetaInv, FileInv
  <2> QED BY <2>1 DEF MetaInv, FileInv, HonestInv, Apart, SavedIsHonest
<1> QED BY <1>1, MetaInvHolds, PTL

\* An actor that waits, and was spawned when no other lived, has less than a batch
\* unsaved for each flush since its last write: a kill loses no more.
THEOREM LossAlwaysBounded == MetaSpec => []LossIsBounded
<1>1. MetaInv => LossIsBounded
  BY DEF MetaInv, KnowsFile, Counts, Unsaved, LossIsBounded
<1> QED BY <1>1, MetaInvHolds, PTL

\* While no actors overlap, no step takes a chunk out of the file but the removal
\* before a rename on Windows.
THEOREM RecordOnlyGrows == MetaSpec => NothingForgotten
<1> DEFINE Grows == \/ Saved \subseteq Saved'
                    \/ \E a \in MetaSlots : metaPc'[a] = "swap"
                    \/ sharedFile
<1>1. MetaInv /\ [MetaNext]_metaVars => [Grows]_metaVars
  <2> SUFFICES ASSUME MetaInv, MetaNext PROVE Grows
    OBVIOUS
  <2>1. ASSUME NEW a \in MetaSlots, WriteMeta(a) PROVE Grows
    <3>1. /\ metaPc[a] # "down"
          /\ metaFile' = [there |-> TRUE, ranges |-> CoalesceRanges(completedSet[a])]
      BY <2>1 DEF WriteMeta, Renamable
    <3>2. Saved' = completedSet[a]
      BY <3>1, FileWritten
    <3> QED BY <3>1, <3>2 DEF MetaInv, KnowsFile
  <2>2. ASSUME NEW a \in MetaSlots, RemoveOld(a) PROVE Grows
    <3>1. metaPc'[a] = "swap"
      BY <2>2 DEF RemoveOld, MetaInv, MetaTyped
    <3> QED BY <3>1
  <2>3. CASE UNCHANGED metaFile
    BY <2>3, FileKept DEF MetaInv
  <2>4. ASSUME NEW a \in MetaSlots,
               \/ SpawnMeta(a) \/ HandleChunk(a) \/ HandleControl(a) \/ TimerTick(a)
               \/ HandlesDropped(a) \/ WriteMetaFails(a) \/ RenameRefused(a)
               \/ SendStop(a) \/ \E c \in MetaChunks : Report(a, c)
        PROVE  UNCHANGED metaFile
    BY <2>4 DEF SpawnMeta, SpawnWith, HandleChunk, HandleControl, TimerTick, HandlesDropped,
                WriteMetaFails, RenameRefused, Report, SendStop, diskVars
  <2>5. MetaKilled => UNCHANGED metaFile
    BY DEF MetaKilled, diskVars
  <2> HIDE DEF Grows
  <2>6. ASSUME NEW a \in MetaSlots, MetaStep(a) PROVE Grows
    BY <2>1, <2>2, <2>3, <2>4, <2>6 DEF MetaStep, Write
  <2> QED BY <2>3, <2>5, <2>6 DEF MetaNext
<1> QED BY <1>1, MetaInvHolds, PTL DEF MetaSpec, NothingForgotten

------------------------------------------------------------------------------
(* Sequences by what they hold.                                              *)

LEMMA HeldBy ==
  ASSUME NEW X, NEW s \in Seq(X)
  PROVE  /\ ToSet(s) \subseteq X
         /\ \A x : x \in ToSet(s) <=> \E i \in 1 .. Len(s) : x = s[i]
         /\ s = <<>> <=> \A x : x \notin ToSet(s)
<1>1. DOMAIN s = 1 .. Len(s) /\ Len(s) \in Nat /\ \A i \in 1 .. Len(s) : s[i] \in X
  BY LenProperties, ElementOfSeq
<1>2. \A x : x \in ToSet(s) <=> \E i \in 1 .. Len(s) : x = s[i]
  BY <1>1 DEF ToSet
<1>3. s # <<>> => 1 \in 1 .. Len(s)
  BY <1>1, EmptySeq
<1>4. Len(<<>>) = 0 /\ 1 .. 0 = {}
  OBVIOUS
<1> QED BY <1>1, <1>2, <1>3, <1>4

LEMMA Concatenated ==
  ASSUME NEW X, NEW s \in Seq(X), NEW t \in Seq(X)
  PROVE  /\ s \o t \in Seq(X)
         /\ \A x : x \in ToSet(s \o t) <=> x \in ToSet(s) \/ x \in ToSet(t)
<1> DEFINE q == s \o t
<1>1. /\ q \in Seq(X) /\ Len(q) = Len(s) + Len(t)
      /\ \A i \in 1 .. Len(s) + Len(t) : q[i] = IF i <= Len(s) THEN s[i] ELSE t[i - Len(s)]
  BY ConcatProperties
<1>2. Len(s) \in Nat /\ Len(t) \in Nat
  BY LenProperties
<1> HIDE DEF q
<1>3. ASSUME NEW x, x \in ToSet(q) PROVE x \in ToSet(s) \/ x \in ToSet(t)
  <2>1. PICK i \in 1 .. Len(q) : x = q[i]
    BY <1>1, <1>3, HeldBy
  <2>2. CASE i <= Len(s)
    <3>1. i \in 1 .. Len(s) /\ x = s[i]
      BY <1>1, <1>2, <2>1, <2>2
    <3> QED BY <3>1, HeldBy
  <2>3. CASE ~(i <= Len(s))
    <3>1. i - Len(s) \in 1 .. Len(t) /\ x = t[i - Len(s)]
      BY <1>1, <1>2, <2>1, <2>3
    <3> QED BY <3>1, HeldBy
  <2> QED BY <2>2, <2>3
<1>4. ASSUME NEW x, x \in ToSet(s) PROVE x \in ToSet(q)
  <2>1. PICK i \in 1 .. Len(s) : x = s[i]
    BY <1>4, HeldBy
  <2>2. i \in 1 .. Len(q) /\ x = q[i]
    BY <1>1, <1>2, <2>1
  <2> QED BY <1>1, <2>2, HeldBy
<1>5. ASSUME NEW x, x \in ToSet(t) PROVE x \in ToSet(q)
  <2>1. PICK i \in 1 .. Len(t) : x = t[i]
    BY <1>5, HeldBy
  <2>2. i + Len(s) \in 1 .. Len(q) /\ (i + Len(s)) - Len(s) = i /\ ~(i + Len(s) <= Len(s))
    BY <1>1, <1>2
  <2>3. x = q[i + Len(s)]
    BY <1>1, <2>1, <2>2
  <2> QED BY <1>1, <2>2, <2>3, HeldBy
<1> QED BY <1>1, <1>3, <1>4, <1>5 DEF q

\* FlattenSeq holds what its parts hold.
LEMMA Flattened ==
  ASSUME NEW X, NEW seqs \in Seq(Seq(X))
  PROVE  /\ FlattenSeq(seqs) \in Seq(X)
         /\ \A x : x \in ToSet(FlattenSeq(seqs))
                   <=> \E i \in 1 .. Len(seqs) : x \in ToSet(seqs[i])
<1> DEFINE N == Len(seqs)
           Flat(f) == [i \in 1 .. N |-> IF i = 1 THEN seqs[i] ELSE f[i - 1] \o seqs[i]]
           flat == CHOOSE f : f = Flat(f)
           step == [n \in 1 .. N |-> [r \in Seq(X) |-> r \o seqs[n]]]
<1>1. N \in Nat /\ \A n \in 1 .. N : seqs[n] \in Seq(X)
  BY LenProperties, ElementOfSeq
<1>2. CASE N = 0
  <2>1. FlattenSeq(seqs) = <<>>
    BY <1>2, EmptySeq DEF FlattenSeq
  <2>2. <<>> \in Seq(X) /\ \A x : x \notin ToSet(<<>>)
    <3>1. <<>> \in Seq(X)
      OBVIOUS
    <3> QED BY <3>1, HeldBy
  <2>3. 1 .. N = {}
    BY <1>2
  <2> QED BY <2>1, <2>2, <2>3
<1>3. CASE N # 0
  <2>1. FlattenSeq(seqs) = flat[N]
    BY <1>3 DEF FlattenSeq
  <2> HIDE DEF N
  <2>2. <<>> \in Seq(X)
    OBVIOUS
  <2>3. step \in [1 .. N -> [Seq(X) -> Seq(X)]]
    BY <1>1, Concatenated
  <2>4. PICK p \in [0 .. N -> Seq(X)] :
          p[0] = <<>> /\ \A n \in 1 .. N : p[n] = step[n][p[n - 1]]
    <3> HIDE DEF step
    <3>1. N \in Nat
      BY <1>1
    <3>2. HasTrace(N, Seq(X), <<>>, step)
      BY <2>2, <2>3, <3>1, Iteration
    <3> QED BY <3>2 DEF HasTrace
  <2>5. ASSUME NEW n \in 1 .. N PROVE p[n - 1] \in Seq(X) /\ p[n] = p[n - 1] \o seqs[n]
    <3>1. p[n - 1] \in Seq(X)
      BY <1>1
    <3> QED BY <2>4, <3>1
  <2> DEFINE f == [n \in 1 .. N |-> p[n]]
  <2>6. f = Flat(f)
    <3>1. ASSUME NEW n \in 1 .. N
          PROVE  f[n] = IF n = 1 THEN seqs[n] ELSE f[n - 1] \o seqs[n]
      <4>1. CASE n = 1
        <5>1. p[n - 1] = <<>>
          BY <2>4, <4>1
        <5>2. <<>> \o seqs[n] = seqs[n]
          BY <1>1, ConcatEmptySeq
        <5> QED BY <2>5, <4>1, <5>1, <5>2
      <4>2. CASE n # 1
        <5>1. n - 1 \in 1 .. N
          BY <1>1, <4>2
        <5> QED BY <2>5, <4>2, <5>1
      <4> QED BY <4>1, <4>2
    <3> QED BY <3>1
  <2>7. flat = Flat(flat)
    <3> HIDE DEF Flat, f
    <3> QED BY <2>6
  <2>8. \A n \in 1 .. N : flat[n] = IF n = 1 THEN seqs[n] ELSE flat[n - 1] \o seqs[n]
    <3> HIDE DEF flat
    <3> QED BY <2>7
  <2> HIDE DEF flat, Flat, step, f
  <2> DEFINE Holds(n) == \A x : x \in ToSet(flat[n]) <=> \E i \in 1 .. n : x \in ToSet(seqs[i])
             Right(n) == n = 0 \/ (flat[n] \in Seq(X) /\ Holds(n))
             A == {n \in 0 .. N : Right(n)}
  <2>9. 0 \in A
    <3>1. Right(0) /\ 0 \in 0 .. N
      BY <1>1
    <3> HIDE DEF Right
    <3> QED BY <3>1
  <2>10. ASSUME NEW n \in 0 .. N - 1, n \in A PROVE n + 1 \in A
    <3>1. n + 1 \in 1 .. N /\ (n + 1) - 1 = n /\ seqs[n + 1] \in Seq(X)
      BY <1>1
    <3>2. CASE n = 0
      <4>1. flat[1] = seqs[1] /\ seqs[1] \in Seq(X) /\ 1 .. 1 = {1}
        BY <2>8, <3>1, <3>2
      <4>2. Right(1) /\ 1 \in 0 .. N
        BY <3>1, <3>2, <4>1
      <4> HIDE DEF Right
      <4> QED BY <3>2, <4>2
    <3>3. CASE n # 0
      <4>1. flat[n] \in Seq(X) /\ Holds(n)
        BY <2>10, <3>3
      <4>2. flat[n + 1] = flat[n] \o seqs[n + 1]
        <5>1. n + 1 # 1
          BY <1>1, <3>3
        <5>2. flat[n + 1] = flat[(n + 1) - 1] \o seqs[n + 1]
          BY <2>8, <3>1, <5>1
        <5> QED BY <3>1, <5>2
      <4>3. /\ flat[n + 1] \in Seq(X)
            /\ \A x : x \in ToSet(flat[n + 1]) <=> x \in ToSet(flat[n]) \/ x \in ToSet(seqs[n + 1])
        <5>1. seqs[n + 1] \in Seq(X) /\ flat[n] \in Seq(X)
          BY <3>1, <4>1
        <5> HIDE DEF Holds
        <5>2. /\ flat[n] \o seqs[n + 1] \in Seq(X)
              /\ \A x : x \in ToSet(flat[n] \o seqs[n + 1])
                        <=> x \in ToSet(flat[n]) \/ x \in ToSet(seqs[n + 1])
          <6>1. ASSUME NEW s \in Seq(X), NEW t \in Seq(X)
                PROVE  /\ s \o t \in Seq(X)
                       /\ \A x : x \in ToSet(s \o t) <=> x \in ToSet(s) \/ x \in ToSet(t)
            BY Concatenated
          <6> QED BY <5>1, <6>1
        <5> QED BY <4>2, <5>2
      <4>4. 1 .. n + 1 = 1 .. n \cup {n + 1}
        BY <1>1
      <4>5. Holds(n + 1)
        BY <4>1, <4>3, <4>4
      <4>6. Right(n + 1) /\ n + 1 \in 0 .. N
        BY <3>1, <4>3, <4>5
      <4> HIDE DEF Right
      <4> QED BY <4>6
    <3> QED BY <3>2, <3>3
  <2>11. N \in A
    <3> HIDE DEF A
    <3>1. 0 .. N \subseteq A
      BY <1>1, <2>9, <2>10, InductionUpTo
    <3> QED BY <1>1, <3>1
  <2>12. flat[N] \in Seq(X) /\ Holds(N)
    BY <1>3, <2>11
  <2> QED BY <2>1, <2>12 DEF N
<1> QED BY <1>2, <1>3


------------------------------------------------------------------------------
(* Which channels a send opens.                                              *)

Channel == [host : Hosts, usb : BOOLEAN, probed : BOOLEAN]

Address == [host : Hosts, marked : BOOLEAN]

StagesOf(p) ==
  CASE p = "Combined"  -> {"Combined", "CombinedUsb", "CombinedWifi"}
    [] p = "Automatic" -> {"Automatic", "AutomaticProbe", "AutomaticFallback"}
    [] OTHER           -> {p}

ConnectTyped ==
  /\ pref \in Preferences /\ address \in Addresses
  /\ platform \in {"android", "windows", "other"} /\ hotspot \in Hosts \cup {"none"}
  /\ adb \in BOOLEAN
  /\ reachable \subseteq Hosts /\ atStart \subseteq reachable
  /\ stage \in {"tunnels", "done"} \cup StagesOf(pref)
  /\ channels \in Seq(Channel) /\ wifiFound \in BOOLEAN /\ usbFound \in BOOLEAN

\* Before anything is probed, the channels are the caller's, and the flags know them.
GivenInv ==
  /\ stage \in {"CombinedUsb", "CombinedWifi", "AutomaticProbe"}
       => \A c \in ToSet(channels) : ~c.probed
  /\ stage \in {"CombinedUsb", "CombinedWifi"}
       => /\ (\E c \in ToSet(channels) : ~c.usb) => wifiFound
          /\ wifiFound \/ usbFound => channels # <<>>

PeerInv ==
  \A c, d \in ToSet(channels) : c.probed => IF d.probed THEN d.host = c.host ELSE d.usb

\* As long as no channel is open, none of the hosts tried so far answered all along.
MissInv ==
  channels = <<>> =>
    /\ stage \in {"CombinedUsb", "CombinedWifi", "AutomaticProbe", "AutomaticFallback"}
         => \A a \in ToSet(address) : a.host \notin atStart
    /\ stage = "CombinedWifi" => "loop" \notin atStart
    /\ stage \in {"AutomaticFallback", "done"} => Meant \cap atStart = {}

ConnectInv == ConnectTyped /\ GivenInv /\ PeerInv /\ MissInv

LEMMA AddressTyped ==
  ASSUME ConnectTyped
  PROVE  /\ address \in Seq(Address) /\ Len(address) \in Nat
         /\ DOMAIN address = 1 .. Len(address)
         /\ \A i \in 1 .. Len(address) : /\ address[i].host \in Hosts
                                         /\ address[i].marked \in BOOLEAN
         /\ \A a : a \in ToSet(address) <=> \E i \in 1 .. Len(address) : a = address[i]
         /\ address # <<>> <=> Len(address) # 0
<1>1. address \in Seq(Address)
  BY ConnectAssumption DEF ConnectTyped, Address
<1>2. /\ Len(address) \in Nat /\ DOMAIN address = 1 .. Len(address)
      /\ \A i \in 1 .. Len(address) : address[i] \in Address
  BY <1>1, LenProperties, ElementOfSeq
<1>3. address # <<>> <=> Len(address) # 0
  BY <1>1, EmptySeq
<1>4. \A a : a \in ToSet(address) <=> \E i \in 1 .. Len(address) : a = address[i]
  BY <1>1, HeldBy
<1> QED BY <1>1, <1>2, <1>3, <1>4 DEF Address

LEMMA StreamsPositive == StreamCount \in Nat \ {0} /\ 1 \in Nat \ {0} /\ 2 \in Nat \ {0}
BY ConnectAssumption

\* A channel opens when its host answers, and not otherwise.
LEMMA OpensHolds ==
  ASSUME ConnectTyped, NEW h, NEW n \in Nat \ {0}, NEW u \in BOOLEAN, NEW p \in BOOLEAN
  PROVE  /\ Opens(h, n, u, p) \in Seq(Channel)
         /\ \A c : c \in ToSet(Opens(h, n, u, p))
                   <=> h \in reachable /\ c = [host |-> h, usb |-> u, probed |-> p]
         /\ Opens(h, n, u, p) = <<>> <=> h \notin reachable
<1> DEFINE rec == [host |-> h, usb |-> u, probed |-> p]
           q == Opens(h, n, u, p)
<1>1. CASE h \in reachable
  <2>1. q = [i \in 1 .. n |-> rec]
    BY <1>1 DEF Opens
  <2>2. rec \in Channel
    BY <1>1 DEF ConnectTyped, Channel
  <2> HIDE DEF rec, q
  <2>3. q \in Seq(Channel) /\ Len(q) = n /\ \A i \in 1 .. n : q[i] = rec
    BY <2>1, <2>2
  <2>4. \A c : c \in ToSet(q) <=> c = rec
    <3>1. 1 \in 1 .. n
      OBVIOUS
    <3> QED BY <2>3, <3>1, HeldBy
  <2>5. q # <<>>
    BY <2>3, <2>4, HeldBy
  <2> QED BY <1>1, <2>3, <2>4, <2>5 DEF rec, q
<1>2. CASE h \notin reachable
  <2>1. q = <<>> /\ <<>> \in Seq(Channel)
    BY <1>2 DEF Opens
  <2>2. \A c : c \notin ToSet(<<>>)
    BY <2>1, HeldBy
  <2> QED BY <1>2, <2>1, <2>2
<1> QED BY <1>1, <1>2

LEMMA ProbeHolds ==
  ASSUME ConnectTyped, NEW hosts \in Seq(Hosts)
  PROVE  /\ Probe(hosts) \in Seq(Channel)
         /\ \A c \in ToSet(Probe(hosts)) : c.probed /\ ~c.usb
         /\ \A c, d \in ToSet(Probe(hosts)) : c.host = d.host
         /\ Probe(hosts) = <<>> => \A i \in 1 .. Len(hosts) : hosts[i] \notin reachable
<1> DEFINE up == {i \in DOMAIN hosts : hosts[i] \in reachable}
<1>1. DOMAIN hosts = 1 .. Len(hosts) /\ Len(hosts) \in Nat
  BY LenProperties
<1>2. CASE up = {}
  <2>1. Probe(hosts) = <<>> /\ <<>> \in Seq(Channel)
    BY <1>2 DEF Probe
  <2>2. \A c : c \notin ToSet(<<>>)
    BY <2>1, HeldBy
  <2> QED BY <1>1, <1>2, <2>1, <2>2
<1>3. CASE up # {}
  <2>1. up \subseteq Int /\ IsFiniteSet(up)
    <3>1. IsFiniteSet(1 .. Len(hosts))
      BY <1>1, FS_Interval
    <3> QED BY <1>1, <3>1, FS_Subset
  <2>2. Min(up) \in up
    <3> HIDE DEF up
    <3> QED BY <1>3, <2>1, Least
  <2>3. hosts[Min(up)] \in reachable
    BY <2>2
  <2> DEFINE h == hosts[Min(up)]
  <2>4. Probe(hosts) = Opens(h, StreamCount, FALSE, TRUE)
    BY <1>3 DEF Probe
  <2> HIDE DEF h, up
  <2>5. /\ Probe(hosts) \in Seq(Channel)
        /\ \A c : c \in ToSet(Probe(hosts))
                  <=> h \in reachable /\ c = [host |-> h, usb |-> FALSE, probed |-> TRUE]
        /\ Probe(hosts) = <<>> <=> h \notin reachable
    BY <2>4, StreamsPositive, OpensHolds
  <2> QED BY <2>3, <2>5 DEF h
<1> QED BY <1>2, <1>3

\* The channels to the addresses given, however many streams each gets.
LEMMA GivenHolds ==
  ASSUME ConnectTyped, NEW q, q = [i \in DOMAIN address |-> q[i]],
         \A i \in DOMAIN address : \E n \in Nat \ {0} :
           q[i] = Opens(address[i].host, n, IsUsb(address[i]), FALSE)
  PROVE  /\ FlattenSeq(q) \in Seq(Channel)
         /\ \A c \in ToSet(FlattenSeq(q)) :
              \E a \in ToSet(address) : /\ a.host \in reachable
                                        /\ c = [host |-> a.host, usb |-> IsUsb(a), probed |-> FALSE]
         /\ FlattenSeq(q) = <<>> <=> \A a \in ToSet(address) : a.host \notin reachable
<1> DEFINE N == Len(address)
           rec(i) == [host |-> address[i].host, usb |-> IsUsb(address[i]), probed |-> FALSE]
<1>1. /\ N \in Nat /\ DOMAIN address = 1 .. N
      /\ \A a : a \in ToSet(address) <=> \E i \in 1 .. N : a = address[i]
  BY AddressTyped
<1>2. ASSUME NEW i \in 1 .. N
      PROVE  /\ q[i] \in Seq(Channel)
             /\ \A c : c \in ToSet(q[i]) <=> address[i].host \in reachable /\ c = rec(i)
  <2>1. PICK n \in Nat \ {0} : q[i] = Opens(address[i].host, n, IsUsb(address[i]), FALSE)
    BY <1>1
  <2> DEFINE h == address[i].host
             u == IsUsb(address[i])
  <2>2. u \in BOOLEAN
    BY AddressTyped DEF IsUsb
  <2>3. q[i] = Opens(h, n, u, FALSE)
    BY <2>1
  <2>4. rec(i) = [host |-> h, usb |-> u, probed |-> FALSE]
    OBVIOUS
  <2> HIDE DEF h, u, rec
  <2>5. /\ Opens(h, n, u, FALSE) \in Seq(Channel)
        /\ \A c : c \in ToSet(Opens(h, n, u, FALSE))
                  <=> h \in reachable /\ c = [host |-> h, usb |-> u, probed |-> FALSE]
    BY <2>2, OpensHolds
  <2>6. /\ q[i] \in Seq(Channel)
        /\ \A c : c \in ToSet(q[i]) <=> h \in reachable /\ c = rec(i)
    BY <2>3, <2>4, <2>5
  <2> QED BY <2>6 DEF h
<1>3. q \in Seq(Seq(Channel)) /\ Len(q) = N
  <2>1. q = [i \in 1 .. N |-> q[i]]
    BY <1>1
  <2>2. DOMAIN q = 1 .. N
    BY <2>1
  <2> HIDE DEF N
  <2>3. q \in [1 .. N -> Seq(Channel)]
    BY <1>2, <2>1
  <2> QED BY <1>1, <2>3
<1> HIDE DEF N
<1>4. /\ FlattenSeq(q) \in Seq(Channel)
      /\ \A x : x \in ToSet(FlattenSeq(q)) <=> \E i \in 1 .. N : x \in ToSet(q[i])
  BY <1>3, Flattened
<1>5. \A c \in ToSet(FlattenSeq(q)) :
        \E a \in ToSet(address) : /\ a.host \in reachable
                                  /\ c = [host |-> a.host, usb |-> IsUsb(a), probed |-> FALSE]
  BY <1>1, <1>2, <1>4
<1>6. FlattenSeq(q) = <<>> <=> \A i \in 1 .. N : address[i].host \notin reachable
  <2>1. FlattenSeq(q) = <<>> <=> \A x : x \notin ToSet(FlattenSeq(q))
    BY <1>4, HeldBy
  <2> QED BY <1>2, <1>4, <2>1
<1> QED BY <1>1, <1>4, <1>5, <1>6


LEMMA NoChannel == <<>> \in Seq(Channel) /\ \A c : c \notin ToSet(<<>>)
<1>1. <<>> \in Seq(Channel)
  OBVIOUS
<1> QED BY <1>1, HeldBy

LEMMA StageTells ==
  ASSUME ConnectTyped
  PROVE  /\ stage \in {"UsbOnly", "WifiDirectOnly", "Combined", "Automatic"} => pref = stage
         /\ stage \in {"CombinedUsb", "CombinedWifi"} => pref = "Combined"
         /\ stage \in {"AutomaticProbe", "AutomaticFallback"} => pref = "Automatic"
<1>1. pref \in {"Automatic", "Combined", "UsbOnly", "WifiDirectOnly"}
  BY DEF ConnectTyped, Preferences
<1>2. stage \in {"tunnels", "done"} \cup StagesOf(pref)
  BY DEF ConnectTyped
<1>3. CASE pref = "Combined"
  BY <1>2, <1>3 DEF StagesOf
<1>4. CASE pref = "Automatic"
  BY <1>2, <1>4 DEF StagesOf
<1>5. CASE pref \in {"UsbOnly", "WifiDirectOnly"}
  BY <1>2, <1>5 DEF StagesOf
<1> QED BY <1>1, <1>3, <1>4, <1>5

LEMMA MeantKept == UNCHANGED callVars => Meant' = Meant
BY DEF callVars, Meant, IsTunnel

\* An address that stands alone and has no mark.
LEMMA LiteralHolds ==
  ASSUME ConnectTyped
  PROVE  Literal # {} => /\ Len(address) = 1 /\ Literal = {address[1].host}
                         /\ (CHOOSE h \in Literal : TRUE) = address[1].host
<1> SUFFICES ASSUME Literal # {}
             PROVE  /\ Len(address) = 1 /\ Literal = {address[1].host}
                    /\ (CHOOSE h \in Literal : TRUE) = address[1].host
  OBVIOUS
<1>1. Len(address) = 1 /\ Literal = {address[1].host}
  BY DEF Literal
<1>2. (CHOOSE h \in Literal : TRUE) \in Literal
  OBVIOUS
<1> QED BY <1>1, <1>2

\* Hosts tried one after the other for a stream over USB or as given.
LEMMA TriedFirst ==
  ASSUME ConnectTyped, NEW targets, NEW q,
         \/ targets = {}
         \/ \E h : targets = {h},
         q = IF targets = {} THEN <<>> ELSE Opens(CHOOSE h \in targets : TRUE, 1, TRUE, FALSE)
  PROVE  /\ q \in Seq(Channel)
         /\ \A c \in ToSet(q) : ~c.probed /\ c.usb
         /\ q = <<>> => \A h \in targets : h \notin reachable
<1>1. CASE targets = {}
  BY <1>1, NoChannel
<1>2. CASE targets # {}
  <2>1. PICK h : targets = {h}
    BY <1>2
  <2>2. (CHOOSE x \in targets : TRUE) = h
    <3>1. (CHOOSE x \in targets : TRUE) \in targets
      BY <1>2
    <3> QED BY <2>1, <3>1
  <2>3. q = Opens(h, 1, TRUE, FALSE)
    BY <1>2, <2>2
  <2>4. /\ Opens(h, 1, TRUE, FALSE) \in Seq(Channel)
        /\ \A c : c \in ToSet(Opens(h, 1, TRUE, FALSE))
                  <=> h \in reachable /\ c = [host |-> h, usb |-> TRUE, probed |-> FALSE]
        /\ Opens(h, 1, TRUE, FALSE) = <<>> <=> h \notin reachable
    BY StreamsPositive, OpensHolds
  <2>5. ASSUME NEW c \in ToSet(q) PROVE ~c.probed /\ c.usb
    <3>1. c = [host |-> h, usb |-> TRUE, probed |-> FALSE]
      BY <2>3, <2>4
    <3>2. c.usb = TRUE /\ c.probed = FALSE
      BY <3>1
    <3> QED BY <3>2
  <2>6. q \in Seq(Channel) /\ (q = <<>> => h \notin reachable)
    BY <2>3, <2>4
  <2> QED BY <2>1, <2>5, <2>6
<1> QED BY <1>1, <1>2

LEMMA WindowsProbed ==
  ASSUME ConnectTyped
  PROVE  /\ Probe(WindowsProbes) \in Seq(Channel)
         /\ \A c \in ToSet(Probe(WindowsProbes)) : c.probed /\ ~c.usb
         /\ \A c, d \in ToSet(Probe(WindowsProbes)) : c.host = d.host
         /\ Probe(WindowsProbes) = <<>> /\ platform = "windows"
              => "gw1" \notin reachable /\ "gw2" \notin reachable
<1>1. CASE platform = "windows"
  <2>1. WindowsProbes = <<"gw1", "gw2">>
    BY <1>1 DEF WindowsProbes
  <2>2. WindowsProbes \in Seq(Hosts)
    BY <2>1 DEF Hosts
  <2>3. Len(WindowsProbes) = 2 /\ WindowsProbes[1] = "gw1" /\ WindowsProbes[2] = "gw2"
    BY <2>1
  <2> QED BY <2>2, <2>3, ProbeHolds
<1>2. CASE platform # "windows"
  <2>1. WindowsProbes = <<>>
    BY <1>2 DEF WindowsProbes
  <2>2. <<>> \in Seq(Hosts)
    OBVIOUS
  <2> QED BY <1>2, <2>1, <2>2, ProbeHolds
<1> QED BY <1>1, <1>2

\* Probed Wi-Fi channels are added only to channels over USB.
LEMMA PeersJoin ==
  ASSUME NEW s \in Seq(Channel), NEW t \in Seq(Channel),
         \A c \in ToSet(s) : ~c.probed /\ c.usb,
         \A c \in ToSet(t) : c.probed /\ ~c.usb,
         \A c, d \in ToSet(t) : c.host = d.host,
         channels' = s \o t
  PROVE  /\ channels' \in Seq(Channel) /\ PeerInv'
         /\ channels' = <<>> => s = <<>> /\ t = <<>>
<1>1. /\ channels' \in Seq(Channel)
      /\ \A c : c \in ToSet(channels') <=> c \in ToSet(s) \/ c \in ToSet(t)
  BY Concatenated
<1>2. ASSUME channels' = <<>> PROVE s = <<>> /\ t = <<>>
  <2>1. \A c : c \notin ToSet(channels')
    BY <1>1, <1>2, HeldBy
  <2>2. (\A c : c \notin ToSet(s)) /\ (\A c : c \notin ToSet(t))
    BY <1>1, <2>1
  <2>3. s = <<>>
    BY <2>2, HeldBy
  <2>4. t = <<>>
    BY <2>2, HeldBy
  <2> QED BY <2>3, <2>4
<1>3. PeerInv'
  BY <1>1 DEF PeerInv
<1> QED BY <1>1, <1>2, <1>3

LEMMA ConnectStart == ConnectInit => ConnectInv
<1> SUFFICES ASSUME ConnectInit PROVE ConnectInv
  OBVIOUS
<1>1. /\ pref \in Preferences /\ address \in Addresses /\ stage = "tunnels"
      /\ platform \in {"android", "windows", "other"} /\ hotspot \in {"none", "gw1"}
      /\ adb \in BOOLEAN
      /\ reachable \subseteq Hosts /\ atStart = reachable
      /\ channels = <<>> /\ wifiFound = FALSE /\ usbFound = FALSE
  BY DEF ConnectInit
<1>2. ConnectTyped
  BY <1>1, NoChannel DEF ConnectTyped, Hosts
<1>3. GivenInv /\ PeerInv /\ MissInv
  BY <1>1, NoChannel DEF GivenInv, PeerInv, MissInv
<1> QED BY <1>2, <1>3 DEF ConnectInv


\* The types of a step that opens channels and leaves the call and the network alone.
LEMMA OpeningTyped ==
  ASSUME ConnectTyped, UNCHANGED <<callVars, reachable, atStart>>,
         stage' \in {"tunnels", "done"} \cup StagesOf(pref),
         channels' \in Seq(Channel), wifiFound' \in BOOLEAN, usbFound' \in BOOLEAN
  PROVE  ConnectTyped' /\ Meant' = Meant
BY MeantKept DEF ConnectTyped, callVars

LEMMA UsbOnlyKeeps == ConnectInv /\ UsbOnly => ConnectInv'
<1> SUFFICES ASSUME ConnectInv, UsbOnly PROVE ConnectInv'
  OBVIOUS
<1> DEFINE given == CASE address = <<>> -> "loop"
                      [] address # <<>> /\ (Len(address) = 1 \/ address[1].marked)
                         -> address[1].host
                      [] OTHER -> "none"
           h == IF given \in reachable THEN given ELSE IF adb THEN "loop" ELSE "nowhere"
<1>1. ConnectTyped /\ pref = "UsbOnly"
  BY StageTells DEF ConnectInv, UsbOnly
<1>2. channels' = Opens(h, 1, TRUE, FALSE)
  <2>1. channels' = CASE given \in reachable -> Opens(given, 1, TRUE, FALSE)
                      [] given \notin reachable /\ adb -> Opens("loop", 1, TRUE, FALSE)
                      [] OTHER -> <<>>
    BY DEF UsbOnly
  <2> HIDE DEF given
  <2>2. CASE given \in reachable
    BY <2>1, <2>2
  <2>3. CASE given \notin reachable /\ adb
    BY <2>1, <2>3
  <2>4. CASE given \notin reachable /\ ~adb
    <3>1. h = "nowhere" /\ "nowhere" \notin reachable
      BY <1>1, <2>4 DEF ConnectTyped, Hosts
    <3>2. Opens(h, 1, TRUE, FALSE) = <<>>
      BY <3>1 DEF Opens
    <3> QED BY <2>1, <2>4, <3>2
  <2> QED BY <2>2, <2>3, <2>4
<1>3. stage' = "done" /\ UNCHANGED <<callVars, reachable, atStart, wifiFound, usbFound>>
  BY DEF UsbOnly
<1>4. /\ h \notin reachable => given \notin reachable /\ (adb => "loop" \notin reachable)
      /\ address = <<>> => given = "loop"
      /\ Len(address) # 0 /\ (Len(address) = 1 \/ address[1].marked) => given = address[1].host
  BY <1>1, AddressTyped
<1> HIDE DEF h, given
<1>5. /\ channels' \in Seq(Channel)
      /\ \A c : c \in ToSet(channels')
                <=> h \in reachable /\ c = [host |-> h, usb |-> TRUE, probed |-> FALSE]
      /\ channels' = <<>> <=> h \notin reachable
  BY <1>1, <1>2, StreamsPositive, OpensHolds
<1>6. ASSUME NEW c \in ToSet(channels') PROVE c.probed = FALSE
  BY <1>5
<1>7. ConnectTyped' /\ Meant' = Meant
  BY <1>1, <1>3, <1>5, OpeningTyped DEF ConnectTyped
<1>8. GivenInv' /\ PeerInv'
  BY <1>3, <1>6 DEF GivenInv, PeerInv
<1>9. MissInv'
  <2> SUFFICES ASSUME channels' = <<>>, NEW x \in Meant, x \in atStart PROVE FALSE
    BY <1>3, <1>7 DEF MissInv
  <2>1. \/ x = "loop" /\ (adb \/ address = <<>>)
        \/ Len(address) = 1 /\ x \in {a.host : a \in ToSet(address)}
        \/ 1 \in DOMAIN address /\ address[1].marked /\ x = address[1].host
    BY <1>1 DEF Meant
  <2>2. x \in reachable
    BY <1>1 DEF ConnectTyped
  <2>3. given \notin reachable /\ (adb => "loop" \notin reachable)
    BY <1>4, <1>5
  <2>4. /\ Len(address) = 1 => \A a \in ToSet(address) : a = address[1]
        /\ 1 \in DOMAIN address => Len(address) # 0
    BY <1>1, AddressTyped
  <2> QED BY <1>4, <2>1, <2>2, <2>3, <2>4
<1> QED BY <1>7, <1>8, <1>9 DEF ConnectInv

LEMMA WifiDirectOnlyKeeps == ConnectInv /\ WifiDirectOnly => ConnectInv'
<1> SUFFICES ASSUME ConnectInv, WifiDirectOnly PROVE ConnectInv'
  OBVIOUS
<1> DEFINE targets == IF address # <<>> THEN Literal ELSE {hotspot}
           h == CHOOSE x \in targets : TRUE
<1>1. ConnectTyped /\ pref = "WifiDirectOnly"
  BY StageTells DEF ConnectInv, WifiDirectOnly
<1>2. channels' = IF targets = {} THEN <<>> ELSE Opens(h, StreamCount, FALSE, FALSE)
  BY DEF WifiDirectOnly
<1>3. stage' = "done" /\ UNCHANGED <<callVars, reachable, atStart, wifiFound, usbFound>>
  BY DEF WifiDirectOnly
<1>4. targets # {} => targets = {h}
  <2>1. CASE address = <<>>
    <3>1. targets = {hotspot}
      BY <2>1
    <3>2. h \in targets
      BY <3>1
    <3> QED BY <3>1, <3>2
  <2>2. CASE address # <<>>
    BY <1>1, <2>2, LiteralHolds
  <2> QED BY <2>1, <2>2
<1>5. /\ address = <<>> => targets = {hotspot}
      /\ address # <<>> => targets = Literal
  OBVIOUS
<1> HIDE DEF targets, h
<1>6. /\ Opens(h, StreamCount, FALSE, FALSE) \in Seq(Channel)
      /\ \A c : c \in ToSet(Opens(h, StreamCount, FALSE, FALSE))
                <=> h \in reachable /\ c = [host |-> h, usb |-> FALSE, probed |-> FALSE]
      /\ Opens(h, StreamCount, FALSE, FALSE) = <<>> <=> h \notin reachable
  BY <1>1, StreamsPositive, OpensHolds
<1>7. /\ channels' \in Seq(Channel)
      /\ \A c \in ToSet(channels') : c = [host |-> h, usb |-> FALSE, probed |-> FALSE]
      /\ channels' = <<>> => \A x \in targets : x \notin reachable
  BY <1>2, <1>4, <1>6, NoChannel
<1>8. ASSUME NEW c \in ToSet(channels') PROVE c.probed = FALSE
  BY <1>7
<1>9. ConnectTyped' /\ Meant' = Meant
  BY <1>1, <1>3, <1>7, OpeningTyped DEF ConnectTyped
<1>10. GivenInv' /\ PeerInv'
  BY <1>3, <1>8 DEF GivenInv, PeerInv
<1>11. MissInv'
  <2> SUFFICES ASSUME channels' = <<>>, NEW x \in Meant, x \in atStart PROVE FALSE
    BY <1>3, <1>9 DEF MissInv
  <2>1. x \in reachable
    BY <1>1 DEF ConnectTyped
  <2>2. CASE address = <<>>
    BY <1>1, <1>5, <1>7, <2>1, <2>2 DEF Meant
  <2>3. CASE address # <<>>
    <3>1. Len(address) = 1 /\ \E a \in ToSet(address) : ~a.marked /\ x = a.host
      BY <1>1, <2>3 DEF Meant
    <3>2. \A a \in ToSet(address) : a = address[1]
      BY <1>1, <3>1, AddressTyped
    <3>3. x \in Literal
      BY <3>1, <3>2 DEF Literal
    <3> QED BY <1>5, <1>7, <2>1, <2>3, <3>3
  <2> QED BY <2>2, <2>3
<1> QED BY <1>9, <1>10, <1>11 DEF ConnectInv

\* Every address given is tried once before anything else is.
LEMMA GivenOpened ==
  ASSUME ConnectTyped, NEW q, q = [i \in DOMAIN address |-> q[i]],
         \A i \in DOMAIN address : \E n \in Nat \ {0} :
           q[i] = Opens(address[i].host, n, IsUsb(address[i]), FALSE),
         channels' = FlattenSeq(q)
  PROVE  /\ channels' \in Seq(Channel) /\ PeerInv'
         /\ \A c \in ToSet(channels') : c.probed = FALSE
         /\ \A c \in ToSet(channels') : ~c.usb =>
              \E a \in ToSet(address) : ~IsUsb(a) /\ a.host \in reachable
         /\ channels' = <<>> => \A a \in ToSet(address) : a.host \notin reachable
         /\ (\E a \in ToSet(address) : a.host \in reachable) => channels' # <<>>
<1>1. /\ channels' \in Seq(Channel)
      /\ \A c \in ToSet(channels') :
           \E a \in ToSet(address) : /\ a.host \in reachable
                                     /\ c = [host |-> a.host, usb |-> IsUsb(a), probed |-> FALSE]
      /\ channels' = <<>> <=> \A a \in ToSet(address) : a.host \notin reachable
  BY GivenHolds
<1>2. ASSUME NEW c \in ToSet(channels')
      PROVE  /\ c.probed = FALSE
             /\ ~c.usb => \E a \in ToSet(address) : ~IsUsb(a) /\ a.host \in reachable
  <2>1. PICK a \in ToSet(address) :
          a.host \in reachable /\ c = [host |-> a.host, usb |-> IsUsb(a), probed |-> FALSE]
    BY <1>1
  <2>2. c.probed = FALSE /\ c.usb = IsUsb(a)
    BY <2>1
  <2> QED BY <2>1, <2>2
<1>3. PeerInv'
  BY <1>2 DEF PeerInv
<1> QED BY <1>1, <1>2, <1>3


LEMMA CombinedGivenKeeps == ConnectInv /\ CombinedGiven => ConnectInv'
<1> SUFFICES ASSUME ConnectInv, CombinedGiven PROVE ConnectInv'
  OBVIOUS
<1> DEFINE streams(a) == IF ~IsUsb(a) THEN StreamCount ELSE IF IsTunnel(a) THEN 1 ELSE 2
           q == [i \in DOMAIN address |->
                   Opens(address[i].host, streams(address[i]), IsUsb(address[i]), FALSE)]
<1>1. ConnectTyped /\ pref = "Combined"
  BY StageTells DEF ConnectInv, CombinedGiven
<1>2. /\ channels' = FlattenSeq(q)
      /\ usbFound' = \E a \in ToSet(address) : IsUsb(a) /\ a.host \in reachable
      /\ wifiFound' = \E a \in ToSet(address) : ~IsUsb(a) /\ a.host \in reachable
      /\ stage' = "CombinedUsb" /\ UNCHANGED <<callVars, reachable, atStart>>
  BY DEF CombinedGiven
<1>3. /\ q = [i \in DOMAIN address |-> q[i]]
      /\ \A i \in DOMAIN address : \E n \in Nat \ {0} :
           q[i] = Opens(address[i].host, n, IsUsb(address[i]), FALSE)
  <2>1. ASSUME NEW a PROVE streams(a) \in Nat \ {0}
    BY StreamsPositive
  <2> HIDE DEF streams
  <2> QED BY <2>1
<1> HIDE DEF q
<1>4. /\ channels' \in Seq(Channel) /\ PeerInv'
      /\ \A c \in ToSet(channels') : c.probed = FALSE
      /\ \A c \in ToSet(channels') : ~c.usb =>
           \E a \in ToSet(address) : ~IsUsb(a) /\ a.host \in reachable
      /\ channels' = <<>> => \A a \in ToSet(address) : a.host \notin reachable
      /\ (\E a \in ToSet(address) : a.host \in reachable) => channels' # <<>>
  BY <1>1, <1>2, <1>3, GivenOpened
<1>5. ConnectTyped' /\ Meant' = Meant
  <2>1. wifiFound' \in BOOLEAN /\ usbFound' \in BOOLEAN
    BY <1>2
  <2>2. stage' \in StagesOf(pref)
    BY <1>1, <1>2 DEF StagesOf
  <2> QED BY <1>1, <1>2, <1>4, <2>1, <2>2, OpeningTyped
<1>6. GivenInv'
  BY <1>2, <1>4 DEF GivenInv
<1>7. MissInv'
  <2>1. channels' = <<>> => \A a \in ToSet(address') : a.host \notin atStart'
    BY <1>1, <1>2, <1>4 DEF ConnectTyped, callVars
  <2> QED BY <1>2, <2>1 DEF MissInv
<1> QED BY <1>4, <1>5, <1>6, <1>7 DEF ConnectInv

LEMMA AutomaticGivenKeeps == ConnectInv /\ AutomaticGiven => ConnectInv'
<1> SUFFICES ASSUME ConnectInv, AutomaticGiven PROVE ConnectInv'
  OBVIOUS
<1> DEFINE streams(a) == IF IsUsb(a) THEN 1 ELSE StreamCount
           q == [i \in DOMAIN address |->
                   Opens(address[i].host, streams(address[i]), IsUsb(address[i]), FALSE)]
<1>1. ConnectTyped /\ pref = "Automatic"
  BY StageTells DEF ConnectInv, AutomaticGiven
<1>2. /\ channels' = FlattenSeq(q) /\ stage' = "AutomaticProbe"
      /\ UNCHANGED <<callVars, reachable, atStart, wifiFound, usbFound>>
  BY DEF AutomaticGiven
<1>3. /\ q = [i \in DOMAIN address |-> q[i]]
      /\ \A i \in DOMAIN address : \E n \in Nat \ {0} :
           q[i] = Opens(address[i].host, n, IsUsb(address[i]), FALSE)
  <2>1. ASSUME NEW a PROVE streams(a) \in Nat \ {0}
    BY StreamsPositive
  <2> HIDE DEF streams
  <2> QED BY <2>1
<1> HIDE DEF q
<1>4. /\ channels' \in Seq(Channel) /\ PeerInv'
      /\ \A c \in ToSet(channels') : c.probed = FALSE
      /\ channels' = <<>> => \A a \in ToSet(address) : a.host \notin reachable
  BY <1>1, <1>2, <1>3, GivenOpened
<1>5. ConnectTyped' /\ Meant' = Meant
  <2>1. wifiFound' \in BOOLEAN /\ usbFound' \in BOOLEAN
    BY <1>1, <1>2 DEF ConnectTyped
  <2>2. stage' \in StagesOf(pref)
    BY <1>1, <1>2 DEF StagesOf
  <2> QED BY <1>1, <1>2, <1>4, <2>1, <2>2, OpeningTyped
<1>6. GivenInv'
  BY <1>2, <1>4 DEF GivenInv
<1>7. MissInv'
  <2>1. channels' = <<>> => \A a \in ToSet(address') : a.host \notin atStart'
    BY <1>1, <1>2, <1>4 DEF ConnectTyped, callVars
  <2> QED BY <1>2, <2>1 DEF MissInv
<1> QED BY <1>4, <1>5, <1>6, <1>7 DEF ConnectInv

LEMMA CombinedUsbKeeps == ConnectInv /\ CombinedUsb => ConnectInv'
<1> SUFFICES ASSUME ConnectInv, CombinedUsb PROVE ConnectInv'
  OBVIOUS
<1> DEFINE t == Opens("loop", 1, TRUE, FALSE)
<1>1. ConnectTyped /\ pref = "Combined" /\ GivenInv /\ MissInv /\ stage = "CombinedUsb"
  BY StageTells DEF ConnectInv, CombinedUsb
<1>2. /\ channels' = IF usbFound THEN channels ELSE channels \o t
      /\ stage' = "CombinedWifi"
      /\ UNCHANGED <<callVars, reachable, atStart, wifiFound, usbFound>>
  BY DEF CombinedUsb
<1> HIDE DEF t
<1>3. /\ t \in Seq(Channel)
      /\ \A c : c \in ToSet(t)
                <=> "loop" \in reachable /\ c = [host |-> "loop", usb |-> TRUE, probed |-> FALSE]
      /\ t = <<>> <=> "loop" \notin reachable
  BY <1>1, StreamsPositive, OpensHolds DEF t
<1>4. ASSUME NEW c \in ToSet(t) PROVE c.usb = TRUE /\ c.probed = FALSE
  BY <1>3
<1>5. channels \in Seq(Channel)
  BY <1>1 DEF ConnectTyped
<1>6. /\ channels \o t \in Seq(Channel)
      /\ \A c : c \in ToSet(channels \o t) <=> c \in ToSet(channels) \/ c \in ToSet(t)
  BY <1>3, <1>5, Concatenated
<1>7. channels \o t = <<>> => channels = <<>> /\ t = <<>>
  BY <1>3, <1>5, <1>6, HeldBy
<1>8. /\ channels' \in Seq(Channel)
      /\ \A c \in ToSet(channels') : c \in ToSet(channels) \/ c \in ToSet(t)
      /\ channels' = <<>> => channels = <<>> /\ (usbFound \/ t = <<>>)
  BY <1>2, <1>5, <1>6, <1>7
<1>9. ConnectTyped' /\ Meant' = Meant
  <2>1. wifiFound' \in BOOLEAN /\ usbFound' \in BOOLEAN
    BY <1>1, <1>2 DEF ConnectTyped
  <2>2. stage' \in StagesOf(pref)
    BY <1>1, <1>2 DEF StagesOf
  <2> QED BY <1>1, <1>2, <1>8, <2>1, <2>2, OpeningTyped
<1>10. \A c \in ToSet(channels') : ~c.probed /\ (~c.usb => wifiFound)
  BY <1>1, <1>4, <1>8 DEF GivenInv
<1>11. wifiFound \/ usbFound => channels' # <<>>
  BY <1>1, <1>8 DEF GivenInv
<1>12. GivenInv' /\ PeerInv'
  BY <1>2, <1>10, <1>11 DEF GivenInv, PeerInv
<1>13. MissInv'
  <2> SUFFICES ASSUME channels' = <<>>
               PROVE  /\ \A a \in ToSet(address') : a.host \notin atStart'
                      /\ "loop" \notin atStart'
    BY <1>2 DEF MissInv
  <2>1. channels = <<>> /\ "loop" \notin reachable
    BY <1>3, <1>8, <1>11
  <2> QED BY <1>1, <1>2, <2>1 DEF MissInv, ConnectTyped, callVars
<1> QED BY <1>9, <1>12, <1>13 DEF ConnectInv

LEMMA CombinedWifiKeeps == ConnectInv /\ CombinedWifi => ConnectInv'
<1> SUFFICES ASSUME ConnectInv, CombinedWifi PROVE ConnectInv'
  OBVIOUS
<1> DEFINE given == \E a \in ToSet(address) : IsTunnel(a) \/ a.marked
           t == Probe(WindowsProbes)
<1>1. /\ ConnectTyped /\ pref = "Combined" /\ GivenInv /\ PeerInv /\ MissInv
      /\ stage = "CombinedWifi"
  BY StageTells DEF ConnectInv, CombinedWifi
<1>2. /\ channels' = IF wifiFound \/ given THEN channels ELSE channels \o t
      /\ stage' = "done" /\ UNCHANGED <<callVars, reachable, atStart, wifiFound, usbFound>>
  BY DEF CombinedWifi
<1>3. /\ t \in Seq(Channel)
      /\ \A c \in ToSet(t) : c.probed /\ ~c.usb
      /\ \A c, d \in ToSet(t) : c.host = d.host
      /\ t = <<>> /\ platform = "windows" => "gw1" \notin reachable /\ "gw2" \notin reachable
  BY <1>1, WindowsProbed
<1>4. channels \in Seq(Channel) /\ \A c \in ToSet(channels) : ~c.probed /\ (~c.usb => wifiFound)
  BY <1>1 DEF ConnectTyped, GivenInv
<1>5. /\ channels' \in Seq(Channel) /\ PeerInv'
      /\ channels' = <<>> => channels = <<>> /\ (wifiFound \/ given \/ t = <<>>)
  <2> HIDE DEF t, given
  <2>1. CASE wifiFound \/ given
    BY <1>1, <1>2, <1>4, <2>1 DEF PeerInv
  <2>2. CASE ~(wifiFound \/ given)
    <3>1. \A c \in ToSet(channels) : ~c.probed /\ c.usb
      BY <1>4, <2>2
    <3>2. channels' = channels \o t
      BY <1>2, <2>2
    <3> QED BY <1>3, <1>4, <3>1, <3>2, PeersJoin
  <2> QED BY <2>1, <2>2
<1>6. ConnectTyped' /\ Meant' = Meant
  BY <1>1, <1>2, <1>5, OpeningTyped DEF ConnectTyped
<1>7. GivenInv'
  BY <1>2 DEF GivenInv
<1>8. MissInv'
  <2> SUFFICES ASSUME channels' = <<>>, NEW x \in Meant, x \in atStart PROVE FALSE
    BY <1>2, <1>6 DEF MissInv
  <2>1. channels = <<>> /\ ~wifiFound
    BY <1>1, <1>5 DEF GivenInv
  <2>2. /\ \A a \in ToSet(address) : a.host \notin atStart
        /\ "loop" \notin atStart
    BY <1>1, <2>1 DEF MissInv
  <2>3. \/ x = "loop" \/ x \in {a.host : a \in ToSet(address)}
        \/ x \in {"gw1", "gw2"} /\ platform = "windows" /\ ~given
    BY <1>1 DEF Meant
  <2>4. x \in {"gw1", "gw2"} /\ platform = "windows" /\ ~given
    BY <2>2, <2>3
  <2>5. x \in reachable
    BY <1>1 DEF ConnectTyped
  <2> HIDE DEF t, given
  <2> QED BY <1>3, <1>5, <2>1, <2>4, <2>5
<1> QED BY <1>5, <1>6, <1>7, <1>8 DEF ConnectInv


\* What the two automatic probes have in common: a stream over USB or as given, then
\* the first of a list of likely hosts.
LEMMA ProbingKeeps ==
  ASSUME ConnectInv, stage = "AutomaticProbe", stage' = "AutomaticFallback", channels = <<>>,
         UNCHANGED <<callVars, reachable, atStart, wifiFound, usbFound>>,
         NEW s \in Seq(Channel), NEW t \in Seq(Channel),
         \A c \in ToSet(s) : ~c.probed /\ c.usb,
         \A c \in ToSet(t) : c.probed /\ ~c.usb,
         \A c, d \in ToSet(t) : c.host = d.host,
         channels' = s \o t,
         s = <<>> /\ t = <<>> =>
           \A x \in Meant : x \in {a.host : a \in ToSet(address)} \/ x \notin reachable
  PROVE  ConnectInv'
<1>1. ConnectTyped /\ pref = "Automatic" /\ MissInv
  BY StageTells DEF ConnectInv
<1>2. channels' \in Seq(Channel) /\ PeerInv' /\ (channels' = <<>> => s = <<>> /\ t = <<>>)
  BY PeersJoin
<1>3. ConnectTyped' /\ Meant' = Meant
  <2>1. wifiFound' \in BOOLEAN /\ usbFound' \in BOOLEAN
    BY <1>1 DEF ConnectTyped
  <2>2. stage' \in StagesOf(pref)
    BY <1>1 DEF StagesOf
  <2> QED BY <1>1, <1>2, <2>1, <2>2, OpeningTyped
<1>4. GivenInv'
  BY DEF GivenInv
<1>5. MissInv'
  <2>1. \A a \in ToSet(address) : a.host \notin atStart
    BY <1>1 DEF MissInv
  <2>2. address' = address /\ atStart' = atStart
    BY DEF callVars
  <2>3. ASSUME channels' = <<>>, NEW x \in Meant, x \in atStart PROVE FALSE
    <3>1. x \in reachable
      BY <1>1, <2>3 DEF ConnectTyped
    <3> QED BY <1>2, <2>1, <2>3, <3>1
  <2> QED BY <1>3, <2>1, <2>2, <2>3 DEF MissInv
<1> QED BY <1>2, <1>3, <1>4, <1>5 DEF ConnectInv

LEMMA AndroidProbeKeeps == ConnectInv /\ AndroidProbe => ConnectInv'
<1> SUFFICES ASSUME ConnectInv, AndroidProbe PROVE ConnectInv'
  OBVIOUS
<1> DEFINE first == IF address = <<>> THEN {"loop"} ELSE Literal
           s == IF first = {} THEN <<>> ELSE Opens(CHOOSE h \in first : TRUE, 1, TRUE, FALSE)
           hosts == <<"gw1", "gw2", "lan">>
           t == Probe(hosts)
<1>1. ConnectTyped /\ pref = "Automatic"
  BY StageTells DEF ConnectInv, AndroidProbe
<1>2. /\ stage = "AutomaticProbe" /\ stage' = "AutomaticFallback" /\ channels = <<>>
      /\ platform = "android" /\ channels' = s \o t
      /\ UNCHANGED <<callVars, reachable, atStart, wifiFound, usbFound>>
  BY DEF AndroidProbe
<1>3. first = {} \/ \E h : first = {h}
  BY <1>1, LiteralHolds
<1>4. address = <<>> => first = {"loop"}
  OBVIOUS
<1>5. hosts \in Seq(Hosts) /\ Len(hosts) = 3
      /\ hosts[1] = "gw1" /\ hosts[2] = "gw2" /\ hosts[3] = "lan"
  BY DEF Hosts
<1> HIDE DEF first, hosts
<1>6. /\ s \in Seq(Channel)
      /\ \A c \in ToSet(s) : ~c.probed /\ c.usb
      /\ s = <<>> => \A h \in first : h \notin reachable
  BY <1>1, <1>3, TriedFirst
<1>7. /\ t \in Seq(Channel)
      /\ \A c \in ToSet(t) : c.probed /\ ~c.usb
      /\ \A c, d \in ToSet(t) : c.host = d.host
      /\ t = <<>> => \A i \in 1 .. 3 : hosts[i] \notin reachable
  BY <1>1, <1>5, ProbeHolds
<1> HIDE DEF s, t
<1>8. ASSUME s = <<>>, t = <<>>, NEW x \in Meant
      PROVE  x \in {a.host : a \in ToSet(address)} \/ x \notin reachable
  <2>1. \/ x \in {a.host : a \in ToSet(address)}
        \/ x \in {"gw1", "gw2", "lan"}
        \/ x = "loop" /\ address = <<>>
    BY <1>1, <1>2 DEF Meant
  <2>2. "gw1" \notin reachable /\ "gw2" \notin reachable /\ "lan" \notin reachable
    BY <1>5, <1>7, <1>8
  <2>3. address = <<>> => "loop" \notin reachable
    BY <1>4, <1>6, <1>8
  <2> QED BY <2>1, <2>2, <2>3
<1> QED BY <1>2, <1>6, <1>7, <1>8, ProbingKeeps

LEMMA DesktopProbeKeeps == ConnectInv /\ DesktopProbe => ConnectInv'
<1> SUFFICES ASSUME ConnectInv, DesktopProbe PROVE ConnectInv'
  OBVIOUS
<1> DEFINE given == IF address = <<>> \/ (adb /\ "loop" \in reachable)
                    THEN {"loop"} ELSE Literal
           s == IF given = {} THEN <<>> ELSE Opens(CHOOSE h \in given : TRUE, 1, TRUE, FALSE)
           t == Probe(WindowsProbes)
<1>1. ConnectTyped /\ pref = "Automatic"
  BY StageTells DEF ConnectInv, DesktopProbe
<1>2. /\ stage = "AutomaticProbe" /\ stage' = "AutomaticFallback" /\ channels = <<>>
      /\ platform # "android" /\ channels' = s \o t
      /\ UNCHANGED <<callVars, reachable, atStart, wifiFound, usbFound>>
  BY DEF DesktopProbe
<1>3. given = {} \/ \E h : given = {h}
  BY <1>1, LiteralHolds
<1>4. (adb \/ address = <<>>) /\ "loop" \in reachable => "loop" \in given
  OBVIOUS
<1> HIDE DEF given
<1>6. /\ s \in Seq(Channel)
      /\ \A c \in ToSet(s) : ~c.probed /\ c.usb
      /\ s = <<>> => \A h \in given : h \notin reachable
  BY <1>1, <1>3, TriedFirst
<1>7. /\ t \in Seq(Channel)
      /\ \A c \in ToSet(t) : c.probed /\ ~c.usb
      /\ \A c, d \in ToSet(t) : c.host = d.host
      /\ t = <<>> /\ platform = "windows" => "gw1" \notin reachable /\ "gw2" \notin reachable
  BY <1>1, WindowsProbed
<1> HIDE DEF s, t
<1>8. ASSUME s = <<>>, t = <<>>, NEW x \in Meant
      PROVE  x \in {a.host : a \in ToSet(address)} \/ x \notin reachable
  <2>1. \/ x \in {a.host : a \in ToSet(address)}
        \/ x = "loop" /\ (adb \/ address = <<>>)
        \/ x \in {"gw1", "gw2"} /\ platform = "windows"
    <3>1. platform \in {"windows", "other"}
      BY <1>1, <1>2 DEF ConnectTyped
    <3> QED BY <1>1, <3>1 DEF Meant
  <2>2. adb \/ address = <<>> => "loop" \notin reachable
    BY <1>4, <1>6, <1>8
  <2> QED BY <1>7, <1>8, <2>1, <2>2
<1> QED BY <1>2, <1>6, <1>7, <1>8, ProbingKeeps

LEMMA AutomaticFallbackKeeps == ConnectInv /\ AutomaticFallback => ConnectInv'
<1> SUFFICES ASSUME ConnectInv, AutomaticFallback PROVE ConnectInv'
  OBVIOUS
<1> DEFINE up == {i \in DOMAIN address : ~address[i].marked /\ address[i].host \in reachable}
           a == address[Min(up)]
<1>1. /\ ConnectTyped /\ PeerInv /\ MissInv /\ stage = "AutomaticFallback"
      /\ channels \in Seq(Channel)
  BY DEF ConnectInv, ConnectTyped, AutomaticFallback
<1>2. /\ channels' = CASE channels # <<>> -> channels
                       [] channels = <<>> /\ address = <<>> -> Opens("loop", 1, TRUE, FALSE)
                       [] OTHER -> IF up = {} THEN <<>> ELSE Opens(a.host, 1, IsTunnel(a), FALSE)
      /\ stage' = "done" /\ UNCHANGED <<callVars, reachable, atStart, wifiFound, usbFound>>
  BY DEF AutomaticFallback
<1> HIDE DEF up, a
<1>3. channels # <<>> => channels' = channels
  BY <1>2
<1>4. channels = <<>> => channels' \in Seq(Channel) /\ \A c \in ToSet(channels') : c.probed = FALSE
  <2> SUFFICES ASSUME channels = <<>>
               PROVE  channels' \in Seq(Channel) /\ \A c \in ToSet(channels') : c.probed = FALSE
    OBVIOUS
  <2>1. ASSUME NEW h, NEW u \in BOOLEAN, channels' = Opens(h, 1, u, FALSE)
        PROVE  channels' \in Seq(Channel) /\ \A c \in ToSet(channels') : c.probed = FALSE
    <3>1. /\ channels' \in Seq(Channel)
          /\ \A c \in ToSet(channels') : c = [host |-> h, usb |-> u, probed |-> FALSE]
      BY <1>1, <2>1, StreamsPositive, OpensHolds
    <3> QED BY <3>1
  <2>2. CASE address = <<>>
    <3>1. channels' = Opens("loop", 1, TRUE, FALSE)
      BY <1>2, <2>2
    <3> QED BY <2>1, <3>1
  <2>3. CASE address # <<>> /\ up # {}
    <3> DEFINE u == IsTunnel(a)
    <3>1. u \in BOOLEAN
      BY DEF IsTunnel
    <3>2. channels' = Opens(a.host, 1, u, FALSE)
      BY <1>2, <2>3
    <3> HIDE DEF u
    <3> QED BY <2>1, <3>1, <3>2
  <2>4. CASE address # <<>> /\ up = {}
    <3>1. channels' = <<>>
      BY <1>2, <2>4
    <3> QED BY <3>1, NoChannel
  <2> QED BY <2>2, <2>3, <2>4
<1>5. channels' \in Seq(Channel) /\ PeerInv'
  <2>1. CASE channels # <<>>
    BY <1>1, <1>3, <2>1 DEF PeerInv
  <2>2. CASE channels = <<>>
    BY <1>4, <2>2 DEF PeerInv
  <2> QED BY <2>1, <2>2
<1>6. ConnectTyped' /\ Meant' = Meant
  BY <1>1, <1>2, <1>5, OpeningTyped DEF ConnectTyped
<1>7. GivenInv'
  BY <1>2 DEF GivenInv
<1>8. MissInv'
  <2>1. channels' = <<>> => channels = <<>>
    BY <1>3
  <2>2. channels = <<>> => Meant \cap atStart = {}
    BY <1>1 DEF MissInv
  <2> QED BY <1>2, <1>6, <2>1, <2>2 DEF MissInv
<1> QED BY <1>5, <1>6, <1>7, <1>8 DEF ConnectInv

LEMMA ConnectStep == ConnectInv /\ [ConnectNext]_connectVars => ConnectInv'
<1> SUFFICES ASSUME ConnectInv, [ConnectNext]_connectVars PROVE ConnectInv'
  OBVIOUS
<1>1. CASE HostComesUp
  <2>1. /\ UNCHANGED <<callVars, atStart, stage, foundVars>>
        /\ reachable \subseteq reachable' /\ reachable' \subseteq Hosts
    BY <1>1 DEF HostComesUp, ConnectInv, ConnectTyped
  <2>2. Meant' = Meant
    BY <2>1, MeantKept
  <2> QED BY <2>1, <2>2 DEF ConnectInv, ConnectTyped, GivenInv, PeerInv, MissInv,
                            callVars, foundVars
<1>2. CASE SetUpTunnels
  <2>1. /\ stage' = pref /\ UNCHANGED <<callVars, foundVars>>
        /\ \/ reachable' = reachable /\ atStart' = atStart
           \/ reachable' = reachable \cup {"loop"} /\ atStart' = atStart \cup {"loop"}
    BY <1>2 DEF SetUpTunnels
  <2>2. pref \in {"Automatic", "Combined", "UsbOnly", "WifiDirectOnly"} /\ pref \in StagesOf(pref)
    BY DEF ConnectInv, ConnectTyped, Preferences, StagesOf
  <2>3. reachable' \subseteq Hosts /\ atStart' \subseteq reachable'
    BY <2>1 DEF ConnectInv, ConnectTyped, Hosts
  <2>4. ConnectTyped'
    BY <2>1, <2>2, <2>3 DEF ConnectInv, ConnectTyped, callVars, foundVars
  <2>5. GivenInv' /\ PeerInv' /\ MissInv'
    BY <2>1, <2>2 DEF ConnectInv, GivenInv, PeerInv, MissInv, foundVars
  <2> QED BY <2>4, <2>5 DEF ConnectInv
<1>3. CASE AutomaticHasChannels
  <2>1. /\ channels # <<>> /\ stage' = "done"
        /\ UNCHANGED <<callVars, reachable, atStart, channels, wifiFound, usbFound>>
    BY <1>3 DEF AutomaticHasChannels, foundVars
  <2>2. ConnectTyped'
    BY <2>1 DEF ConnectInv, ConnectTyped, callVars
  <2>3. GivenInv' /\ PeerInv' /\ MissInv'
    BY <2>1 DEF ConnectInv, GivenInv, PeerInv, MissInv
  <2> QED BY <2>2, <2>3 DEF ConnectInv
<1>4. CASE UNCHANGED connectVars
  <2>1. UNCHANGED <<callVars, reachable, atStart, stage, foundVars>>
    BY <1>4 DEF connectVars
  <2>2. Meant' = Meant
    BY <2>1, MeantKept
  <2> QED BY <2>1, <2>2 DEF ConnectInv, ConnectTyped, GivenInv, PeerInv, MissInv,
                            callVars, foundVars
<1> QED BY <1>1, <1>2, <1>3, <1>4, UsbOnlyKeeps, WifiDirectOnlyKeeps, CombinedGivenKeeps,
           CombinedUsbKeeps, CombinedWifiKeeps, AutomaticGivenKeeps, AndroidProbeKeeps,
           DesktopProbeKeeps, AutomaticFallbackKeeps DEF ConnectNext

LEMMA ConnectInvHolds == ConnectSpec => []ConnectInv
<1> QED BY ConnectStart, ConnectStep, PTL DEF ConnectSpec

\* A send fails to connect only when none of the hosts its preference stands for
\* answered all along (sender.rs, resolve_and_connect_transports_with_streams).
THEOREM ChannelAlwaysFound == ConnectSpec => []ConnectFindsAChannel
<1>1. ConnectInv => ConnectFindsAChannel
  BY DEF ConnectInv, MissInv, ConnectFindsAChannel
<1> QED BY <1>1, ConnectInvHolds, PTL

\* Probed channels lead to one host, and there are none beside the Wi-Fi channels the
\* caller asked for, for any list of addresses.
THEOREM ProbingFindsOnePeer == ConnectSpec => []ProbedWifiIsOnePeer
<1>1. ConnectInv => ProbedWifiIsOnePeer
  <2> SUFFICES ASSUME ConnectInv PROVE ProbedWifiIsOnePeer
    OBVIOUS
  <2> DEFINE probed == {c.host : c \in {d \in ToSet(channels) : d.probed}}
             asked  == {c.host : c \in {d \in ToSet(channels) : ~d.probed /\ ~d.usb}}
  <2>1. \A x, y \in probed : x = y
    BY DEF ConnectInv, PeerInv
  <2>2. probed # {} => asked = {}
    BY DEF ConnectInv, PeerInv
  <2> HIDE DEF probed, asked
  <2>3. Cardinality(probed) <= 1
    <3>1. CASE probed = {}
      BY <3>1, FS_EmptySet
    <3>2. CASE probed # {}
      <4>1. PICK x : probed = {x}
        BY <2>1, <3>2
      <4> QED BY <4>1, FS_Singleton
    <3> QED BY <3>1, <3>2
  <2>4. Cardinality(probed) <= 1 /\ (probed # {} => asked = {})
    BY <2>2, <2>3
  <2> QED BY <2>4 DEF ProbedWifiIsOnePeer, probed, asked
<1> QED BY <1>1, ConnectInvHolds, PTL
==============================================================================
