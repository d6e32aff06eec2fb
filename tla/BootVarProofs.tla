---------------------------- MODULE BootVarProofs ----------------------------
(***************************************************************************)
(* Proofs about BootVar, for every number of boot records and any amount   *)
(* of interference. Induction over numbers and sequences is by the least   *)
(* counterexample: a set of naturals that is not empty has a least member. *)
(***************************************************************************)
EXTENDS BootVar, FiniteSetTheorems, SequenceTheorems, WellFoundedInduction, TLAPS

-----------------------------------------------------------------------------
(* The sorted array and the first free number.                             *)

\* A set of naturals has a least member.
LEMMA LeastNumber ==
    ASSUME NEW T, T \subseteq Nat, T # {} PROVE \E x \in T : \A y \in T : x <= y
<1>1. PICK x \in T : \A y \in T : <<y, x>> \notin OpToRel(<, Nat)
  BY WFMin, NatLessThanWellFounded
<1>2. OpToRel(<, Nat) = {p \in Nat \X Nat : p[1] < p[2]}
  BY Zenon DEF OpToRel
<1>3. ASSUME NEW y \in T PROVE x <= y
  <2>1. <<y, x>> \in Nat \X Nat
    OBVIOUS
  <2>2. <<y, x>> \notin {p \in Nat \X Nat : p[1] < p[2]}
    BY <1>1, <1>2
  <2> QED
    BY <2>1, <2>2
<1> QED
  BY <1>3

\* An array nums of n numbers holds the set S in ascending order.
Sorted(nums, S, n) ==
    /\ nums \in [1..n -> S]
    /\ \A i, j \in 1..n : i < j => nums[i] < nums[j]
    /\ \A x \in S : \E i \in 1..n : nums[i] = x

\* Every finite set of numbers can be sorted.
LEMMA CanBeSorted ==
    ASSUME NEW S, S \subseteq Nat, IsFiniteSet(S) PROVE \E nums : Sorted(nums, S, Cardinality(S))
<1> DEFINE Bad == {n \in Nat : \E R \in SUBSET Nat :
                      IsFiniteSet(R) /\ Cardinality(R) = n /\ ~\E nums : Sorted(nums, R, n)}
<1>1. Bad = {}
  <2> SUFFICES ASSUME Bad # {} PROVE FALSE
    OBVIOUS
  <2>1. PICK n \in Bad : \A m \in Bad : n <= m
    BY LeastNumber
  <2>2. PICK R \in SUBSET Nat :
            IsFiniteSet(R) /\ Cardinality(R) = n /\ ~\E nums : Sorted(nums, R, n)
    BY <2>1
  <2>3. n \in Nat
    BY <2>1
  <2>4. CASE R = {}
    <3>1. n = 0
      BY <2>2, <2>4, FS_EmptySet
    <3>2. Sorted([i \in 1..0 |-> 0], R, n)
      BY <2>4, <3>1 DEF Sorted
    <3> QED
      BY <2>2, <3>2
  <2>5. CASE R # {}
    <3>1. PICK x \in R : \A y \in R : x <= y
      BY <2>5, LeastNumber
    <3>2. IsFiniteSet(R \ {x}) /\ Cardinality(R \ {x}) = n - 1 /\ n - 1 \in Nat
      <4>1. IsFiniteSet(R \ {x}) /\ Cardinality(R \ {x}) = Cardinality(R) - 1
        BY <2>2, FS_RemoveElement
      <4>2. Cardinality(R \ {x}) \in Nat
        BY <4>1, FS_CardinalityType
      <4> QED
        BY <2>2, <4>1, <4>2
    <3>3. n - 1 \notin Bad
      BY <2>1, <2>3, <3>2
    <3>4. PICK low : Sorted(low, R \ {x}, n - 1)
      BY <3>2, <3>3
    <3> DEFINE nums == [i \in 1..n |-> IF i = 1 THEN x ELSE low[i - 1]]
    <3>5. \A i \in 1..n : i # 1 => i - 1 \in 1..(n - 1)
      BY <2>3
    <3>6. nums \in [1..n -> R]
      BY <3>4, <3>5 DEF Sorted
    <3>7. \A i, j \in 1..n : i < j => nums[i] < nums[j]
      <4> SUFFICES ASSUME NEW i \in 1..n, NEW j \in 1..n, i < j PROVE nums[i] < nums[j]
        OBVIOUS
      <4>1. j # 1 /\ j - 1 \in 1..(n - 1) /\ low[j - 1] \in R \ {x}
        BY <2>3, <3>4, <3>5 DEF Sorted
      <4>2. CASE i = 1
        <5>1. nums[i] = x /\ nums[j] = low[j - 1]
          BY <4>1, <4>2
        <5>2. \A y \in R \ {x} : x < y
          BY <3>1
        <5> QED
          BY <4>1, <5>1, <5>2
      <4>3. CASE i # 1
        <5>1. i - 1 \in 1..(n - 1) /\ i - 1 < j - 1
          BY <2>3, <3>5, <4>3
        <5> QED
          BY <3>4, <4>1, <4>3, <5>1 DEF Sorted
      <4> QED
        BY <4>2, <4>3
    <3>8. \A y \in R : \E i \in 1..n : nums[i] = y
      <4> SUFFICES ASSUME NEW y \in R PROVE \E i \in 1..n : nums[i] = y
        OBVIOUS
      <4>1. CASE y = x
        <5>1. 1 \in 1..n /\ nums[1] = x
          BY <2>3, <3>2
        <5> QED
          BY <4>1, <5>1
      <4>2. CASE y # x
        <5>1. PICK i \in 1..(n - 1) : low[i] = y
          BY <3>4, <4>2 DEF Sorted
        <5>2. i + 1 \in 1..n /\ i + 1 # 1 /\ (i + 1) - 1 = i
          BY <2>3
        <5>3. nums[i + 1] = y
          BY <5>1, <5>2
        <5> QED
          BY <5>2, <5>3
      <4> QED
        BY <4>1, <4>2
    <3> HIDE DEF nums
    <3>9. Sorted(nums, R, n)
      BY <3>6, <3>7, <3>8 DEF Sorted
    <3> QED
      BY <2>2, <3>9
  <2> QED
    BY <2>4, <2>5
<1>2. Cardinality(S) \in Nat
  BY FS_CardinalityType
<1> QED
  BY <1>1, <1>2

\* ... and Ascending does it.
LEMMA AscendingSorts ==
    ASSUME NEW S, S \subseteq Nat, IsFiniteSet(S) PROVE Sorted(Ascending(S), S, Cardinality(S))
<1> DEFINE Is(nums) == /\ \A i, j \in 1..Cardinality(S) : i < j => nums[i] < nums[j]
                       /\ \A n \in S : \E i \in 1..Cardinality(S) : nums[i] = n
<1>1. \E nums \in [1..Cardinality(S) -> S] : Is(nums)
  BY CanBeSorted DEF Sorted
<1>2. Ascending(S) = CHOOSE nums \in [1..Cardinality(S) -> S] : Is(nums)
  BY DEF Ascending
<1> HIDE DEF Is
<1>3. Ascending(S) \in [1..Cardinality(S) -> S] /\ Is(Ascending(S))
  BY <1>1, <1>2
<1> QED
  BY <1>3 DEF Is, Sorted

\* In a sorted array no number is below its index.
LEMMA NotBelowIndex ==
    ASSUME NEW S, S \subseteq Nat, NEW c \in Nat, NEW nums, Sorted(nums, S, c)
    PROVE  \A i \in 1..c : i - 1 <= nums[i] /\ nums[i] \in Nat
<1> DEFINE Bad == {i \in 1..c : nums[i] < i - 1}
<1>1. \A i \in 1..c : nums[i] \in Nat
  BY DEF Sorted
<1>2. ASSUME Bad # {} PROVE FALSE
  <2>1. Bad \subseteq Nat
    OBVIOUS
  <2>2. PICK i \in Bad : \A j \in Bad : i <= j
    BY <1>2, <2>1, LeastNumber
  <2>3. i \in 1..c /\ nums[i] < i - 1 /\ nums[i] \in Nat
    BY <1>1
  <2>4. i # 1 /\ i - 1 \in 1..c /\ i - 1 < i
    BY <2>3
  <2>5. i - 1 \notin Bad
    BY <2>2, <2>3, <2>4
  <2>6. nums[i - 1] \in Nat /\ ~(nums[i - 1] < (i - 1) - 1)
    BY <1>1, <2>4, <2>5
  <2>7. nums[i - 1] < nums[i]
    BY <2>3, <2>4 DEF Sorted
  <2> QED
    BY <2>3, <2>6, <2>7
<1> QED
  BY <1>1, <1>2

\* bootvar_find_free_no returns the least number not in use, if the count is that
\* of the list (bootvar.c:213-250).
LEMMA FirstFree ==
    ASSUME NEW S, S \subseteq Nat, IsFiniteSet(S), S # {}, NEW c, c = Cardinality(S)
    PROVE  /\ FreeNo(S, c) \in 0..c /\ FreeNo(S, c) \notin S
           /\ \A n \in 0..(FreeNo(S, c) - 1) : n \in S
<1>1. c \in Nat /\ c # 0
  BY FS_CardinalityType, FS_EmptySet
<1>2. PICK nums : nums = Ascending(S)
  OBVIOUS
<1>3. Sorted(nums, S, c)
  BY <1>2, AscendingSorts
<1>4. \A i \in 1..c : i - 1 <= nums[i] /\ nums[i] \in Nat
  BY <1>1, <1>3, NotBelowIndex
<1> DEFINE gaps == {i \in 1..c : i - 1 < nums[i]}
           first == CHOOSE i \in gaps : \A j \in gaps : i <= j
           res == IF gaps = {} THEN c ELSE first - 1
<1>5. FreeNo(S, c) = IF res = nums[c] THEN res + 1 ELSE res
  <2>1. nums \in Seq(S)
    BY <1>1, <1>3 DEF Sorted
  <2>2. c - Cardinality(S) = 0
    BY <1>1
  <2>3. [i \in 1..(c - Cardinality(S)) |-> 0] = <<>>
    BY <2>2
  <2>4. [i \in 1..(c - Cardinality(S)) |-> 0] \o Ascending(S) = nums
    BY <1>2, <2>1, <2>3, ConcatEmptySeq
  <2> DEFINE array == [i \in 1..(c - Cardinality(S)) |-> 0] \o Ascending(S)
             Res(G) == IF G = {} THEN c ELSE (CHOOSE i \in G : \A j \in G : i <= j) - 1
             Free(G, a) == IF Res(G) = a[c] THEN Res(G) + 1 ELSE Res(G)
  <2>5. FreeNo(S, c) = Free({i \in 1..c : i - 1 < array[i]}, array)
    BY <1>1, Zenon DEF FreeNo
  <2>6. Free(gaps, nums) = IF res = nums[c] THEN res + 1 ELSE res
    OBVIOUS
  <2> HIDE DEF Free
  <2>7. array = nums
    BY <2>4
  <2>8. {i \in 1..c : i - 1 < array[i]} = gaps
    BY <2>7, Zenon
  <2> HIDE DEF array, gaps, res
  <2> QED
    BY <2>5, <2>6, <2>7, <2>8
<1>6. CASE gaps = {}
  <2>1. \A i \in 1..c : nums[i] = i - 1
    BY <1>1, <1>4, <1>6
  <2>2. c \in 1..c /\ nums[c] = c - 1 /\ c # c - 1
    BY <1>1, <2>1
  <2>3. FreeNo(S, c) = c
    BY <1>5, <1>6, <2>2
  <2>4. c \notin S
    <3> SUFFICES ASSUME c \in S PROVE FALSE
      OBVIOUS
    <3>1. PICK i \in 1..c : nums[i] = c
      BY <1>3 DEF Sorted
    <3> QED
      BY <1>1, <2>1, <3>1
  <2>5. ASSUME NEW n \in 0..(c - 1) PROVE n \in S
    <3>1. n + 1 \in 1..c /\ (n + 1) - 1 = n
      BY <1>1
    <3> QED
      BY <1>3, <2>1, <3>1 DEF Sorted
  <2> QED
    BY <1>1, <2>3, <2>4, <2>5
<1>7. CASE gaps # {}
  <2>1. \E i \in gaps : \A j \in gaps : i <= j
    <3>1. gaps \subseteq Nat
      OBVIOUS
    <3> QED
      BY <1>7, <3>1, LeastNumber
  <2>2. PICK g : g = first
    OBVIOUS
  <2>3. g \in gaps /\ \A j \in gaps : g <= j
    BY <2>1, <2>2
  <2>4. res = g - 1
    BY <1>7, <2>2
  <2> HIDE DEF first
  <2>5. g \in 1..c /\ g - 1 < nums[g]
    BY <2>3
  <2>6. ASSUME NEW i \in 1..c, i < g PROVE nums[i] = i - 1
    <3>1. i \notin gaps
      BY <2>3, <2>5, <2>6
    <3> QED
      BY <1>4, <3>1
  <2>7. ASSUME NEW i \in 1..c, g <= i PROVE g - 1 < nums[i]
    BY <1>3, <1>4, <2>5, <2>7 DEF Sorted
  <2>8. c \in 1..c /\ res # nums[c]
    BY <1>1, <1>4, <2>4, <2>5, <2>7
  <2>9. FreeNo(S, c) = g - 1
    BY <1>5, <2>4, <2>8
  <2>10. g - 1 \notin S
    <3> SUFFICES ASSUME g - 1 \in S PROVE FALSE
      OBVIOUS
    <3>1. PICK i \in 1..c : nums[i] = g - 1
      BY <1>3 DEF Sorted
    <3> QED
      BY <2>5, <2>6, <2>7, <3>1
  <2>11. ASSUME NEW n \in 0..((g - 1) - 1) PROVE n \in S
    <3>1. n + 1 \in 1..c /\ (n + 1) - 1 = n /\ n + 1 < g
      BY <1>1, <2>5
    <3>2. nums[n + 1] \in S
      BY <1>3, <3>1 DEF Sorted
    <3> QED
      BY <2>6, <3>1, <3>2
  <2> QED
    BY <1>1, <2>5, <2>9, <2>10, <2>11
<1> QED
  BY <1>6, <1>7

-----------------------------------------------------------------------------
(* The loop over the boot order.                                           *)

\* What is copied after i entries, if that is g[i - 1] after one less.
Copied(s, S, g, i) ==
    IF i = 0 THEN <<>> ELSE IF s[i] \in S THEN Append(g[i - 1], s[i]) ELSE g[i - 1]

\* g is what is copied after each of the first n entries.
CopyOf(s, S, g, n) == g = [i \in 0..n |-> Copied(s, S, g, i)]

\* The loop can be run over any number of entries.
LEMMA LoopRuns == ASSUME NEW s, NEW S, NEW n \in Nat PROVE \E g : CopyOf(s, S, g, n)
<1> DEFINE Bad == {m \in Nat : ~\E g : CopyOf(s, S, g, m)}
<1>1. ASSUME Bad # {} PROVE FALSE
  <2>1. PICK m \in Bad : \A k \in Bad : m <= k
    BY <1>1, LeastNumber
  <2>2. m \in Nat /\ ~\E g : CopyOf(s, S, g, m)
    BY <2>1
  <2>3. CASE m = 0
    <3> DEFINE g == [i \in 0..0 |-> <<>>]
    <3>1. CopyOf(s, S, g, 0)
      BY DEF CopyOf, Copied
    <3> QED
      BY <2>2, <2>3, <3>1
  <2>4. CASE m # 0
    <3>1. m - 1 \in Nat /\ m - 1 \notin Bad
      BY <2>1, <2>2, <2>4
    <3>2. PICK g : CopyOf(s, S, g, m - 1)
      BY <3>1
    <3> DEFINE h == [i \in 0..m |-> IF i = m THEN Copied(s, S, g, m) ELSE g[i]]
    <3>3. \A i \in 0..(m - 1) : g[i] = Copied(s, S, g, i)
      BY <3>2 DEF CopyOf
    <3>4. \A i \in 0..m : i # m => i \in 0..(m - 1)
      BY <2>2
    <3>5. \A i \in 0..m : i # 0 => i - 1 \in 0..m /\ i - 1 # m
      BY <2>2
    <3>6. \A i \in 0..m : Copied(s, S, h, i) = Copied(s, S, g, i)
      BY <3>5 DEF Copied
    <3>7. \A i \in 0..m : h[i] = Copied(s, S, h, i)
      BY <3>3, <3>4, <3>6
    <3>8. h = [i \in 0..m |-> h[i]]
      OBVIOUS
    <3> HIDE DEF h
    <3>9. CopyOf(s, S, h, m)
      BY <3>7, <3>8 DEF CopyOf
    <3> QED
      BY <2>2, <3>9
  <2> QED
    BY <2>3, <2>4
<1> QED
  BY <1>1

\* Filter is the result of the loop.
LEMMA FilterLoop ==
    ASSUME NEW s, NEW S, Len(s) \in Nat
    PROVE  \E g : CopyOf(s, S, g, Len(s)) /\ Filter(s, S) = g[Len(s)]
<1> DEFINE g == CHOOSE h : CopyOf(s, S, h, Len(s))
<1>1. CopyOf(s, S, g, Len(s))
  BY LoopRuns
<1>2. Filter(s, S) = g[Len(s)]
  BY DEF Filter, CopyOf, Copied
<1> QED
  BY <1>1, <1>2

\* Loops over orders that agree on the first n entries have copied the same by then.
LEMMA LoopsAgree ==
    ASSUME NEW s, NEW t, NEW S, NEW n \in Nat, NEW k \in Nat, n <= k, NEW g, NEW h,
           \A i \in 1..n : s[i] = t[i], CopyOf(s, S, g, n), CopyOf(t, S, h, k)
    PROVE  \A i \in 0..n : g[i] = h[i]
<1> DEFINE Bad == {i \in 0..n : g[i] # h[i]}
<1>1. ASSUME NEW i \in 0..n PROVE g[i] = Copied(s, S, g, i) /\ h[i] = Copied(t, S, h, i)
  <2>1. i \in 0..k
    OBVIOUS
  <2> QED
    BY <2>1 DEF CopyOf
<1>2. ASSUME Bad # {} PROVE FALSE
  <2>1. Bad \subseteq Nat
    OBVIOUS
  <2>2. PICK m \in Bad : \A j \in Bad : m <= j
    BY <1>2, <2>1, LeastNumber
  <2>3. m \in 0..n /\ g[m] # h[m]
    BY <2>2
  <2>4. CASE m = 0
    BY <1>1, <2>3, <2>4 DEF Copied
  <2>5. CASE m # 0
    <3>1. m - 1 \in 0..n /\ m - 1 \notin Bad /\ m \in 1..n
      BY <2>2, <2>3, <2>5
    <3>2. g[m - 1] = h[m - 1] /\ s[m] = t[m]
      BY <3>1
    <3>3. Copied(s, S, g, m) = Copied(t, S, h, m)
      BY <3>2 DEF Copied
    <3> QED
      BY <1>1, <2>3, <3>3
  <2> QED
    BY <2>4, <2>5
<1> QED
  BY <1>2

\* The loop over an empty order copies nothing.
LEMMA FilterEmpty == ASSUME NEW S PROVE Filter(<<>>, S) = <<>>
<1>1. Len(<<>>) = 0
  OBVIOUS
<1>2. PICK g : CopyOf(<<>>, S, g, 0) /\ Filter(<<>>, S) = g[0]
  BY <1>1, FilterLoop
<1> QED
  BY <1>2 DEF CopyOf, Copied

\* The last entry of an order is copied last or is passed over.
LEMMA FilterAppend ==
    ASSUME NEW T, NEW s \in Seq(T), NEW e \in T, NEW S
    PROVE  Filter(Append(s, e), S) =
               IF e \in S THEN Append(Filter(s, S), e) ELSE Filter(s, S)
<1>1. PICK n \in Nat : n = Len(s)
  BY LenProperties
<1>2. PICK t : t = Append(s, e)
  OBVIOUS
<1>3. Len(t) = n + 1 /\ t[n + 1] = e /\ \A i \in 1..n : s[i] = t[i]
  BY <1>1, <1>2, AppendProperties
<1>4. PICK g : CopyOf(s, S, g, n) /\ Filter(s, S) = g[n]
  BY <1>1, FilterLoop
<1>5. PICK h : CopyOf(t, S, h, n + 1) /\ Filter(t, S) = h[n + 1]
  BY <1>3, FilterLoop
<1>6. g[n] = h[n]
  <2>1. PICK k \in Nat : k = n + 1
    OBVIOUS
  <2>2. n <= k /\ n \in 0..n
    BY <2>1
  <2>3. CopyOf(t, S, h, k)
    BY <1>5, <2>1
  <2>4. \A i \in 0..n : g[i] = h[i]
    BY <1>3, <1>4, <2>2, <2>3, LoopsAgree
  <2> QED
    BY <2>2, <2>4
<1>7. h[n + 1] = Copied(t, S, h, n + 1)
  BY <1>5 DEF CopyOf
<1>8. n + 1 # 0 /\ (n + 1) - 1 = n
  OBVIOUS
<1>9. Copied(t, S, h, n + 1) = IF e \in S THEN Append(h[n], e) ELSE h[n]
  BY <1>3, <1>8 DEF Copied
<1> QED
  BY <1>2, <1>4, <1>5, <1>6, <1>7, <1>9

\* Induction over sequences: of a set of sequences that is not empty some member is
\* the empty sequence, or what it appends to is not in the set.
LEMMA ShortestSequence ==
    ASSUME NEW T, NEW B, B \subseteq Seq(T), B # {}
    PROVE  \/ <<>> \in B
           \/ \E s \in Seq(T), e \in T : Append(s, e) \in B /\ s \notin B
<1> DEFINE Lens == {n \in Nat : \E s \in B : Len(s) = n}
<1>1. Lens # {}
  <2>1. PICK s \in B : TRUE
    OBVIOUS
  <2>2. Len(s) \in Nat
    BY <2>1, LenProperties
  <2> QED
    BY <2>1, <2>2
<1>2. PICK n \in Lens : \A m \in Lens : n <= m
  <2>1. Lens \subseteq Nat
    OBVIOUS
  <2> QED
    BY <1>1, <2>1, LeastNumber
<1>3. PICK u \in B : Len(u) = n
  BY <1>2
<1>4. CASE u = <<>>
  BY <1>3, <1>4
<1>5. CASE u # <<>>
  <2>1. PICK s \in Seq(T), e \in T : u = Append(s, e)
    BY <1>3, <1>5, SequenceEmptyOrAppend
  <2>2. Len(s) \in Nat /\ Len(u) = Len(s) + 1
    BY <2>1, AppendProperties, LenProperties
  <2>3. Len(s) \notin Lens
    BY <1>2, <1>3, <2>2
  <2>4. s \notin B
    BY <2>2, <2>3
  <2> QED
    BY <1>3, <2>1, <2>4
<1> QED
  BY <1>4, <1>5

\* What is copied is a sequence of the same elements, all of them in S.
LEMMA FilterType ==
    ASSUME NEW T, NEW s \in Seq(T), NEW S PROVE Filter(s, S) \in Seq(T \cap S)
<1> DEFINE B == {u \in Seq(T) : Filter(u, S) \notin Seq(T \cap S)}
<1>1. ASSUME B # {} PROVE FALSE
  <2>1. CASE <<>> \in B
    BY <2>1, FilterEmpty, EmptySeq
  <2>2. ASSUME NEW u \in Seq(T), NEW e \in T, Append(u, e) \in B, u \notin B PROVE FALSE
    <3>1. Filter(u, S) \in Seq(T \cap S)
      BY <2>2
    <3>2. CASE e \in S
      <4>1. Append(Filter(u, S), e) \in Seq(T \cap S)
        BY <3>1, <3>2, AppendProperties
      <4> QED
        BY <2>2, <3>2, <4>1, FilterAppend
    <3>3. CASE e \notin S
      BY <2>2, <3>1, <3>3, FilterAppend
    <3> QED
      BY <3>2, <3>3
  <2> QED
    BY <1>1, <2>1, <2>2, ShortestSequence
<1> QED
  BY <1>1

\* Passing over what the next loop passes over anyway makes no difference.
LEMMA FilterTwice ==
    ASSUME NEW T, NEW s \in Seq(T), NEW A, NEW O, O \subseteq A
    PROVE  Filter(Filter(s, A), O) = Filter(s, O)
<1> DEFINE B == {u \in Seq(T) : Filter(Filter(u, A), O) # Filter(u, O)}
<1>1. ASSUME B # {} PROVE FALSE
  <2>1. CASE <<>> \in B
    BY <2>1, FilterEmpty
  <2>2. ASSUME NEW u \in Seq(T), NEW e \in T, Append(u, e) \in B, u \notin B PROVE FALSE
    <3>1. PICK v : v = Filter(u, A)
      OBVIOUS
    <3>2. v \in Seq(T)
      BY <3>1, FilterType, SeqMonotonic, T \cap A \subseteq T
    <3>3. Filter(v, O) = Filter(u, O)
      BY <2>2, <3>1
    <3>4. Filter(Append(v, e), O) = Filter(Append(u, e), O)
      <4>1. Filter(Append(v, e), O) =
                IF e \in O THEN Append(Filter(v, O), e) ELSE Filter(v, O)
        BY <3>2, FilterAppend
      <4>2. Filter(Append(u, e), O) =
                IF e \in O THEN Append(Filter(u, O), e) ELSE Filter(u, O)
        BY FilterAppend
      <4> QED
        BY <3>2, <3>3, <4>1, <4>2
    <3>5. CASE e \in A
      <4>1. Filter(Append(u, e), A) = Append(v, e)
        BY <3>1, <3>5, FilterAppend
      <4> QED
        BY <2>2, <3>4, <4>1
    <3>6. CASE e \notin A
      <4>1. Filter(Append(u, e), A) = v
        BY <3>1, <3>6, FilterAppend
      <4>2. Filter(Append(u, e), O) = Filter(u, O)
        BY <3>6, FilterAppend
      <4> QED
        BY <2>2, <3>3, <4>1, <4>2
    <3> QED
      BY <3>5, <3>6
  <2> QED
    BY <1>1, <2>1, <2>2, ShortestSequence
<1> QED
  BY <1>1

\* An entry put in front that the loop passes over makes no difference.
LEMMA FilterBehind ==
    ASSUME NEW T, NEW s \in Seq(T), NEW r \in T, NEW O, r \notin O
    PROVE  Filter(<<r>> \o s, O) = Filter(s, O)
<1> DEFINE B == {u \in Seq(T) : Filter(<<r>> \o u, O) # Filter(u, O)}
<1>0. <<r>> \in Seq(T) /\ <<>> \in Seq(T) /\ <<r>> = Append(<<>>, r)
  OBVIOUS
<1>1. ASSUME B # {} PROVE FALSE
  <2>1. CASE <<>> \in B
    <3>1. <<r>> \o <<>> = <<r>>
      BY <1>0, ConcatEmptySeq
    <3>2. Filter(<<r>>, O) = Filter(<<>>, O)
      BY <1>0, FilterAppend
    <3> QED
      BY <2>1, <3>1, <3>2
  <2>2. ASSUME NEW u \in Seq(T), NEW e \in T, Append(u, e) \in B, u \notin B PROVE FALSE
    <3>1. PICK v : v = <<r>> \o u
      OBVIOUS
    <3>2. v \in Seq(T) /\ Filter(v, O) = Filter(u, O)
      BY <1>0, <2>2, <3>1, ConcatProperties
    <3>3. <<r>> \o Append(u, e) = Append(v, e)
      <4>1. <<e>> \in Seq(T)
        OBVIOUS
      <4>2. Append(u, e) = u \o <<e>> /\ Append(v, e) = v \o <<e>>
        BY <3>2, AppendIsConcat
      <4> QED
        BY <1>0, <3>1, <4>1, <4>2, ConcatAssociative
    <3>4. Filter(Append(v, e), O) = Filter(Append(u, e), O)
      <4>1. Filter(Append(v, e), O) =
                IF e \in O THEN Append(Filter(v, O), e) ELSE Filter(v, O)
        BY <3>2, FilterAppend
      <4>2. Filter(Append(u, e), O) =
                IF e \in O THEN Append(Filter(u, O), e) ELSE Filter(u, O)
        BY FilterAppend
      <4> QED
        BY <3>2, <4>1, <4>2
    <3> QED
      BY <2>2, <3>3, <3>4
  <2> QED
    BY <1>1, <2>1, <2>2, ShortestSequence
<1> QED
  BY <1>1

-----------------------------------------------------------------------------
(* The inductive invariant.                                                *)

\* The variables of the firmware can be read: efi_get_next_variable_name and
\* efi_get_variable do not fail.
Readable == NvFaults \cap {"read", "get"} = {}

\* The step of the process is one of a call.
StepsOK == pc \in {"off", "ready", "reread", "push"}

\* Between two calls, and when a record is put into the order, the list and the
\* count are those of the variables.
ListInv == pc \in {"ready", "push"} => recs = Present /\ cnt = Cardinality(Present)

\* The record that is being put into the order is ours.
RecordInv == pc \in {"reread", "push"} => rec \in Numbers /\ nvram[rec] = "ours"

\* Whatever fails: types, which need the record, since it is put into the order.
Base == TypeOK /\ StepsOK /\ RecordInv

\* Without the list NoDuplicate is not inductive: the number that is written to, and
\* whether a record of ours is found, are taken from it.
Inv == Base /\ ListInv /\ NoDuplicate

\* A set of numbers is finite, and has at most one more than the largest number.
LEMMA CountsNumbers ==
    ASSUME NEW S, S \subseteq Numbers
    PROVE  S \subseteq Nat /\ IsFiniteSet(S) /\ Cardinality(S) \in 0..(MaxNo + 1)
<1>1. MaxNo \in Nat
  BY BootVarAssumption
<1>2. IsFiniteSet(Numbers) /\ Cardinality(Numbers) = MaxNo + 1
  BY <1>1, FS_Interval DEF Numbers
<1>3. IsFiniteSet(S) /\ Cardinality(S) <= Cardinality(Numbers)
  BY <1>2, FS_Subset
<1>4. Cardinality(S) \in Nat
  BY <1>3, FS_CardinalityType
<1> QED
  BY <1>1, <1>2, <1>3, <1>4 DEF Numbers

\* The records in NVRAM are numbers, and there are none only if the count is 0.
LEMMA CountsRecords ==
    /\ Present \subseteq Numbers /\ Cardinality(Present) \in 0..(MaxNo + 1)
    /\ Cardinality(Present) = 0 <=> Present = {}
<1>1. Present \subseteq Numbers
  BY DEF Present
<1>2. IsFiniteSet(Present) /\ Cardinality(Present) \in 0..(MaxNo + 1)
  BY <1>1, CountsNumbers
<1> QED
  BY <1>1, <1>2, FS_EmptySet

\* With the list and the count of the variables, the number a new record is given
\* is not in use.
LEMMA SlotFree ==
    ASSUME TypeOK, recs = Present, cnt = Cardinality(Present), NEW slot \in FreeNos \cap Numbers
    PROVE  nvram[slot] = "none"
<1>1. Present \subseteq Nat /\ IsFiniteSet(Present) /\ Cardinality(Present) \in 0..(MaxNo + 1)
  BY CountsRecords, CountsNumbers
<1>2. slot = FreeNo(Present, Cardinality(Present))
  <2>1. ~(Cardinality(recs) > cnt)
    BY <1>1
  <2>2. FreeNos = {FreeNo(recs, cnt)}
    BY <2>1 DEF FreeNos
  <2> QED
    BY <2>2
<1>3. Present # {}
  <2> SUFFICES ASSUME Present = {} PROVE FALSE
    OBVIOUS
  <2>1. slot = -1
    BY <1>2 DEF FreeNo
  <2> QED
    BY <2>1 DEF Numbers
<1>4. slot \notin Present
  BY <1>1, <1>2, <1>3, FirstFree
<1> QED
  BY <1>4 DEF Present

\* Types are kept by every step.
LEMMA TypeStep == Base /\ [Next]_bootVars => TypeOK'
<1> SUFFICES ASSUME TypeOK, RecordInv, [Next]_bootVars PROVE TypeOK'
  BY DEF Base
<1> USE DEF NoNumber
<1>1. MaxNo \in Nat /\ MaxChanges \in Nat
  BY BootVarAssumption
<1>2. ASSUME Changed PROVE changes' \in 0..MaxChanges
  BY <1>1, <1>2 DEF Changed, TypeOK
<1>3. ASSUME NEW n \in Numbers PROVE <<n>> \o order \in Seq(Numbers)
  <2>1. <<n>> \in Seq(Numbers)
    OBVIOUS
  <2> QED
    BY <2>1, ConcatProperties DEF TypeOK
<1>4. ASSUME NEW n PROVE Filter(order, Numbers \ {n}) \in Seq(Numbers)
  <2>1. Numbers \cap (Numbers \ {n}) \subseteq Numbers
    OBVIOUS
  <2>2. Filter(order, Numbers \ {n}) \in Seq(Numbers \cap (Numbers \ {n}))
    BY FilterType DEF TypeOK
  <2> QED
    BY <2>1, <2>2, SeqMonotonic
<1>5. ASSUME NEW ok \in BOOLEAN, ReadBootRecs(ok)
      PROVE  recs' \subseteq Numbers /\ cnt' \in 0..(MaxNo + 1)
  BY <1>5, CountsRecords DEF ReadBootRecs, TypeOK
<1>6. ASSUME NEW p, BootvarInit(p) PROVE TypeOK'
  <2>1. recs' \subseteq Numbers /\ cnt' \in 0..(MaxNo + 1)
    BY <1>5, <1>6 DEF BootvarInit
  <2> QED
    BY <1>6, <2>1 DEF BootvarInit, TypeOK, nv
<1>7. ASSUME NEW p, HasBootRec(p) PROVE TypeOK'
  <2>1. has' \in BOOLEAN
    BY <1>7, Zenon DEF HasBootRec
  <2> QED
    BY <1>7, <2>1 DEF HasBootRec, TypeOK, nv, lib
<1>8. ASSUME NEW p, AddBootRec(p) PROVE TypeOK'
  <2>1. rec' \in Numbers \cup {NoNumber} /\ status' \in {"none", "ok", "error"}
    BY <1>8 DEF AddBootRec, CreateFails, Matching, TypeOK
  <2>2. nvram' \in [Numbers -> {"none", "other", "ours"}]
    BY <1>8 DEF AddBootRec, TypeOK
  <2> QED
    BY <1>8, <2>1, <2>2 DEF AddBootRec, TypeOK, lib
<1>9. ASSUME NEW p, RereadBootRecs(p) PROVE TypeOK'
  <2>1. recs' \subseteq Numbers /\ cnt' \in 0..(MaxNo + 1)
    BY <1>5, <1>9 DEF RereadBootRecs
  <2>2. rec' \in Numbers \cup {NoNumber} /\ status' \in {"none", "ok", "error"}
    BY <1>9 DEF RereadBootRecs, CreateFails, TypeOK
  <2> QED
    BY <1>9, <2>1, <2>2 DEF RereadBootRecs, TypeOK, nv
<1>10. ASSUME NEW p, rec \in Numbers, PushToBootOrder(p) PROVE TypeOK'
  <2>1. order' \in Seq(Numbers)
    <3>1. CASE order' = <<rec>> \o Filter(order, Numbers \ {rec})
      <4>1. <<rec>> \in Seq(Numbers)
        BY <1>10
      <4> QED
        BY <1>4, <3>1, <4>1, ConcatProperties
    <3>2. CASE UNCHANGED order
      BY <3>2 DEF TypeOK
    <3> QED
      BY <1>10, <3>1, <3>2 DEF PushToBootOrder
  <2>2. rec' \in Numbers \cup {NoNumber} /\ status' \in {"none", "ok", "error"}
    BY <1>10 DEF PushToBootOrder, CreateFails, TypeOK
  <2> QED
    BY <1>10, <2>1, <2>2 DEF PushToBootOrder, TypeOK, lib
<1>11. ASSUME ProcessGone, UNCHANGED nv, changes' \in 0..MaxChanges PROVE TypeOK'
  <2>1. recs' \subseteq Numbers /\ cnt' \in 0..(MaxNo + 1)
    BY <1>1, <1>11 DEF ProcessGone
  <2> QED
    BY <1>11, <2>1 DEF ProcessGone, TypeOK, nv
<1>12. ASSUME NEW n \in Numbers, AddOther(n) PROVE TypeOK'
  BY <1>2, <1>3, <1>12 DEF AddOther, TypeOK, lib
<1>13. ASSUME NEW n \in Numbers, DropRecord(n) PROVE TypeOK'
  <2>1. order' \in Seq(Numbers)
    BY <1>4, <1>13 DEF DropRecord, TypeOK
  <2> QED
    BY <1>2, <1>13, <2>1 DEF DropRecord, TypeOK, lib
<1>14. CASE Start
  BY <1>6, <1>14 DEF Start
<1>15. CASE Call
  BY <1>6, <1>7, <1>8, <1>15 DEF Call
<1>16. CASE Continue
  BY <1>9, <1>10, <1>16 DEF Continue, RecordInv
<1>17. CASE Stop
  BY <1>11, <1>17 DEF Stop, TypeOK
<1>18. CASE World
  BY <1>2, <1>11, <1>12, <1>13, <1>18 DEF World, Interrupt
<1>19. CASE UNCHANGED bootVars
  BY <1>19 DEF bootVars, TypeOK
<1> QED
  BY <1>14, <1>15, <1>16, <1>17, <1>18, <1>19 DEF Next

\* The record that is put into the order stays ours, in every step.
LEMMA RecordStep == Base /\ [Next]_bootVars => StepsOK' /\ RecordInv'
<1> SUFFICES ASSUME Base, [Next]_bootVars PROVE StepsOK' /\ RecordInv'
  OBVIOUS
<1> USE DEF Base, StepsOK, RecordInv
<1>1. CASE Start
  BY <1>1 DEF Start, BootvarInit
<1>2. CASE Call
  <2>1. pc = "ready"
    BY <1>2 DEF Call
  <2>2. CASE BootvarInit("ready")
    BY <2>2 DEF BootvarInit
  <2>3. CASE HasBootRec("ready")
    BY <2>3 DEF HasBootRec
  <2>4. CASE AddBootRec("ready")
    <3>1. CASE pc' = "ready"
      BY <3>1
    <3>2. ASSUME NEW n \in Matching, pc' = "push", rec' = n, UNCHANGED nvram
          PROVE  StepsOK' /\ RecordInv'
      <4>1. n \in Numbers /\ nvram[n] = "ours"
        BY <3>2 DEF Matching, TypeOK
      <4> QED
        BY <3>2, <4>1
    <3>3. ASSUME NEW slot \in Numbers, pc' = "reread", rec' = slot,
                 nvram' = [nvram EXCEPT ![slot] = "ours"]
          PROVE  StepsOK' /\ RecordInv'
      BY <3>3 DEF TypeOK
    <3> QED
      BY <2>4, <3>1, <3>2, <3>3, Zenon DEF AddBootRec, CreateFails
  <2> QED
    BY <1>2, <2>2, <2>3, <2>4 DEF Call
<1>3. CASE Continue
  <2>1. CASE pc = "reread" /\ RereadBootRecs("ready")
    BY <2>1 DEF RereadBootRecs, CreateFails, nv
  <2>2. CASE pc = "push" /\ PushToBootOrder("ready")
    BY <2>2 DEF PushToBootOrder, CreateFails
  <2> QED
    BY <1>3, <2>1, <2>2 DEF Continue
<1>4. CASE Stop
  BY <1>4 DEF Stop, ProcessGone
<1>5. CASE World
  BY <1>5 DEF World, Interrupt, ProcessGone, AddOther, DropRecord
<1>6. CASE UNCHANGED bootVars
  BY <1>6 DEF bootVars
<1> QED
  BY <1>1, <1>2, <1>3, <1>4, <1>5, <1>6 DEF Next

\* In a process no step but bootvar_add_boot_rec's changes the variables, and that one
\* changes a free number to ours, when no record is ours.
LEMMA AddStep ==
    ASSUME Readable, Inv, [Next]_bootVars, pc # "off"
    PROVE  \/ UNCHANGED nvram
           \/ /\ pc' = "reread"
              /\ \A n \in Numbers : nvram[n] # "ours"
              /\ \E slot \in Numbers :
                    nvram[slot] = "none" /\ nvram' = [nvram EXCEPT ![slot] = "ours"]
<1>1. CASE Start \/ Continue \/ Stop \/ World \/ UNCHANGED bootVars
  BY <1>1 DEF Start, Continue, Stop, World, RereadBootRecs, PushToBootOrder, Interrupt,
     AddOther, DropRecord, nv, bootVars
<1>2. CASE Call
  <2>1. recs = Present /\ cnt = Cardinality(Present)
    BY <1>2 DEF Call, Inv, ListInv
  <2>2. CASE BootvarInit("ready") \/ HasBootRec("ready")
    BY <2>2 DEF BootvarInit, HasBootRec, nv
  <2>3. CASE AddBootRec("ready")
    <3>1. CASE UNCHANGED nvram
      BY <3>1
    <3>2. ASSUME FindBootRec(NoNumber), NEW slot \in FreeNos \cap Numbers, pc' = "reread",
                 nvram' = [nvram EXCEPT ![slot] = "ours"]
          PROVE  /\ \A n \in Numbers : nvram[n] # "ours"
                 /\ nvram[slot] = "none"
      <4>1. nvram[slot] = "none"
        BY <2>1, <3>2, SlotFree DEF Inv, Base
      <4>2. NoNumber \notin Matching
        BY DEF Matching, Inv, Base, TypeOK, Numbers, NoNumber
      <4>3. Matching = {}
        BY <3>2, <4>2 DEF FindBootRec, Readable
      <4>4. {n \in Present : nvram[n] = "ours"} = {}
        BY <2>1, <4>3, CountsRecords DEF Matching
      <4> QED
        BY <4>1, <4>4 DEF Present
    <3> QED
      BY <2>3, <3>1, <3>2, Zenon DEF AddBootRec
  <2> QED
    BY <1>2, <2>2, <2>3 DEF Call
<1> QED
  BY <1>1, <1>2 DEF Next

\* Every step keeps the invariant, if the variables can be read.
LEMMA InvStep == ASSUME Readable PROVE Inv /\ [Next]_bootVars => Inv'
<1> SUFFICES ASSUME Inv, [Next]_bootVars PROVE Inv'
  OBVIOUS
<1>1. Base'
  BY TypeStep, RecordStep DEF Inv, Base
<1>2. ListInv'
  <2> USE DEF ListInv
  <2>1. ASSUME NEW ok \in BOOLEAN, ReadBootRecs(ok), UNCHANGED nvram PROVE ListInv'
    BY <2>1 DEF ReadBootRecs, Readable, Present
  <2>2. CASE Start
    BY <2>1, <2>2 DEF Start, BootvarInit, nv
  <2>3. CASE Call
    <3>1. pc = "ready" /\ ListInv
      BY <2>3 DEF Call, Inv
    <3>2. CASE BootvarInit("ready")
      BY <2>1, <3>2 DEF BootvarInit, nv
    <3>3. CASE HasBootRec("ready")
      BY <3>1, <3>3 DEF HasBootRec, nv, lib, Present
    <3>4. CASE AddBootRec("ready")
      <4>1. UNCHANGED nvram \/ pc' = "reread"
        BY <3>1, AddStep
      <4> QED
        BY <3>1, <3>4, <4>1 DEF AddBootRec, lib, Present
    <3> QED
      BY <2>3, <3>2, <3>3, <3>4 DEF Call
  <2>4. CASE Continue
    <3>1. CASE pc = "reread" /\ RereadBootRecs("ready")
      BY <2>1, <3>1 DEF RereadBootRecs, nv
    <3>2. CASE pc = "push" /\ PushToBootOrder("ready")
      BY <3>2 DEF PushToBootOrder, lib, Present, Inv
    <3> QED
      BY <2>4, <3>1, <3>2 DEF Continue
  <2>5. CASE Stop \/ World
    BY <2>5 DEF Stop, World, Interrupt, ProcessGone, AddOther, DropRecord
  <2>6. CASE UNCHANGED bootVars
    BY <2>6 DEF bootVars, Present, Inv
  <2> QED
    BY <2>2, <2>3, <2>4, <2>5, <2>6 DEF Next
<1>3. NoDuplicate'
  <2>1. CASE UNCHANGED nvram
    BY <2>1 DEF NoDuplicate, Inv
  <2>2. CASE pc # "off"
    <3>1. ASSUME \A n \in Numbers : nvram[n] # "ours", NEW slot \in Numbers,
                 nvram' = [nvram EXCEPT ![slot] = "ours"]
          PROVE  NoDuplicate'
      BY <3>1 DEF NoDuplicate, Inv, Base, TypeOK
    <3> QED
      BY <2>1, <2>2, <3>1, AddStep
  <2>3. CASE pc = "off"
    <3>1. ASSUME NEW n \in Numbers, AddOther(n) \/ DropRecord(n) PROVE NoDuplicate'
      BY <3>1 DEF AddOther, DropRecord, NoDuplicate, Inv, Base, TypeOK
    <3>2. UNCHANGED nvram \/ \E n \in Numbers : AddOther(n) \/ DropRecord(n)
      BY <2>3 DEF Next, Start, Call, Continue, Stop, World, Interrupt, BootvarInit, nv, bootVars
    <3> QED
      BY <2>1, <3>1, <3>2
  <2> QED
    BY <2>2, <2>3
<1> QED
  BY <1>1, <1>2, <1>3 DEF Inv

\* An installed system satisfies both invariants.
LEMMA InvInit == Init => Inv
<1> SUFFICES ASSUME Init PROVE Inv
  OBVIOUS
<1> USE DEF Init, BootInit
<1>1. order \in Seq(Numbers)
  <2>1. CASE order = <<>>
    BY <2>1
  <2>2. CASE order = Ascending(Present)
    <3>1. PICK c : c = Cardinality(Present)
      OBVIOUS
    <3>2. c \in Nat /\ Present \subseteq Numbers
      BY <3>1, CountsRecords, BootVarAssumption
    <3>3. Present \subseteq Nat /\ IsFiniteSet(Present)
      BY <3>2, CountsNumbers
    <3>4. order \in [1..c -> Present]
      BY <2>2, <3>1, <3>3, AscendingSorts DEF Sorted
    <3> QED
      BY <3>2, <3>4
  <2> QED
    BY <2>1, <2>2
<1>2. 0 \in 0..(MaxNo + 1) /\ 0 \in 0..MaxChanges
  BY BootVarAssumption
<1>3. TypeOK
  BY <1>1, <1>2 DEF TypeOK
<1>4. NoDuplicate
  BY DEF NoDuplicate
<1> QED
  BY <1>3, <1>4 DEF Inv, Base, StepsOK, RecordInv, ListInv

-----------------------------------------------------------------------------
(* What holds of every behaviour.                                          *)

\* Every variable keeps its type, whichever calls of the efivar library fail: the
\* count stays within the numbers there are, and BootOrder holds numbers only.
THEOREM TypeCorrect == Spec => []TypeOK
<1>1. Init => Base
  BY InvInit DEF Inv
<1>2. Base /\ [Next]_bootVars => Base'
  BY TypeStep, RecordStep DEF Base
<1>3. Base => TypeOK
  BY DEF Base
<1> QED
  BY <1>1, <1>2, <1>3, PTL DEF Spec

\* bootvar_find_free_no, with its sorting and its loop, finds the least number that
\* is not in use, for every list of records (bootvar.c:213-250).
THEOREM FreeNumberFound == Spec => []FindsFirstFree
<1>1. TypeOK => FindsFirstFree
  <2> SUFFICES ASSUME TypeOK, cnt = Cardinality(recs), recs # {}
               PROVE  /\ FreeNo(recs, cnt) \in 0..cnt \ recs
                      /\ \A n \in 0..(FreeNo(recs, cnt) - 1) : n \in recs
    BY DEF FindsFirstFree
  <2>1. recs \subseteq Nat /\ IsFiniteSet(recs)
    BY CountsNumbers DEF TypeOK
  <2> QED
    BY <2>1, FirstFree
<1> QED
  BY <1>1, TypeCorrect, PTL

\* If the variables can be read, every behaviour keeps the inductive invariant.
THEOREM RecordsInvariant == ASSUME Readable PROVE Spec => []Inv
<1>1. Inv /\ [Next]_bootVars => Inv'
  BY InvStep
<1> QED
  BY <1>1, InvInit, PTL DEF Spec

\* If the variables can be read there is at most one record of ours, however often
\* processes look up, create and are interrupted (bootvar.c:351).
THEOREM AtMostOneRecord == ASSUME Readable PROVE Spec => []NoDuplicate
<1>1. Inv => NoDuplicate
  BY DEF Inv
<1> QED
  BY <1>1, RecordsInvariant, PTL

\* If the variables can be read no step writes over the record of another system.
THEOREM OthersNotWritten == ASSUME Readable PROVE Spec => NeverOverwrites
<1> DEFINE Kept == \A n \in Numbers : nvram[n] = "other" => nvram'[n] # "ours"
<1>1. Inv /\ [Next]_bootVars => [Kept]_bootVars
  <2> SUFFICES ASSUME Inv, [Next]_bootVars, NEW n \in Numbers, nvram[n] = "other"
               PROVE  nvram'[n] # "ours"
    OBVIOUS
  <2>1. CASE UNCHANGED nvram
    BY <2>1
  <2>2. CASE pc # "off"
    <3>1. ASSUME NEW slot \in Numbers, nvram[slot] = "none",
                 nvram' = [nvram EXCEPT ![slot] = "ours"]
          PROVE  nvram'[n] # "ours"
      BY <3>1 DEF Inv, Base, TypeOK
    <3> QED
      BY <2>1, <2>2, <3>1, AddStep
  <2>3. CASE pc = "off"
    <3>1. ASSUME NEW m \in Numbers, AddOther(m) \/ DropRecord(m) PROVE nvram'[n] # "ours"
      BY <3>1 DEF AddOther, DropRecord, Inv, Base, TypeOK
    <3>2. UNCHANGED nvram \/ \E m \in Numbers : AddOther(m) \/ DropRecord(m)
      BY <2>3 DEF Next, Start, Call, Continue, Stop, World, Interrupt, BootvarInit, nv, bootVars
    <3> QED
      BY <2>1, <3>1, <3>2
  <2> QED
    BY <2>2, <2>3
<1>2. Spec => [][Kept]_bootVars
  BY <1>1, RecordsInvariant, PTL DEF Spec
<1> QED
  BY <1>2 DEF NeverOverwrites

\* If the variables can be read no step of a process changes the order in which the
\* firmware tries the records of other systems (bootvar.c:137-206).
THEOREM OrderOfOthersKept == ASSUME Readable PROVE Spec => OthersKeepOrder
<1> DEFINE Kept == pc # "off" => Filter(order', Others') = Filter(order, Others)
<1>1. Inv /\ [Next]_bootVars => [Kept]_bootVars
  <2> SUFFICES ASSUME Inv, [Next]_bootVars, pc # "off"
               PROVE  Filter(order', Others') = Filter(order, Others)
    OBVIOUS
  <2>1. Others' = Others
    <3>1. CASE UNCHANGED nvram
      BY <3>1 DEF Others
    <3>2. ASSUME NEW slot \in Numbers, nvram[slot] = "none",
                 nvram' = [nvram EXCEPT ![slot] = "ours"]
          PROVE  Others' = Others
      <4>1. \A n \in Numbers : nvram'[n] = "other" <=> nvram[n] = "other"
        BY <3>2 DEF Inv, Base, TypeOK
      <4> QED
        BY <4>1 DEF Others
    <3> QED
      BY <3>1, <3>2, AddStep
  <2>2. CASE UNCHANGED order
    BY <2>1, <2>2
  <2>3. CASE pc = "push" /\ order' = <<rec>> \o Filter(order, Numbers \ {rec})
    <3>1. rec \in Numbers /\ rec \notin Others /\ Others \subseteq Numbers \ {rec}
      BY <2>3 DEF Inv, Base, RecordInv, Others
    <3>2. PICK rest : rest = Filter(order, Numbers \ {rec})
      OBVIOUS
    <3>3. rest \in Seq(Numbers) /\ Filter(rest, Others) = Filter(order, Others)
      <4>1. order \in Seq(Numbers)
        BY DEF Inv, Base, TypeOK
      <4>2. rest \in Seq(Numbers \cap (Numbers \ {rec}))
        BY <3>2, <4>1, FilterType
      <4>3. rest \in Seq(Numbers)
        BY <4>2, SeqMonotonic
      <4> QED
        BY <3>1, <3>2, <4>1, <4>3, FilterTwice
    <3>4. Filter(<<rec>> \o rest, Others) = Filter(rest, Others)
      BY <3>1, <3>3, FilterBehind
    <3> QED
      BY <2>1, <2>3, <3>2, <3>3, <3>4
  <2>4. UNCHANGED order \/ (pc = "push" /\ order' = <<rec>> \o Filter(order, Numbers \ {rec}))
    BY DEF Next, Start, Call, Continue, Stop, World, BootvarInit, HasBootRec, AddBootRec,
       RereadBootRecs, PushToBootOrder, Interrupt, AddOther, DropRecord, nv, bootVars
  <2> QED
    BY <2>2, <2>3, <2>4
<1>2. Spec => [][Kept]_bootVars
  BY <1>1, RecordsInvariant, PTL DEF Spec
<1> QED
  BY <1>2 DEF OthersKeepOrder
=============================================================================
