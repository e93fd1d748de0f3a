---------------------------- MODULE LocationsProofs ----------------------------
(***************************************************************************)
(* Theorems of Locations: its five invariants, for every bytecode, map,    *)
(* assembly, text, syntax tree, answer and report its assumptions allow.   *)
(*                                                                         *)
(* The model's recursive functions are scans of a sequence or walks of a   *)
(* tree. Neither the existence of such a function nor induction over it    *)
(* is had for nothing: ScanExists and TreeExists give the first, UpTo and  *)
(* TreeInduction the second, as sets and functions of this module.         *)
(***************************************************************************)
EXTENDS Locations, SequenceTheorems, FiniteSetTheorems, WellFoundedInduction, TLAPS

-----------------------------------------------------------------------------
(* Induction and recursion over the indices of a scan, for sets and functions. *)

\* Of several numbers there is a least one.
LEMMA LeastNumber ==
    ASSUME NEW S \in SUBSET Nat, S # {}
    PROVE  \E n \in S : \A k \in S : n <= k
  <1>1. PICK x \in S : \A y \in S : ~(<<y, x>> \in OpToRel(<, Nat))
    BY NatLessThanWellFounded, WFMin
  <1>2. ASSUME NEW y \in S PROVE x <= y
    <2>1. x \in Nat /\ y \in Nat
      OBVIOUS
    <2>2. <<y, x>> \in Nat \X Nat /\ <<y, x>>[1] = y /\ <<y, x>>[2] = x
      BY <2>1
    <2>3. <<y, x>> \notin OpToRel(<, Nat)
      BY <1>1
    <2>4. ~(y < x)
      BY <2>2, <2>3 DEF OpToRel
    <2>5. QED
      BY <2>1, <2>4
  <1>3. QED
    BY <1>2

\* A set that has 0 and, with each index, the next one has them all.
LEMMA UpTo ==
    ASSUME NEW n \in Nat, NEW P, 0 \in P,
           \A i \in 0..n : i + 1 \in 0..n /\ i \in P => i + 1 \in P
    PROVE  \A i \in 0..n : i \in P
  <1> DEFINE others == {i \in 0..n : i \notin P}
  <1>1. SUFFICES ASSUME others # {} PROVE FALSE
    OBVIOUS
  <1>2. others \in SUBSET Nat
    OBVIOUS
  <1>3. PICK m \in others : \A k \in others : m <= k
    <2> HIDE DEF others
    <2>1. QED
      BY <1>1, <1>2, LeastNumber
  <1>4. m \in 0..n /\ m # 0
    OBVIOUS
  <1>5. m - 1 \in 0..n /\ ~(m <= m - 1) /\ (m - 1) + 1 = m
    BY ONLY <1>4, n \in Nat
  <1>6. m - 1 \in P
    BY <1>3, <1>5
  <1>7. m \in P
    BY ONLY <1>4, <1>5, <1>6, \A i \in 0..n : i + 1 \in 0..n /\ i \in P => i + 1 \in P
  <1>8. QED
    BY <1>7

\* A scan of n elements: each value comes from the one before it.
StepsIn(F, n, S) == \A i \in 1..n : \A s \in S : F[<<i, s>>] \in S
IsScan(f, F, n, s0, S) ==
    /\ f \in [0..n -> S] /\ f[0] = s0
    /\ \A i \in 1..n : f[i] = F[<<i, f[i - 1]>>]

\* A scan has a value at every index.
LEMMA ScanExists ==
    ASSUME NEW n \in Nat, NEW S, NEW s0 \in S, NEW F, StepsIn(F, n, S)
    PROVE  \E f : IsScan(f, F, n, s0, S)
  <1> USE DEF IsScan
  <1> DEFINE P == {m \in Nat : \E f : IsScan(f, F, m, s0, S)}
  <1>0. \A i \in 1..n : \A s \in S : F[<<i, s>>] \in S
    BY DEF StepsIn
  <1>1. 0 \in P
    <2>1. IsScan([i \in 0..0 |-> s0], F, 0, s0, S)
      OBVIOUS
    <2>2. QED
      BY <2>1
  <1>2. ASSUME NEW m \in 0..n, m + 1 \in 0..n, m \in P PROVE m + 1 \in P
    <2>1. PICK f : IsScan(f, F, m, s0, S)
      BY <1>2
    <2> DEFINE g == [i \in 0..(m + 1) |-> IF i = m + 1 THEN F[<<m + 1, f[m]>>] ELSE f[i]]
    <2>2. m \in Nat /\ m + 1 \in 1..n /\ m \in 0..m /\ m + 1 \notin 0..m
      BY ONLY <1>2, n \in Nat
    <2>3. f[m] \in S /\ F[<<m + 1, f[m]>>] \in S
      BY <1>0, <2>1, <2>2
    <2>4. \A i \in 0..m : g[i] = f[i] /\ i \in 0..(m + 1) /\ f[i] \in S
      BY <2>1, <2>2
    <2>5. g[m + 1] = F[<<m + 1, f[m]>>]
      BY <2>2
    <2>6. g \in [0..(m + 1) -> S]
      <3>1. \A i \in 0..(m + 1) : i = m + 1 \/ i \in 0..m
        BY ONLY <2>2
      <3>2. \A i \in 0..(m + 1) : (IF i = m + 1 THEN F[<<m + 1, f[m]>>] ELSE f[i]) \in S
        BY <3>1, <2>3, <2>4
      <3>3. QED
        BY ONLY <3>2
    <2>7. \A i \in 1..(m + 1) : g[i] = F[<<i, g[i - 1]>>]
      <3>1. SUFFICES ASSUME NEW i \in 1..(m + 1) PROVE g[i] = F[<<i, g[i - 1]>>]
        OBVIOUS
      <3>2. i - 1 \in 0..m /\ (i = m + 1 => i - 1 = m) /\ (i # m + 1 => i \in 1..m /\ i \in 0..m)
        BY ONLY <2>2, i \in 1..(m + 1)
      <3> HIDE DEF g
      <3>3. g[i - 1] = f[i - 1]
        BY ONLY <2>4, <3>2
      <3>4. CASE i = m + 1
        BY ONLY <2>5, <3>2, <3>3, <3>4
      <3>5. CASE i # m + 1
        <4>1. f[i] = F[<<i, f[i - 1]>>]
          BY <2>1, <3>2, <3>5
        <4>2. QED
          BY ONLY <2>4, <3>2, <3>3, <3>5, <4>1
      <3>6. QED
        BY ONLY <3>4, <3>5
    <2>8. g[0] = s0
      BY <2>1, <2>2, <2>4
    <2>9. IsScan(g, F, m + 1, s0, S)
      BY <2>6, <2>7, <2>8
    <2>10. \E h : IsScan(h, F, m + 1, s0, S)
      BY <2>9
    <2> HIDE DEF IsScan
    <2>11. QED
      BY <2>2, <2>10
  <1>3. n \in P
    <2> HIDE DEF P
    <2>1. \A i \in 0..n : i \in P
      BY <1>1, <1>2, UpTo
    <2>2. QED
      BY <2>1
  <1> HIDE DEF IsScan
  <1>4. QED
    BY <1>3

\* A scan stays in a set that its steps do not leave.
LEMMA ScanStays ==
    ASSUME NEW n \in Nat, NEW S, NEW h, h[0] \in S,
           \A i \in 1..n : h[i - 1] \in S => h[i] \in S
    PROVE  \A i \in 0..n : h[i] \in S
  <1> DEFINE P == {i \in 0..n : h[i] \in S}
  <1>1. 0 \in P
    OBVIOUS
  <1>2. ASSUME NEW i \in 0..n, i + 1 \in 0..n, i \in P PROVE i + 1 \in P
    <2>1. i + 1 \in 1..n /\ (i + 1) - 1 = i /\ h[i] \in S
      BY <1>2
    <2>2. QED
      BY <1>2, <2>1
  <1> HIDE DEF P
  <1>3. \A i \in 0..n : i \in P
    BY <1>1, <1>2, UpTo
  <1>4. QED
    BY <1>3 DEF P

\* Min and Max of numbers.
LEMMA MinIs ==
    ASSUME NEW S \in SUBSET Nat, S # {}
    PROVE  Min(S) \in S /\ \A k \in S : Min(S) <= k
  <1>1. \E n \in S : \A k \in S : n <= k
    BY LeastNumber
  <1>2. QED
    BY <1>1 DEF Min

\* Of several numbers up to one there is a greatest, and Max is it.
LEMMA MaxIs ==
    ASSUME NEW n \in Nat, NEW S \in SUBSET (1..n), S # {}
    PROVE  Max(S) \in S /\ \A k \in S : k <= Max(S)
  <1> DEFINE T == {n - k : k \in S}
  <1>1. T \in SUBSET Nat /\ T # {}
    <2>1. \A k \in S : n - k \in Nat
      OBVIOUS
    <2>2. QED
      BY ONLY <2>1, S # {}
  <1>2. PICK x \in T : \A y \in T : x <= y
    <2> HIDE DEF T
    <2>1. QED
      BY ONLY <1>1, LeastNumber
  <1>3. PICK k \in S : x = n - k
    BY ONLY <1>2
  <1>4. ASSUME NEW j \in S PROVE j <= k
    <2>1. n - k <= n - j
      BY ONLY <1>2, <1>3, j \in S
    <2>2. j \in Nat /\ k \in Nat
      BY ONLY j \in S, k \in S, S \in SUBSET (1..n)
    <2>3. QED
      BY ONLY <2>1, <2>2, n \in Nat
  <1>5. \E m \in S : \A j \in S : m >= j
    BY <1>4
  <1>6. Max(S) \in S /\ \A j \in S : Max(S) >= j
    BY <1>5 DEF Max
  <1>7. \A a, b \in 1..n : a >= b => b <= a
    BY n \in Nat
  <1>8. QED
    BY <1>6, <1>7

-----------------------------------------------------------------------------
(* Sequences put together, and filtered. *)

\* What is put together of the first i sequences.
FlatScan(f, s, n, A) ==
    /\ f \in [0..n -> Seq(A)] /\ f[0] = << >>
    /\ \A i \in 1..n : f[i] = f[i - 1] \o s[i]

\* FlattenSeq is the end of that scan.
LEMMA Flattened ==
    ASSUME NEW A, NEW n \in Nat, NEW s \in [1..n -> Seq(A)]
    PROVE  \E f : FlatScan(f, s, n, A) /\ FlattenSeq(s) = f[n]
  <1> DEFINE F == [p \in (1..n) \X Seq(A) |-> p[2] \o s[p[1]]]
             Eq(f) == f = [i \in 1..n |-> IF i = 1 THEN s[i] ELSE f[i - 1] \o s[i]]
  <1>1. << >> \in Seq(A)
    OBVIOUS
  <1>2. \A i \in 1..n : \A t \in Seq(A) : F[<<i, t>>] = t \o s[i]
    OBVIOUS
  <1>3. StepsIn(F, n, Seq(A))
    <2>1. \A i \in 1..n : \A t \in Seq(A) : t \o s[i] \in Seq(A)
      BY ConcatProperties
    <2>2. QED
      BY <1>2, <2>1 DEF StepsIn
  <1> HIDE DEF F
  <1>4. \E g : IsScan(g, F, n, << >>, Seq(A))
    BY <1>1, <1>3, ScanExists
  <1>5. PICK g : g \in [0..n -> Seq(A)] /\ g[0] = << >> /\ \A i \in 1..n : g[i] = F[<<i, g[i - 1]>>]
    BY <1>4 DEF IsScan
  <1>6. \A i \in 1..n : g[i] = g[i - 1] \o s[i]
    <2>1. \A i \in 1..n : i - 1 \in 0..n
      OBVIOUS
    <2>2. QED
      BY <1>2, <1>5, <2>1
  <1>7. FlatScan(g, s, n, A)
    BY <1>5, <1>6 DEF FlatScan
  <1>8. Len(s) = n
    OBVIOUS
  <1>9. CASE n = 0
    <2>1. s = << >>
      BY <1>8, <1>9
    <2>2. FlattenSeq(s) = s
      BY <1>8, <1>9 DEF FlattenSeq
    <2>3. QED
      BY <1>5, <1>7, <1>9, <2>1, <2>2
  <1>10. CASE n # 0
    <2> DEFINE flatten[i \in 1..Len(s)] == IF i = 1 THEN s[i] ELSE flatten[i - 1] \o s[i]
               f == [i \in 1..n |-> g[i]]
    <2>1. Eq(f)
      <3>1. ASSUME NEW i \in 1..n PROVE f[i] = IF i = 1 THEN s[i] ELSE f[i - 1] \o s[i]
        <4>1. f[i] = g[i - 1] \o s[i] /\ s[i] \in Seq(A)
          BY <1>6
        <4>2. CASE i = 1
          <5>1. g[i - 1] = << >>
            BY <1>5, <4>2
          <5>2. << >> \o s[i] = s[i]
            BY <4>1, ConcatEmptySeq
          <5>3. QED
            BY <4>1, <4>2, <5>1, <5>2
        <4>3. CASE i # 1
          <5>1. i - 1 \in 1..n
            BY <4>3
          <5>2. f[i - 1] = g[i - 1]
            BY <5>1
          <5>3. QED
            BY <4>1, <4>3, <5>2
        <4>4. QED
          BY <4>2, <4>3
      <3>2. f = [i \in 1..n |-> f[i]]
        OBVIOUS
      <3> HIDE DEF f
      <3>3. QED
        BY <3>1, <3>2
    <2>2. Eq(flatten)
      <3> HIDE DEF f
      <3>1. QED
        BY <1>8, <2>1
    <2>3. FlattenSeq(s) = flatten[n]
      BY <1>8, <1>10 DEF FlattenSeq
    <2> HIDE DEF flatten, f
    <2> DEFINE h == [i \in 0..n |-> IF i = 0 THEN << >> ELSE flatten[i]]
    <2>4. h[0] = << >> /\ h[n] = flatten[n]
      BY <1>10
    <2>5. ASSUME NEW i \in 1..n PROVE h[i] = h[i - 1] \o s[i]
      <3>1. h[i] = flatten[i] /\ h[i - 1] = (IF i - 1 = 0 THEN << >> ELSE flatten[i - 1])
        OBVIOUS
      <3>2. flatten[i] = IF i = 1 THEN s[i] ELSE flatten[i - 1] \o s[i]
        BY <2>2
      <3>3. CASE i = 1
        <4>1. << >> \o s[i] = s[i]
          BY ConcatEmptySeq
        <4>2. h[i - 1] = << >>
          BY <3>1, <3>3
        <4>3. QED
          BY <3>1, <3>2, <3>3, <4>1, <4>2
      <3> HIDE DEF h
      <3>4. CASE i # 1
        <4>1. i - 1 # 0
          BY ONLY <3>4, i \in 1..n, n \in Nat
        <4>2. QED
          BY ONLY <3>1, <3>2, <3>4, <4>1
      <3>5. QED
        BY <3>3, <3>4
    <2>6. \A i \in 0..n : h[i] \in Seq(A)
      <3> HIDE DEF h
      <3>1. \A i \in 1..n : h[i - 1] \in Seq(A) => h[i] \in Seq(A)
        BY <2>5, ConcatProperties
      <3>2. h[0] \in Seq(A)
        BY <1>1, <2>4
      <3>3. QED
        BY ONLY n \in Nat, <3>1, <3>2, ScanStays
    <2>7. h \in [0..n -> Seq(A)]
      <3>1. h = [i \in 0..n |-> h[i]]
        OBVIOUS
      <3> HIDE DEF h
      <3>2. QED
        BY <2>6, <3>1
    <2>8. FlatScan(h, s, n, A)
      <3> HIDE DEF h
      <3>1. QED
        BY <2>4, <2>5, <2>7 DEF FlatScan
    <2>9. QED
      BY <2>3, <2>4, <2>8
  <1>11. QED
    BY <1>9, <1>10

\* The elements put together are those of the sequences.
LEMMA FlattenRange ==
    ASSUME NEW A, NEW n \in Nat, NEW s \in [1..n -> Seq(A)]
    PROVE  /\ FlattenSeq(s) \in Seq(A)
           /\ Range(FlattenSeq(s)) = UNION {Range(s[i]) : i \in 1..n}
  <1>1. PICK f : FlatScan(f, s, n, A) /\ FlattenSeq(s) = f[n]
    BY Flattened
  <1>2. f \in [0..n -> Seq(A)] /\ f[0] = << >> /\ \A i \in 1..n : f[i] = f[i - 1] \o s[i]
    BY <1>1 DEF FlatScan
  <1> DEFINE P == {i \in 0..n : Range(f[i]) = UNION {Range(s[j]) : j \in 1..i}}
  <1>3. 0 \in P
    <2>1. Range(<< >>) = {}
      BY DEF Range
    <2>2. QED
      BY <1>2, <2>1
  <1>4. ASSUME NEW i \in 0..n, i + 1 \in 0..n, i \in P PROVE i + 1 \in P
    <2>1. i + 1 \in 1..n /\ (i + 1) - 1 = i /\ 1..(i + 1) = (1..i) \cup {i + 1}
      BY ONLY n \in Nat, i \in 0..n, i + 1 \in 0..n
    <2>2. f[i + 1] = f[i] \o s[i + 1] /\ f[i] \in Seq(A) /\ s[i + 1] \in Seq(A)
      BY <1>2, <2>1
    <2>3. Range(f[i + 1]) = Range(f[i]) \cup Range(s[i + 1])
      BY <2>2, RangeConcatenation
    <2>4. Range(f[i]) = UNION {Range(s[j]) : j \in 1..i}
      BY <1>4
    <2>5. UNION {Range(s[j]) : j \in (1..i) \cup {i + 1}}
              = (UNION {Range(s[j]) : j \in 1..i}) \cup Range(s[i + 1])
      OBVIOUS
    <2>6. Range(f[i + 1]) = UNION {Range(s[j]) : j \in 1..(i + 1)}
      BY ONLY <2>1, <2>3, <2>4, <2>5
    <2>7. QED
      BY <1>4, <2>6
  <1>5. n \in P
    <2> HIDE DEF P
    <2>1. \A i \in 0..n : i \in P
      BY <1>3, <1>4, UpTo
    <2>2. QED
      BY <2>1
  <1>6. f[n] \in Seq(A)
    BY <1>2
  <1>7. QED
    BY <1>1, <1>5, <1>6

\* How many of the first i elements of a sequence are in a set.
CountIn(s, T, i) == Cardinality({j \in 1..i : s[j] \in T})

\* The count goes up by one with every element that is in the set.
LEMMA CountNext ==
    ASSUME NEW s, NEW T, NEW i \in Nat
    PROVE  /\ CountIn(s, T, 0) = 0 /\ CountIn(s, T, i) \in Nat
           /\ CountIn(s, T, i + 1) = CountIn(s, T, i) + (IF s[i + 1] \in T THEN 1 ELSE 0)
  <1> DEFINE K(k) == {j \in 1..k : s[j] \in T}
  <1>1. K(0) = {} /\ K(i) \subseteq 1..i /\ i + 1 \notin K(i)
    OBVIOUS
  <1>2. IsFiniteSet(1..i)
    BY FS_Interval
  <1>3. IsFiniteSet(K(i))
    <2> HIDE DEF K
    <2>1. QED
      BY <1>1, <1>2, FS_Subset
  <1>4. K(i + 1) = IF s[i + 1] \in T THEN K(i) \cup {i + 1} ELSE K(i)
    <2>1. \A j : j \in 1..(i + 1) <=> j \in 1..i \/ j = i + 1
      OBVIOUS
    <2>2. QED
      BY <2>1
  <1> HIDE DEF K
  <1>5. Cardinality(K(i)) \in Nat /\ Cardinality(K(0)) = 0
    BY <1>1, <1>3, FS_CardinalityType, FS_EmptySet
  <1>6. Cardinality(K(i) \cup {i + 1}) = Cardinality(K(i)) + 1
    BY <1>1, <1>3, FS_AddElement
  <1>7. Cardinality(K(i + 1)) = Cardinality(K(i)) + (IF s[i + 1] \in T THEN 1 ELSE 0)
    BY <1>4, <1>5, <1>6
  <1>8. QED
    BY <1>5, <1>7 DEF CountIn, K

\* Filtering: the elements of the set, each at the place that counts them.
LEMMA OnlyIs ==
    ASSUME NEW A, NEW s \in Seq(A), NEW T
    PROVE  /\ Only(s, T) \in Seq(A) /\ Range(Only(s, T)) = Range(s) \cap T
           /\ Len(Only(s, T)) = CountIn(s, T, Len(s))
           /\ \A i \in 1..Len(s) : s[i] \in T => /\ CountIn(s, T, i) \in 1..Len(Only(s, T))
                                                 /\ Only(s, T)[CountIn(s, T, i)] = s[i]
  <1> DEFINE n == Len(s)
             t == [i \in DOMAIN s |-> IF s[i] \in T THEN << s[i] >> ELSE << >>]
  <1>1. n \in Nat /\ DOMAIN s = 1..n /\ \A i \in 1..n : s[i] \in A
    OBVIOUS
  <1> HIDE DEF n
  <1>2. \A i \in 1..n : t[i] = IF s[i] \in T THEN << s[i] >> ELSE << >>
    BY <1>1
  <1>3. t \in [1..n -> Seq(A)]
    <2>1. \A i \in 1..n : (IF s[i] \in T THEN << s[i] >> ELSE << >>) \in Seq(A)
      BY <1>1
    <2>2. QED
      BY <1>1, <2>1
  <1>4. Only(s, T) = FlattenSeq(t)
    BY DEF Only
  <1> HIDE DEF t
  <1>5. PICK f : FlatScan(f, t, n, A) /\ FlattenSeq(t) = f[n]
    BY <1>1, <1>3, Flattened
  <1>6. f \in [0..n -> Seq(A)] /\ f[0] = << >> /\ \A i \in 1..n : f[i] = f[i - 1] \o t[i]
    BY <1>5 DEF FlatScan
  <1> DEFINE C(i) == CountIn(s, T, i)
             Placed(i) == \A j \in 1..i : s[j] \in T => C(j) \in 1..Len(f[i]) /\ f[i][C(j)] = s[j]
             P == {i \in 0..n : Len(f[i]) = C(i) /\ Placed(i)}
  <1>7. C(0) = 0 /\ \A i \in Nat : C(i) \in Nat /\ C(i + 1) = C(i) + (IF s[i + 1] \in T THEN 1 ELSE 0)
    BY CountNext
  <1> HIDE DEF C
  <1>8. 0 \in P
    BY <1>1, <1>6, <1>7
  <1>9. ASSUME NEW i \in 0..n, i + 1 \in 0..n, i \in P PROVE i + 1 \in P
    <2>1. i \in Nat /\ i + 1 \in 1..n /\ (i + 1) - 1 = i /\ \A j \in 1..(i + 1) : j = i + 1 \/ j \in 1..i
      BY ONLY <1>1, i \in 0..n, i + 1 \in 0..n
    <2>2. /\ f[i + 1] = f[i] \o t[i + 1] /\ f[i] \in Seq(A) /\ t[i + 1] \in Seq(A)
          /\ Len(f[i]) = C(i) /\ Placed(i)
      BY <1>3, <1>6, <1>9, <2>1
    <2>3. /\ Len(f[i + 1]) = Len(f[i]) + Len(t[i + 1]) /\ Len(f[i]) \in Nat
          /\ \A k \in 1..(Len(f[i]) + Len(t[i + 1])) :
                 f[i + 1][k] = IF k <= Len(f[i]) THEN f[i][k] ELSE t[i + 1][k - Len(f[i])]
      <3> DEFINE both == f[i] \o t[i + 1]
      <3>1. /\ Len(both) = Len(f[i]) + Len(t[i + 1]) /\ Len(f[i]) \in Nat
            /\ \A k \in 1..(Len(f[i]) + Len(t[i + 1])) :
                   both[k] = IF k <= Len(f[i]) THEN f[i][k] ELSE t[i + 1][k - Len(f[i])]
        <4>1. f[i] \in Seq(A) /\ t[i + 1] \in Seq(A)
          BY ONLY <2>2
        <4>2. Len(f[i]) \in Nat
          BY ONLY <4>1
        <4>3. QED
          BY ONLY <4>1, <4>2, ConcatProperties
      <3>2. f[i + 1] = both
        BY ONLY <2>2
      <3> HIDE DEF both
      <3>3. QED
        BY ONLY <3>1, <3>2
    <2>4. C(i) \in Nat /\ C(i + 1) = C(i) + (IF s[i + 1] \in T THEN 1 ELSE 0)
      BY <1>7, <2>1
    <2>5. t[i + 1] = IF s[i + 1] \in T THEN << s[i + 1] >> ELSE << >>
      BY <1>2, <2>1
    <2> HIDE DEF P
    <2>6. CASE s[i + 1] \in T
      <3>1. Len(t[i + 1]) = 1 /\ t[i + 1][1] = s[i + 1]
        BY <2>5, <2>6
      <3>2. Len(f[i + 1]) = C(i + 1) /\ C(i + 1) = C(i) + 1
        BY <2>2, <2>3, <2>4, <2>6, <3>1
      <3>3. C(i + 1) \in 1..(Len(f[i]) + Len(t[i + 1])) /\ ~(C(i + 1) <= Len(f[i]))
            /\ C(i + 1) - Len(f[i]) = 1
        BY ONLY <2>2, <2>3, <2>4, <3>1, <3>2
      <3>4. f[i + 1][C(i + 1)] = s[i + 1]
        BY ONLY <2>3, <3>1, <3>3
      <3>5. ASSUME NEW j \in 1..i, s[j] \in T
            PROVE  C(j) \in 1..Len(f[i + 1]) /\ f[i + 1][C(j)] = s[j]
        <4>1. C(j) \in 1..Len(f[i]) /\ f[i][C(j)] = s[j]
          BY <2>2, <3>5
        <4>2. C(j) \in 1..(Len(f[i]) + Len(t[i + 1])) /\ C(j) <= Len(f[i])
          BY ONLY <2>3, <3>1, <4>1
        <4>3. QED
          BY ONLY <2>3, <4>1, <4>2
      <3>6. Placed(i + 1)
        BY <2>1, <2>3, <3>3, <3>4, <3>5
      <3> HIDE DEF Placed
      <3>7. QED
        BY <1>9, <3>2, <3>6 DEF P
    <2>7. CASE s[i + 1] \notin T
      <3>1. f[i + 1] = f[i]
        BY <2>2, <2>5, <2>7, ConcatEmptySeq
      <3>2. Len(f[i + 1]) = C(i + 1)
        BY <2>2, <2>4, <2>7, <3>1
      <3>3. Placed(i + 1)
        BY <2>1, <2>2, <2>7, <3>1
      <3> HIDE DEF Placed
      <3>4. QED
        BY <1>9, <3>2, <3>3 DEF P
    <2>8. QED
      BY <2>6, <2>7
  <1>10. n \in P
    <2> HIDE DEF P
    <2>1. \A i \in 0..n : i \in P
      BY <1>1, <1>8, <1>9, UpTo
    <2>2. QED
      BY <1>1, <2>1
  <1>11. FlattenSeq(t) \in Seq(A) /\ Range(FlattenSeq(t)) = UNION {Range(t[i]) : i \in 1..n}
    BY <1>1, <1>3, FlattenRange
  <1>12. UNION {Range(t[i]) : i \in 1..n} = Range(s) \cap T
    <2>1. \A i \in 1..n : Range(t[i]) = {s[i]} \cap T
      <3>1. ASSUME NEW i \in 1..n PROVE Range(t[i]) = {s[i]} \cap T
        <4>1. CASE s[i] \in T
          <5>1. t[i] = << s[i] >>
            BY <1>2, <4>1
          <5>2. Range(<< s[i] >>) = {s[i]}
            BY DEF Range
          <5>3. QED
            BY <4>1, <5>1, <5>2
        <4>2. CASE s[i] \notin T
          <5>1. t[i] = << >>
            BY <1>2, <4>2
          <5>2. Range(<< >>) = {}
            BY DEF Range
          <5>3. QED
            BY <4>2, <5>1, <5>2
        <4>3. QED
          BY <4>1, <4>2
      <3>2. QED
        BY <3>1
    <2>2. Range(s) = {s[i] : i \in 1..n}
      BY <1>1 DEF Range
    <2>3. QED
      BY <2>1, <2>2
  <1>13. QED
    BY <1>4, <1>5, <1>10, <1>11, <1>12 DEF n, C

-----------------------------------------------------------------------------
(* Texts. *)

\* What a source file holds.
Text == Seq({Newline, Ascii, Wide})

\* A character is one byte or two.
LEMMA WidthIs == \A c : Width(c) \in 1..2
  BY DEF Width

\* Characters start where the last one ends.
LEMMA StartsOf ==
    ASSUME NEW text \in Text
    PROVE  /\ Starts(text) \in [1..(Len(text) + 1) -> Nat] /\ Starts(text)[1] = 0
           /\ \A i \in 1..Len(text) : Starts(text)[i + 1] = Starts(text)[i] + Width(text[i])
  <1> DEFINE n == Len(text)
             F == [p \in (1..n) \X Nat |-> p[2] + Width(text[p[1]])]
             Eq(f) == f = [i \in 1..(n + 1) |-> IF i = 1 THEN 0 ELSE f[i - 1] + Width(text[i - 1])]
  <1>1. n \in Nat
    BY DEF Text
  <1>2. \A i \in 1..n : \A s \in Nat : F[<<i, s>>] = s + Width(text[i])
    OBVIOUS
  <1>2a. StepsIn(F, n, Nat)
    BY WidthIs DEF StepsIn
  <1> HIDE DEF F, n
  <1>2b. \E g : IsScan(g, F, n, 0, Nat)
    BY <1>1, <1>2a, ScanExists
  <1>3. PICK g : g \in [0..n -> Nat] /\ g[0] = 0 /\ \A i \in 1..n : g[i] = F[<<i, g[i - 1]>>]
    BY <1>2b DEF IsScan
  <1>4. \E f : Eq(f)
    <2> DEFINE f == [i \in 1..(n + 1) |-> g[i - 1]]
    <2>1. ASSUME NEW i \in 1..(n + 1) 
          PROVE f[i] = IF i = 1 THEN 0 ELSE f[i - 1] + Width(text[i - 1])
      <3>1. i - 1 \in 0..n /\ (i # 1 => i - 1 \in 1..n /\ i - 1 \in 1..(n + 1) /\ (i - 1) - 1 \in 0..n)
        BY ONLY <1>1, i \in 1..(n + 1)
      <3>2. CASE i = 1
        BY <1>3, <3>2
      <3>3. CASE i # 1
        <4>1. g[i - 1] = F[<<i - 1, g[(i - 1) - 1]>>] /\ g[(i - 1) - 1] \in Nat
          BY <1>3, <3>1, <3>3
        <4>2. g[i - 1] = g[(i - 1) - 1] + Width(text[i - 1])
          BY <4>1, <1>2, <3>1, <3>3
        <4>3. f[i] = g[i - 1] /\ f[i - 1] = g[(i - 1) - 1]
          BY <3>1, <3>3
        <4>4. QED
          BY ONLY <3>3, <4>2, <4>3
      <3>4. QED
        BY <3>2, <3>3
    <2>2. Eq(f)
      <3>1. f = [i \in 1..(n + 1) |-> f[i]]
        OBVIOUS
      <3> HIDE DEF f
      <3>2. QED
        BY <2>1, <3>1
    <2>3. QED
      BY <2>2
  <1>5. Eq(Starts(text))
    BY <1>4 DEF Starts, n
  <1> DEFINE st == Starts(text)
  <1> HIDE DEF st
  <1>6. st = [i \in 1..(n + 1) |-> IF i = 1 THEN 0 ELSE st[i - 1] + Width(text[i - 1])]
    BY <1>5 DEF st
  <1>7. st[1] = 0
    <2>1. 1 \in 1..(n + 1)
      BY <1>1
    <2>2. QED
      BY <1>6, <2>1
  <1>8. \A i \in 1..n : st[i + 1] = st[i] + Width(text[i])
    <2>1. \A i \in 1..n : i + 1 \in 1..(n + 1) /\ i + 1 # 1 /\ (i + 1) - 1 = i
      BY <1>1
    <2>2. QED
      BY <1>6, <2>1
  <1>9. \A i \in 1..(n + 1) : st[i] \in Nat
    <2> DEFINE P == {i \in 0..n : st[i + 1] \in Nat}
    <2>1. 0 \in P
      BY <1>1, <1>7
    <2>2. ASSUME NEW i \in 0..n, i + 1 \in 0..n, i \in P PROVE i + 1 \in P
      <3>1. i + 1 \in 1..n /\ st[i + 1] \in Nat
        BY <1>1, <2>2
      <3>2. QED
        BY <1>8, <3>1, WidthIs
    <2>3. \A i \in 0..n : i \in P
      <3> HIDE DEF P
      <3>1. QED
        BY <1>1, <2>1, <2>2, UpTo
    <2>4. \A i \in 1..(n + 1) : i - 1 \in 0..n /\ (i - 1) + 1 = i
      BY <1>1
    <2>5. QED
      BY <2>3, <2>4
  <1>10. QED
    BY <1>6, <1>7, <1>8, <1>9 DEF st, n

\* The scan for an offset, one character at a time: `at' is the place reached.
Places == [line : Nat, column : Nat]
PlaceStep(text, offset, i, at) ==
    IF Starts(text)[i] >= offset THEN at
    ELSE IF text[i] = Newline THEN [line |-> at.line + 1, column |-> 0]
    ELSE [line |-> at.line, column |-> at.column + Width(text[i])]

PlaceScan(f, text, offset) ==
    /\ f \in [0..Len(text) -> Places] /\ f[0] = [line |-> 1, column |-> 0]
    /\ \A i \in 1..Len(text) : f[i] = PlaceStep(text, offset, i, f[i - 1])

\* The place of an offset (source_map.rs:220) is the end of that scan.
LEMMA OffsetScan ==
    ASSUME NEW text \in Text, NEW offset
    PROVE  \E f : PlaceScan(f, text, offset) /\ OffsetToLineCol(text, offset) = f[Len(text)]
  <1> DEFINE n == Len(text)
             F == [p \in (1..n) \X Places |-> PlaceStep(text, offset, p[1], p[2])]
             z == [line |-> 1, column |-> 0]
             Eq(f) == f = [i \in 1..(n + 1) |-> IF i = 1 THEN z
                                                ELSE PlaceStep(text, offset, i - 1, f[i - 1])]
  <1>1. n \in Nat /\ z \in Places
    BY DEF Text, Places
  <1>2. \A i \in 1..n : \A s \in Places : PlaceStep(text, offset, i, s) \in Places
    BY WidthIs DEF PlaceStep, Places
  <1>3. \A i \in 1..n : \A s \in Places : F[<<i, s>>] = PlaceStep(text, offset, i, s)
    OBVIOUS
  <1>4. StepsIn(F, n, Places)
    BY <1>2, <1>3 DEF StepsIn
  <1> HIDE DEF F, n, z
  <1>5. \E g : IsScan(g, F, n, z, Places)
    BY <1>1, <1>4, ScanExists
  <1>6. PICK g : g \in [0..n -> Places] /\ g[0] = z /\ \A i \in 1..n : g[i] = F[<<i, g[i - 1]>>]
    BY <1>5 DEF IsScan
  <1>7. \A i \in 1..n : g[i] = PlaceStep(text, offset, i, g[i - 1])
    <2>1. \A i \in 1..n : i - 1 \in 0..n
      BY <1>1
    <2>2. QED
      BY <1>3, <1>6, <2>1
  <1> DEFINE f == [i \in 1..(n + 1) |-> g[i - 1]]
  <1>8. Eq(f)
    <2>1. ASSUME NEW i \in 1..(n + 1)
          PROVE  f[i] = IF i = 1 THEN z ELSE PlaceStep(text, offset, i - 1, f[i - 1])
      <3>1. i - 1 \in 0..n /\ (i # 1 => i - 1 \in 1..n /\ i - 1 \in 1..(n + 1))
        BY ONLY <1>1, i \in 1..(n + 1)
      <3>2. f[i] = g[i - 1] /\ (i # 1 => f[i - 1] = g[(i - 1) - 1])
        BY <3>1
      <3>3. i = 1 => i - 1 = 0
        OBVIOUS
      <3> HIDE DEF f
      <3>4. QED
        BY <1>6, <1>7, <3>1, <3>2, <3>3
    <2>2. f = [i \in 1..(n + 1) |-> f[i]]
      OBVIOUS
    <2> HIDE DEF f
    <2>3. QED
      BY <2>1, <2>2
  <1> DEFINE scan[i \in 1..(Len(text) + 1)] ==
            IF i = 1 THEN [line |-> 1, column |-> 0]
            ELSE LET at == scan[i - 1] IN
                 IF Starts(text)[i - 1] >= offset THEN at
                 ELSE IF text[i - 1] = Newline THEN [line |-> at.line + 1, column |-> 0]
                 ELSE [line |-> at.line, column |-> at.column + Width(text[i - 1])]
  <1>9. Eq(scan)
    <2> HIDE DEF f
    <2>1. QED
      BY <1>8 DEF n, z, PlaceStep
  <1>10. OffsetToLineCol(text, offset) = scan[n + 1]
    BY DEF OffsetToLineCol, n
  <1> HIDE DEF scan, f
  <1> DEFINE h == [j \in 0..n |-> scan[j + 1]]
  <1>11. h[0] = z /\ h[n] = scan[n + 1]
    BY <1>1, <1>9
  <1>12. \A i \in 1..n : h[i] = PlaceStep(text, offset, i, h[i - 1])
    <2>1. ASSUME NEW i \in 1..n PROVE h[i] = PlaceStep(text, offset, i, h[i - 1])
      <3>1. i \in 0..n /\ i - 1 \in 0..n /\ i + 1 \in 1..(n + 1) /\ i + 1 # 1 /\ (i + 1) - 1 = i
            /\ (i - 1) + 1 = i
        BY <1>1
      <3>2. h[i] = scan[i + 1] /\ h[i - 1] = scan[i]
        BY <3>1
      <3>3. scan[i + 1] = PlaceStep(text, offset, i, scan[i])
        <4> DEFINE k == i + 1
        <4>1. k \in 1..(n + 1) /\ k # 1 /\ k - 1 = i
          BY <3>1
        <4> HIDE DEF k
        <4>2. scan[k] = PlaceStep(text, offset, k - 1, scan[k - 1])
          BY ONLY <1>9, <4>1
        <4>3. QED
          BY <4>1, <4>2 DEF k
      <3> HIDE DEF h
      <3>4. QED
        BY <3>2, <3>3
    <2>2. QED
      BY <2>1
  <1> HIDE DEF h
  <1>13. \A i \in 0..n : h[i] \in Places
    <2>1. \A i \in 1..n : h[i - 1] \in Places => h[i] \in Places
      BY <1>2, <1>12
    <2>2. h[0] \in Places
      BY <1>1, <1>11
    <2>3. QED
      BY ONLY <1>1, <2>1, <2>2, ScanStays
  <1>14. h \in [0..n -> Places]
    <2>1. h = [j \in 0..n |-> h[j]]
      BY DEF h
    <2>2. QED
      BY <1>13, <2>1
  <1>15. QED
    BY <1>10, <1>11, <1>12, <1>14 DEF PlaceScan, n, z

\* The scan for the line table, one character at a time: the lines that are done
\* and the bytes of the line that is open.
Tables == [done : Seq(Nat), open : Nat]
LengthStep(text, i, at) ==
    IF text[i] = Newline THEN [done |-> Append(at.done, at.open), open |-> 0]
    ELSE [done |-> at.done, open |-> at.open + Width(text[i])]
LengthsAt(end) == IF end.open > 0 THEN Append(end.done, end.open) ELSE end.done

LengthScan(f, text) ==
    /\ f \in [0..Len(text) -> Tables] /\ f[0] = [done |-> << >>, open |-> 0]
    /\ \A i \in 1..Len(text) : f[i] = LengthStep(text, i, f[i - 1])

\* The line table (recorder.rs:306) is what that scan leaves.
LEMMA LengthsScan ==
    ASSUME NEW text \in Text
    PROVE  \E f : LengthScan(f, text) /\ LineLengths(text) = LengthsAt(f[Len(text)])
  <1> DEFINE n == Len(text)
             F == [p \in (1..n) \X Tables |-> LengthStep(text, p[1], p[2])]
             z == [done |-> << >>, open |-> 0]
             Eq(f) == f = [i \in 0..n |-> IF i = 0 THEN z ELSE LengthStep(text, i, f[i - 1])]
  <1>1. n \in Nat /\ z \in Tables
    BY DEF Text, Tables
  <1>2. \A i \in 1..n : \A s \in Tables : LengthStep(text, i, s) \in Tables
    BY WidthIs DEF LengthStep, Tables
  <1>3. \A i \in 1..n : \A s \in Tables : F[<<i, s>>] = LengthStep(text, i, s)
    OBVIOUS
  <1>4. StepsIn(F, n, Tables)
    BY <1>2, <1>3 DEF StepsIn
  <1> HIDE DEF F, n, z
  <1>5. \E g : IsScan(g, F, n, z, Tables)
    BY <1>1, <1>4, ScanExists
  <1>6. PICK g : g \in [0..n -> Tables] /\ g[0] = z /\ \A i \in 1..n : g[i] = F[<<i, g[i - 1]>>]
    BY <1>5 DEF IsScan
  <1>7. \A i \in 0..n : g[i] = IF i = 0 THEN z ELSE LengthStep(text, i, g[i - 1])
    <2>1. \A i \in 0..n : i # 0 => i \in 1..n /\ i - 1 \in 0..n
      BY <1>1
    <2>2. QED
      BY <1>3, <1>6, <2>1
  <1>8. Eq(g)
    <2>1. g = [i \in 0..n |-> g[i]]
      BY <1>6
    <2>2. QED
      BY <1>7, <2>1
  <1> DEFINE scan[i \in 0..Len(text)] ==
            IF i = 0 THEN [done |-> << >>, open |-> 0]
            ELSE LET at == scan[i - 1] IN
                 IF text[i] = Newline THEN [done |-> Append(at.done, at.open), open |-> 0]
                 ELSE [done |-> at.done, open |-> at.open + Width(text[i])]
  <1>9. Eq(scan)
    BY <1>8 DEF n, z, LengthStep
  <1>10. LineLengths(text) = LengthsAt(scan[n])
    BY DEF LineLengths, LengthsAt, n
  <1> HIDE DEF scan
  <1>11. scan[0] = z
    BY <1>1, <1>9
  <1>12. \A i \in 1..n : scan[i] = LengthStep(text, i, scan[i - 1])
    <2>1. \A i \in 1..n : i \in 0..n /\ i # 0
      BY <1>1
    <2>2. QED
      BY <1>9, <2>1
  <1>13. \A i \in 0..n : scan[i] \in Tables
    <2>1. \A i \in 1..n : scan[i - 1] \in Tables => scan[i] \in Tables
      BY <1>2, <1>12
    <2>2. scan[0] \in Tables
      BY <1>1, <1>11
    <2>3. QED
      BY ONLY <1>1, <2>1, <2>2, ScanStays
  <1>14. scan \in [0..n -> Tables]
    <2>1. scan = [j \in 0..n |-> scan[j]]
      BY <1>9
    <2>2. QED
      BY <1>13, <2>1
  <1>15. QED
    BY <1>10, <1>11, <1>12, <1>14 DEF LengthScan, n, z

\* A place in the lines that are done, or at the open one, which will be a line of
\* the table.
InLines(place, at) ==
    \/ place.line \in 1..Len(at.done) /\ place.column <= at.done[place.line]
    \/ place.line = Len(at.done) + 1 /\ place.column <= at.open /\ at.open > 0

\* A place in the lines read so far stays in them.
LEMMA InLinesStays ==
    ASSUME NEW text \in Text, NEW i \in 1..Len(text), NEW place \in Places, NEW at \in Tables,
           InLines(place, at)
    PROVE  InLines(place, LengthStep(text, i, at))
  <1>1. at.done \in Seq(Nat) /\ at.open \in Nat /\ Len(at.done) \in Nat
    BY DEF Tables
  <1>2. place.line \in Nat /\ place.column \in Nat
    BY DEF Places
  <1>3. CASE text[i] = Newline
    <2> DEFINE longer == Append(at.done, at.open)
    <2>1. /\ Len(longer) = Len(at.done) + 1 /\ longer[Len(at.done) + 1] = at.open
          /\ \A k \in 1..Len(at.done) : longer[k] = at.done[k]
      BY <1>1, AppendProperties
    <2>2. LengthStep(text, i, at) = [done |-> longer, open |-> 0]
      BY <1>3 DEF LengthStep
    <2> HIDE DEF longer
    <2>3. place.line \in 1..Len(longer) /\ place.column <= longer[place.line]
      BY SMTT(40), <1>1, <1>2, <2>1 DEF InLines
    <2>4. QED
      BY <2>2, <2>3 DEF InLines
  <1>4. CASE text[i] # Newline
    <2>1. LengthStep(text, i, at) = [done |-> at.done, open |-> at.open + Width(text[i])]
      BY <1>4 DEF LengthStep
    <2>2. QED
      BY <1>1, <1>2, <2>1, WidthIs DEF InLines
  <1>5. QED
    BY <1>3, <1>4

\* An offset inside a text is shown inside the line table of the text.
LEMMA PlaceInTable ==
    ASSUME NEW text \in Text, NEW offset \in Nat, offset < Size(text)
    PROVE  LET place == OffsetToLineCol(text, offset)
               table == LineLengths(text)
           IN  /\ place \in Places
               /\ place.line \in DOMAIN table /\ place.column <= table[place.line]
  <1> DEFINE n == Len(text)
             st == Starts(text)
  <1>1. /\ n \in Nat /\ st \in [1..(n + 1) -> Nat] /\ st[1] = 0
        /\ \A i \in 1..n : st[i + 1] = st[i] + Width(text[i])
    BY StartsOf DEF Text
  <1>1a. n \in Nat
    BY <1>1
  <1>2. PICK f : PlaceScan(f, text, offset) /\ OffsetToLineCol(text, offset) = f[n]
    BY OffsetScan
  <1>3. PICK g : LengthScan(g, text) /\ LineLengths(text) = LengthsAt(g[n])
    BY LengthsScan
  <1>4. /\ f \in [0..n -> Places] /\ f[0] = [line |-> 1, column |-> 0]
        /\ \A i \in 1..n : f[i] = PlaceStep(text, offset, i, f[i - 1])
    BY <1>2 DEF PlaceScan
  <1>5. /\ g \in [0..n -> Tables] /\ g[0] = [done |-> << >>, open |-> 0]
        /\ \A i \in 1..n : g[i] = LengthStep(text, i, g[i - 1])
    BY <1>3 DEF LengthScan
  <1>6. offset < st[n + 1]
    BY DEF Size
  <1> HIDE DEF n, st
  <1> DEFINE Reading(i) == (i = 0 \/ st[i] < offset)
                           /\ f[i] = [line |-> Len(g[i].done) + 1, column |-> g[i].open]
             Stopped(i) == i # 0 /\ st[i] >= offset /\ InLines(f[i], g[i])
             P == {i \in 0..n : Reading(i) \/ Stopped(i)}
  <1>7. ASSUME NEW i \in 0..n, i + 1 \in 0..n, i \in P PROVE i + 1 \in P
    <2>1. /\ i + 1 \in 1..n /\ (i + 1) - 1 = i /\ i + 1 \in 1..(n + 1) /\ i + 1 # 0
          /\ (i # 0 => i \in 1..n /\ i \in 1..(n + 1))
      BY ONLY <1>1a, i \in 0..n, <1>7
    <2>2. f[i + 1] = PlaceStep(text, offset, i + 1, f[i]) /\ f[i] \in Places
      BY <1>4, <2>1
    <2>3. g[i + 1] = LengthStep(text, i + 1, g[i]) /\ g[i] \in Tables
      BY <1>5, <2>1
    <2>4. st[i + 1] \in Nat /\ (i # 0 => st[i] \in Nat /\ st[i] < st[i + 1])
      <3>1. st[i + 1] \in Nat /\ (i # 0 => st[i] \in Nat /\ st[i + 1] = st[i] + Width(text[i]))
        BY <1>1, <2>1
      <3>2. Width(text[i]) \in 1..2
        BY WidthIs
      <3>3. QED
        BY ONLY <3>1, <3>2
    <2>5. g[i].done \in Seq(Nat) /\ g[i].open \in Nat /\ Len(g[i].done) \in Nat
      BY <2>3 DEF Tables
    <2>6. CASE Stopped(i)
      <3>1. st[i + 1] >= offset
        BY <2>4, <2>6
      <3>2. f[i + 1] = f[i]
        BY <2>2, <3>1 DEF PlaceStep, st
      <3>3. InLines(f[i + 1], g[i + 1])
        BY <2>1, <2>2, <2>3, <2>6, <3>2, InLinesStays DEF n
      <3>4. QED
        BY <2>1, <3>1, <3>3
    <2>7. CASE Reading(i) /\ st[i + 1] < offset
      <3>1. ~(st[i + 1] >= offset)
        BY <2>4, <2>7
      <3>2. f[i + 1] = IF text[i + 1] = Newline THEN [line |-> f[i].line + 1, column |-> 0]
                       ELSE [line |-> f[i].line, column |-> f[i].column + Width(text[i + 1])]
        BY <2>2, <3>1 DEF PlaceStep, st
      <3>3. f[i].line = Len(g[i].done) + 1 /\ f[i].column = g[i].open
        BY <2>7
      <3>4. CASE text[i + 1] = Newline
        <4>1. f[i + 1] = [line |-> Len(g[i].done) + 2, column |-> 0]
          BY <2>5, <3>2, <3>3, <3>4
        <4>2. g[i + 1] = [done |-> Append(g[i].done, g[i].open), open |-> 0]
          BY <2>3, <3>4 DEF LengthStep
        <4>3. Len(Append(g[i].done, g[i].open)) = Len(g[i].done) + 1
          BY <2>5, AppendProperties
        <4>4. f[i + 1] = [line |-> Len(g[i + 1].done) + 1, column |-> g[i + 1].open]
          BY <2>5, <4>1, <4>2, <4>3
        <4>5. QED
          BY <2>1, <2>7, <4>4
      <3>5. CASE text[i + 1] # Newline
        <4>1. f[i + 1] = [line |-> Len(g[i].done) + 1, column |-> g[i].open + Width(text[i + 1])]
          BY <3>2, <3>3, <3>5
        <4>2. g[i + 1] = [done |-> g[i].done, open |-> g[i].open + Width(text[i + 1])]
          BY <2>3, <3>5 DEF LengthStep
        <4>3. f[i + 1] = [line |-> Len(g[i + 1].done) + 1, column |-> g[i + 1].open]
          BY <4>1, <4>2
        <4>4. QED
          BY <2>1, <2>7, <4>3
      <3>6. QED
        BY <3>4, <3>5
    <2>8. CASE Reading(i) /\ st[i + 1] >= offset
      <3>1. f[i + 1] = f[i]
        BY <2>2, <2>8 DEF PlaceStep, st
      <3>2. f[i].line = Len(g[i].done) + 1 /\ f[i].column = g[i].open
        BY <2>8
      <3>3. InLines(f[i], g[i + 1])
        <4>1. CASE text[i + 1] = Newline
          <5> DEFINE longer == Append(g[i].done, g[i].open)
          <5>1. g[i + 1] = [done |-> longer, open |-> 0]
            BY <2>3, <4>1 DEF LengthStep
          <5>2. Len(longer) = Len(g[i].done) + 1 /\ longer[Len(g[i].done) + 1] = g[i].open
            BY <2>5, AppendProperties
          <5> HIDE DEF longer
          <5>3. f[i].line \in 1..Len(longer) /\ f[i].column <= longer[f[i].line]
            BY <2>5, <3>2, <5>2
          <5>4. QED
            BY <5>1, <5>3 DEF InLines
        <4>2. CASE text[i + 1] # Newline
          <5>1. g[i + 1] = [done |-> g[i].done, open |-> g[i].open + Width(text[i + 1])]
            BY <2>3, <4>2 DEF LengthStep
          <5>2. QED
            BY <2>5, <3>2, <5>1, WidthIs DEF InLines
        <4>3. QED
          BY <4>1, <4>2
      <3>4. QED
        BY <2>1, <2>8, <3>1, <3>3
    <2>9. (st[i + 1] < offset \/ st[i + 1] >= offset) /\ (Reading(i) \/ Stopped(i))
      BY <1>7, <2>4
    <2>10. QED
      BY <2>6, <2>7, <2>8, <2>9
  <1>8. 0 \in P
    BY <1>1, <1>4, <1>5
  <1>9. n \in P
    <2> HIDE DEF P
    <2>1. \A i \in 0..n : i \in P
      BY <1>1, <1>7, <1>8, UpTo
    <2>2. QED
      BY <1>1, <2>1
  <1>10. f[n] \in Places /\ g[n] \in Tables
    BY <1>1, <1>4, <1>5
  <1>11. g[n].done \in Seq(Nat) /\ g[n].open \in Nat /\ Len(g[n].done) \in Nat
    BY <1>10 DEF Tables
  <1>12. InLines(f[n], g[n])
    <2>1. CASE Stopped(n)
      BY <2>1
    <2>2. CASE Reading(n)
      <3>1. n # 0
        BY <1>1, <1>6
      <3>2. /\ n \in 1..n /\ n \in 1..(n + 1) /\ st[n] \in Nat /\ st[n] < offset
            /\ offset < st[n] + Width(text[n]) /\ n - 1 \in 0..n
        BY <1>1, <1>6, <2>2, <3>1
      <3>3. text[n] # Newline /\ Width(text[n]) = 2
        BY <3>2 DEF Width, Newline, Wide
      <3>4. g[n] = LengthStep(text, n, g[n - 1]) /\ g[n - 1] \in Tables
        BY <1>5, <3>2
      <3>5. g[n].open = g[n - 1].open + 2 /\ g[n - 1].open \in Nat
        BY <3>3, <3>4 DEF LengthStep, Tables
      <3>6. f[n].line = Len(g[n].done) + 1 /\ f[n].column = g[n].open
        BY <2>2
      <3>7. QED
        BY <1>11, <3>5, <3>6 DEF InLines
    <2>3. QED
      BY <1>9, <2>1, <2>2
  <1>13. f[n].line \in Nat /\ f[n].column \in Nat
    BY <1>10 DEF Places
  <1>14. f[n].line \in DOMAIN LengthsAt(g[n]) /\ f[n].column <= LengthsAt(g[n])[f[n].line]
    <2> DEFINE longer == Append(g[n].done, g[n].open)
    <2>1. /\ longer \in Seq(Nat) /\ Len(longer) = Len(g[n].done) + 1
          /\ longer[Len(g[n].done) + 1] = g[n].open
          /\ \A k \in 1..Len(g[n].done) : longer[k] = g[n].done[k]
      BY <1>11, AppendProperties
    <2>2. LengthsAt(g[n]) = IF g[n].open > 0 THEN longer ELSE g[n].done
      BY DEF LengthsAt
    <2> HIDE DEF longer
    <2>3. CASE g[n].open > 0
      <3>1. f[n].line \in 1..Len(longer) /\ f[n].column <= longer[f[n].line]
        <4>1. CASE f[n].line \in 1..Len(g[n].done) /\ f[n].column <= g[n].done[f[n].line]
          <5>1. longer[f[n].line] = g[n].done[f[n].line]
            BY ONLY <2>1, <4>1
          <5>2. f[n].line \in 1..Len(longer)
            BY ONLY <1>11, <2>1, <4>1
          <5>3. QED
            BY ONLY <4>1, <5>1, <5>2
        <4>2. CASE f[n].line = Len(g[n].done) + 1 /\ f[n].column <= g[n].open
          <5>1. f[n].line \in 1..Len(longer)
            BY ONLY <1>11, <2>1, <4>2
          <5>2. longer[f[n].line] = g[n].open
            BY ONLY <2>1, <4>2
          <5>3. QED
            BY ONLY <4>2, <5>1, <5>2
        <4>3. QED
          BY <1>12, <4>1, <4>2 DEF InLines
      <3>2. DOMAIN longer = 1..Len(longer)
        BY <2>1
      <3>3. QED
        BY <2>2, <2>3, <3>1, <3>2
    <2>4. CASE ~(g[n].open > 0)
      <3>1. f[n].line \in 1..Len(g[n].done) /\ f[n].column <= g[n].done[f[n].line]
        BY <1>12, <2>4 DEF InLines
      <3>2. DOMAIN g[n].done = 1..Len(g[n].done)
        BY <1>11
      <3>3. QED
        BY <2>2, <2>4, <3>1, <3>2
    <2>5. QED
      BY <2>3, <2>4
  <1>15. QED
    BY <1>2, <1>3, <1>10, <1>14

-----------------------------------------------------------------------------
(* Names. *)

\* Qualified names (solidity_ast.rs:257) tell contracts apart: of two functions of
\* two contracts, each sees the other when its name needs
\* the contract: their qualified names differ, whatever the list.
THEOREM NamesDiffer == Spec => []NamesTellContracts
  <1>1. NamesTellContracts
    <2>1. SUFFICES ASSUME NEW f \in Range(given.functions), NEW g \in Range(given.functions),
                          f.contract_name # g.contract_name,
                          f.contract_name # None, g.contract_name # None,
                          QualifiedFunctionName(given.functions, f)
                              = QualifiedFunctionName(given.functions, g)
                   PROVE  FALSE
      BY DEF NamesTellContracts
    <2>2. ASSUME NEW h, NEW k, h \in Range(given.functions), k \in Range(given.functions),
                 h.name = k.name, h.contract_name # k.contract_name, 
                 h.contract_name # None, k.contract_name # None
          PROVE  QualifiedFunctionName(given.functions, h) = <<h.contract_name, h.name>>
      <3>1. k \in {given.functions[i] : i \in DOMAIN given.functions} \ {h}
        BY <2>2 DEF Range
      <3>2. QED
        BY <2>2, <3>1 DEF QualifiedFunctionName
    <2>3. f.name = g.name
      BY <2>1 DEF QualifiedFunctionName
    <2>4. QualifiedFunctionName(given.functions, f) = <<f.contract_name, f.name>>
      BY <2>1, <2>2, <2>3
    <2>5. QualifiedFunctionName(given.functions, g) = <<g.contract_name, g.name>>
      BY <2>1, <2>2, <2>3
    <2>6. <<f.contract_name, f.name>> = <<g.contract_name, g.name>>
      BY ONLY <2>1, <2>4, <2>5
    <2>7. f.contract_name = g.contract_name
      BY ONLY <2>6
    <2>8. QED
      BY ONLY <2>1, <2>7
  <1>2. QED
    BY <1>1, PTL

-----------------------------------------------------------------------------
(* Verified contracts. *)

\* A behaviour is about one of the inputs.
IsInput(input) ==
    /\ origin = input.origin /\ response = input.response
    /\ out = input.out /\ preferred = input.preferred
InputIs == \E input \in Inputs : IsInput(input)

\* The input does not change, and only a fetch can end a behaviour.
LEMMA HandedStays ==
    ASSUME [Next]_vars
    PROVE  /\ origin' = origin /\ response' = response /\ out' = out /\ preferred' = preferred
           /\ (pc' = pc \/ pc' \in {"start", "steps"} \/ RecordVerified)
  <1>1. CASE RecordFile
    BY <1>1 DEF RecordFile, Given
  <1>2. CASE RecordYul
    BY <1>2 DEF RecordYul, Given
  <1>3. CASE RecordVerified
    <2>1. CASE FetchContractSource(response, out, preferred).is # "start"
      BY <1>3, <2>1 DEF RecordVerified, Stops, handed
    <2>2. CASE FetchContractSource(response, out, preferred).is = "start"
      BY <1>3, <2>2 DEF RecordVerified, Given
    <2>3. QED
      BY <2>1, <2>2
  <1>4. CASE Start
    BY <1>4 DEF Start, handed
  <1>5. ASSUME NEW at \in DOMAIN given.code, Process(at)
        PROVE  /\ origin' = origin /\ response' = response /\ out' = out /\ preferred' = preferred
               /\ pc' = pc
    BY <1>5 DEF Process, handed
  <1>6. CASE UNCHANGED vars
    BY <1>6 DEF vars, handed
  <1>7. QED
    BY <1>1, <1>2, <1>3, <1>4, <1>5, <1>6 DEF Next

\* So the behaviour stays about its input.
LEMMA InputIsStays == ASSUME InputIs, [Next]_vars PROVE InputIs'
  <1>1. PICK input \in Inputs : IsInput(input)
    BY DEF InputIs
  <1>2. IsInput(input)'
    BY <1>1, HandedStays DEF IsInput
  <1>3. QED
    BY <1>1, <1>2 DEF InputIs

\* A contract whose code can be read (source_fetcher.rs:480), and that is picked.
HasCode(i) == DOMAIN out.contracts[i].code # {} /\ out.contracts[i].srcmap # << >>
IsUsable(i) ==
    /\ HasCode(i) /\ out.contracts[i].linked
    /\ IF preferred # None THEN {j \in DOMAIN out.contracts : out.contracts[j].name = preferred} = {i}
       ELSE \A j \in DOMAIN out.contracts : HasCode(j) => out.contracts[j].linked

\* When a fetch fails although it could have succeeded, the answer is to blame.
LEMMA FetchFails ==
    ASSUME NEW input \in Inputs, IsInput(input),
           FetchContractSource(response, out, preferred).is = "failed",
           NEW i \in DOMAIN out.contracts, IsUsable(i),
           out.success,
           NEW kinds, kinds = {response.files[j].kind : j \in DOMAIN response.files},
           IsSuccess(response.http), response.status \in {"full", "partial"},
           \A f \in Range(response.files) : f.kind = "metadata" => IsMetadata(f.text)
    PROVE  "metadata" \notin kinds \/ "sol" \notin kinds \/ "vy" \in kinds
  <1> DEFINE files == response.files
             OfKinds(k) == Only(files, {f \in Range(files) : f.kind \in k})
             hits == PickContract(out.contracts, preferred)
             picked == out.contracts[Min(hits)]
  <1>1. SUFFICES ASSUME "metadata" \in kinds, "sol" \in kinds, "vy" \notin kinds PROVE FALSE
    OBVIOUS
  <1>2. files \in Seq(Range(files)) /\ out.contracts \in Seq(Range(out.contracts))
    BY ResponseAssumption, ReportAssumption DEF IsInput
  <1>3. /\ Range(OfKinds({"metadata"})) = {f \in Range(files) : f.kind = "metadata"}
        /\ Range(OfKinds({"sol", "vy"})) = {f \in Range(files) : f.kind \in {"sol", "vy"}}
    <2>1. ASSUME NEW k PROVE Range(OfKinds(k)) = {f \in Range(files) : f.kind \in k}
      BY <1>2, OnlyIs
    <2> HIDE DEF OfKinds, files
    <2>2. QED
      BY <2>1
  <1>4. kinds = {f.kind : f \in Range(files)}
    BY DEF Range
  <1>5. OfKinds({"metadata"}) # << >> /\ OfKinds({"sol", "vy"}) # << >>
    <2>1. PICK m \in Range(files) : m.kind = "metadata"
      BY ONLY <1>1, <1>4
    <2>2. PICK f \in Range(files) : f.kind = "sol"
      BY ONLY <1>1, <1>4
    <2> HIDE DEF OfKinds, files
    <2>3. m \in Range(OfKinds({"metadata"})) /\ f \in Range(OfKinds({"sol", "vy"}))
      BY <1>3, <2>1, <2>2
    <2>4. \A s : s = << >> => Range(s) = {}
      BY DEF Range
    <2>5. QED
      BY <2>3, <2>4
  <1>6. \A j \in DOMAIN OfKinds({"sol", "vy"}) : OfKinds({"sol", "vy"})[j].kind # "vy"
    <2> HIDE DEF OfKinds, files
    <2>1. \A f \in Range(OfKinds({"sol", "vy"})) : f \in Range(files)
      BY <1>3
    <2>2. \A f \in Range(OfKinds({"sol", "vy"})) : f.kind # "vy"
      <3>1. \A f \in Range(files) : f.kind \in kinds
        BY ONLY <1>4
      <3>2. QED
        BY ONLY <1>1, <2>1, <3>1
    <2>3. \A j \in DOMAIN OfKinds({"sol", "vy"}) : OfKinds({"sol", "vy"})[j] \in Range(OfKinds({"sol", "vy"}))
      BY DEF Range
    <2>4. QED
      BY <2>2, <2>3
  <1>a. IsMetadata(Last(OfKinds({"metadata"})).text)
    <2>1. OfKinds({"metadata"}) \in Seq(Range(files))
      <3>1. ASSUME NEW k PROVE OfKinds(k) \in Seq(Range(files))
        BY <1>2, OnlyIs
      <3>2. QED
        BY ONLY <3>1
    <2> HIDE DEF OfKinds, files
    <2> DEFINE metadata == OfKinds({"metadata"})
               n == Len(metadata)
    <2>2. n \in 1..n /\ DOMAIN metadata = 1..n
      BY <1>5, <2>1, EmptySeq
    <2>3. Last(metadata) = metadata[n]
      BY DEF Last
    <2>4. Last(metadata) \in Range(metadata)
      BY <2>2, <2>3 DEF Range
    <2> HIDE DEF metadata
    <2>5. Last(metadata) \in Range(files) /\ Last(metadata).kind = "metadata"
      BY <1>3, <2>4 DEF metadata
    <2>6. QED
      BY <2>5 DEF files, metadata
  <1>7. hits # {} /\ Min(hits) \in DOMAIN out.contracts
        /\ DOMAIN picked.code # {} /\ picked.srcmap # << >> /\ picked.linked
    <2>1. DOMAIN out.contracts \subseteq Nat
      BY <1>2
    <2>2. CASE preferred # None
      <3>1. hits = {i}
        BY <2>2 DEF PickContract, IsUsable
      <3>2. Min(hits) = i
        BY <2>1, <3>1 DEF Min
      <3>3. QED
        BY <3>1, <3>2 DEF IsUsable, HasCode
    <2>3. CASE preferred = None
      <3> DEFINE runnable == {j \in DOMAIN out.contracts : DOMAIN out.contracts[j].code # {}}
      <3>1. hits = runnable /\ i \in runnable
        BY <2>3 DEF PickContract, IsUsable, HasCode
      <3>2. hits # {} /\ hits \in SUBSET Nat
        BY <2>1, <3>1
      <3> DEFINE first == Min(hits)
      <3>3. first \in hits
        BY ONLY <3>2, MinIs
      <3>4. first \in runnable
        BY ONLY <3>1, <3>3
      <3> HIDE DEF first, hits
      <3>5. first \in DOMAIN out.contracts /\ DOMAIN out.contracts[first].code # {}
        BY ONLY <3>4
      <3>6. out.contracts[first] \in Range(out.contracts)
        BY <3>5 DEF Range
      <3>7. out.contracts[first].srcmap # << >>
        BY <3>5, <3>6, ReportAssumption DEF IsInput
      <3>a. out.contracts[first].linked
        BY <2>3, <3>5, <3>7 DEF IsUsable, HasCode
      <3>8. hits # {} /\ first \in DOMAIN out.contracts
            /\ DOMAIN out.contracts[first].code # {} /\ out.contracts[first].srcmap # << >>
            /\ out.contracts[first].linked
        BY ONLY <3>2, <3>5, <3>7, <3>a
      <3>9. QED
        BY ONLY <3>8 DEF first
    <2>4. QED
      BY <2>2, <2>3
  <1> DEFINE bundle == [is |-> "start", metadata |-> OfKinds({"metadata"}), sources |-> OfKinds({"sol", "vy"})]
  <1>8. FetchSourcifyFiles(response) = bundle
    BY DEF FetchSourcifyFiles, ParseSourcifyResponse, IsSuccess
  <1> HIDE DEF OfKinds, hits
  <1>9. CompileSourcifyBundle(bundle, out, preferred).is = "start"
    BY <1>5, <1>6, <1>7, <1>a DEF CompileSourcifyBundle, hits
  <1>10. FetchContractSource(response, out, preferred) = CompileSourcifyBundle(bundle, out, preferred)
    BY <1>8 DEF FetchContractSource
  <1>11. QED
    BY <1>9, <1>10

\* Whatever Sourcify answers and solc reports, a verified contract that can be
\* recorded is: fetching (source_fetcher.rs:552, 583) fails for none of them.
THEOREM VerifiedIsRecorded == Spec => []VerifiedRecorded
  <1> DEFINE Inv == InputIs /\ VerifiedRecorded
  <1>1. Init => Inv
    <2>1. SUFFICES ASSUME Init PROVE InputIs /\ pc = "artifacts"
      BY DEF VerifiedRecorded
    <2>2. QED
      BY <2>1 DEF Init, InputIs, IsInput
  <1>2. Inv /\ [Next]_vars => Inv'
    <2>1. SUFFICES ASSUME InputIs, VerifiedRecorded, [Next]_vars PROVE InputIs' /\ VerifiedRecorded'
      OBVIOUS
    <2>2. InputIs'
      BY <2>1, InputIsStays
    <2>3. origin' = origin /\ response' = response /\ out' = out /\ preferred' = preferred
      BY <2>1, HandedStays
    <2> DEFINE usable == {i \in DOMAIN out.contracts : IsUsable(i)}
               kinds == {response.files[i].kind : i \in DOMAIN response.files}
               May(at) ==
                   /\ at = "failed" /\ usable # {} /\ out.success =>
                         \/ ~IsSuccess(response.http) \/ response.status \notin {"full", "partial"}
                         \/ "metadata" \notin kinds \/ "sol" \notin kinds \/ "vy" \in kinds
                         \/ \E f \in Range(response.files) : f.kind = "metadata" /\ ~IsMetadata(f.text)
                   /\ at = "none" => response.http = 404
    <2>a. May(pc)
      BY <2>1 DEF VerifiedRecorded, IsUsable, HasCode
    <2>b. May(pc') => VerifiedRecorded'
      BY <2>3 DEF VerifiedRecorded, IsUsable, HasCode
    <2> HIDE DEF May
    <2>4. ASSUME pc' = pc PROVE VerifiedRecorded'
      BY <2>a, <2>b, <2>4
    <2>5. ASSUME pc' \in {"start", "steps"} PROVE VerifiedRecorded'
      BY <2>b, <2>5 DEF May
    <2>6. CASE RecordVerified
      <3> DEFINE a == FetchContractSource(response, out, preferred)
      <3>1. a.is # "start" => pc' = a.is
        BY <2>6 DEF RecordVerified, Stops
      <3>2. a.is = "start" => pc' = "start"
        BY <2>6 DEF RecordVerified, Given
      <3>3. a.is = "none" => response.http = 404
        BY DEF FetchContractSource, FetchSourcifyFiles, ParseSourcifyResponse, CompileSourcifyBundle,
               Missing, Failed
      <3> HIDE DEF a
      <3>4. PICK input \in Inputs : IsInput(input)
        BY <2>1 DEF InputIs
      <3>5. ASSUME a.is = "failed", usable # {}, out.success
            PROVE  \/ ~IsSuccess(response.http) \/ response.status \notin {"full", "partial"}
                   \/ "metadata" \notin kinds \/ "sol" \notin kinds \/ "vy" \in kinds
                   \/ \E f \in Range(response.files) : f.kind = "metadata" /\ ~IsMetadata(f.text)
        <4>1. PICK i \in DOMAIN out.contracts : IsUsable(i)
          BY <3>5
        <4>2. SUFFICES ASSUME IsSuccess(response.http), response.status \in {"full", "partial"},
                              \A f \in Range(response.files) : f.kind = "metadata" => IsMetadata(f.text)
                       PROVE  "metadata" \notin kinds \/ "sol" \notin kinds \/ "vy" \in kinds
          OBVIOUS
        <4>3. FetchContractSource(response, out, preferred).is = "failed"
          BY <3>5 DEF a
        <4>4. QED
          BY <3>4, <3>5, <4>1, <4>2, <4>3, FetchFails
      <3> HIDE DEF usable, kinds
      <3>6. May(pc')
        BY <3>1, <3>2, <3>3, <3>5 DEF May
      <3>7. QED
        BY <2>2, <2>b, <3>6
    <2>7. QED
      BY <2>1, <2>2, <2>4, <2>5, <2>6, HandedStays
  <1>3. QED
    BY <1>1, <1>2, PTL DEF Spec
-----------------------------------------------------------------------------
(* What is handed to the recorder. *)

\* A path and a text for each file of a non-empty list of files.
HandsFiles(paths, texts) ==
    /\ paths \in Seq(Nat) /\ texts \in Seq(Text) /\ Len(paths) = Len(texts) /\ Len(paths) \in Nat \ {0}
    /\ \A i \in 1..Len(paths) : \E f \in SolFiles : paths[i] = f.path /\ texts[i] = f.text

\* The bytecode and the map of a contract of the report.
HandsCode(code, srcmap) == \E c \in Range(out.contracts) : code = c.code /\ srcmap = c.srcmap

\* A function from the first numbers is a sequence.
LEMMA Mapping ==
    ASSUME NEW A, NEW n \in Nat, NEW s \in [1..n -> A]
    PROVE  s \in Seq(A) /\ Len(s) = n
  OBVIOUS

\* The paths and texts of a list of files.
LEMMA HandsThem ==
    ASSUME NEW input \in Inputs, IsInput(input),
           NEW sources \in Seq(SolFiles), sources # << >>,
           NEW paths, paths = [i \in DOMAIN sources |-> sources[i].path],
           NEW texts, texts = [i \in DOMAIN sources |-> sources[i].text]
    PROVE  HandsFiles(paths, texts)
  <1> DEFINE n == Len(sources)
  <1>1. n \in Nat \ {0} /\ DOMAIN sources = 1..n /\ \A i \in 1..n : sources[i] \in SolFiles
    BY EmptySeq
  <1> HIDE DEF n
  <1>2. \A f \in SolFiles : f.path \in Nat /\ f.text \in Text
    BY ResponseAssumption DEF IsInput, SolFiles, Text
  <1>3. paths \in [1..n -> Nat] /\ texts \in [1..n -> Text]
    BY <1>1, <1>2
  <1>4. paths \in Seq(Nat) /\ texts \in Seq(Text) /\ Len(paths) = n /\ Len(texts) = n
    BY ONLY <1>1, <1>3, Mapping
  <1>5. \A i \in 1..n : paths[i] = sources[i].path /\ texts[i] = sources[i].text
    BY <1>1
  <1>6. \A i \in 1..n : \E f \in SolFiles : paths[i] = f.path /\ texts[i] = f.text
    BY <1>1, <1>5
  <1>7. QED
    BY <1>1, <1>4, <1>6 DEF HandsFiles

\* What is fetched comes from the answer and from the report.
LEMMA Fetched ==
    ASSUME NEW input \in Inputs, IsInput(input),
           NEW a, a = FetchContractSource(response, out, preferred), a.is = "start"
    PROVE  HandsCode(a.code, a.srcmap) /\ HandsFiles(a.paths, a.texts)
  <1> DEFINE files == response.files
             OfKinds(k) == Only(files, {f \in Range(files) : f.kind \in k})
             hits == PickContract(out.contracts, preferred)
             picked == out.contracts[Min(hits)]
             sources == OfKinds({"sol", "vy"})
             bundle == [is |-> "start", metadata |-> OfKinds({"metadata"}), sources |-> sources]
             solc == CompileSourcifyBundle(bundle, out, preferred)
  <1>1. FetchSourcifyFiles(response) \in {Missing, Failed, bundle}
    BY DEF FetchSourcifyFiles, ParseSourcifyResponse
  <1>2. FetchSourcifyFiles(response) = bundle /\ a = solc
    <2> HIDE DEF bundle, solc
    <2>1. ASSUME FetchSourcifyFiles(response) \in {Missing, Failed} PROVE FALSE
      BY <2>1 DEF FetchContractSource, Missing, Failed
    <2>2. FetchSourcifyFiles(response) = bundle
      BY <1>1, <2>1
    <2>3. bundle.is = "start"
      BY DEF bundle
    <2>4. QED
      BY <2>2, <2>3 DEF FetchContractSource, solc
  <1> HIDE DEF OfKinds, hits
  <1> DEFINE got == [is |-> "start", code |-> picked.code, srcmap |-> picked.srcmap,
                     flags |-> Flags(ParseMetadataSettings(Last(bundle.metadata).text)),
                     paths |-> [i \in DOMAIN sources |-> sources[i].path],
                     texts |-> [i \in DOMAIN sources |-> sources[i].text]]
             stops == \/ bundle.metadata = << >> \/ sources = << >> \/ ~out.success
                      \/ ~IsMetadata(Last(bundle.metadata).text)
                      \/ (\E i \in DOMAIN sources : sources[i].kind = "vy")
                      \/ hits = {} \/ ~picked.linked \/ DOMAIN picked.code = {} \/ picked.srcmap = << >>
  <1>11. stops => solc = Failed
    BY DEF CompileSourcifyBundle, hits
  <1>12. ~stops => solc = got
    BY DEF CompileSourcifyBundle, hits
  <1>13. ~stops /\ a = got
    <2>1. a # Failed /\ a = solc
      BY <1>2 DEF Failed
    <2> HIDE DEF stops, solc, got
    <2>2. QED
      BY ONLY <1>11, <1>12, <2>1
  <1>3. /\ sources # << >> /\ \A i \in DOMAIN sources : sources[i].kind # "vy"
        /\ hits # {}
        /\ a.code = picked.code /\ a.srcmap = picked.srcmap
        /\ a.paths = [i \in DOMAIN sources |-> sources[i].path]
        /\ a.texts = [i \in DOMAIN sources |-> sources[i].text]
    <2>1. /\ sources # << >> /\ \A i \in DOMAIN sources : sources[i].kind # "vy"
          /\ hits # {}
      <3> HIDE DEF sources, picked, bundle, got
      <3>1. QED
        BY <1>13
    <2>2. /\ a.code = picked.code /\ a.srcmap = picked.srcmap
          /\ a.paths = [i \in DOMAIN sources |-> sources[i].path]
          /\ a.texts = [i \in DOMAIN sources |-> sources[i].text]
      <3> HIDE DEF sources, picked, bundle, stops
      <3>1. QED
        BY <1>13
    <2>3. QED
      BY ONLY <2>1, <2>2
  <1> HIDE DEF got, stops
  <1> HIDE DEF bundle, solc
  <1>4. files \in Seq(Range(files)) /\ out.contracts \in Seq(Range(out.contracts))
    BY ResponseAssumption, ReportAssumption DEF IsInput
  <1>5. HandsCode(a.code, a.srcmap)
    <2>1. DOMAIN out.contracts \subseteq Nat
      BY <1>4
    <2>2. hits \subseteq DOMAIN out.contracts
      BY DEF hits, PickContract
    <2>3. hits \in SUBSET Nat
      BY ONLY <2>1, <2>2
    <2>4. Min(hits) \in hits
      BY ONLY <1>3, <2>3, MinIs
    <2>5. picked \in Range(out.contracts)
      BY <2>2, <2>4 DEF Range
    <2> HIDE DEF picked
    <2>6. QED
      BY <1>3, <2>5 DEF HandsCode
  <1>6. sources \in Seq(SolFiles)
    <2>1. sources \in Seq(Range(files)) /\ Range(sources) = {f \in Range(files) : f.kind \in {"sol", "vy"}}
      <3>1. ASSUME NEW k PROVE OfKinds(k) \in Seq(Range(files))
                               /\ Range(OfKinds(k)) = {f \in Range(files) : f.kind \in k}
        BY <1>4, OnlyIs DEF OfKinds
      <3>2. QED
        BY ONLY <3>1
    <2> HIDE DEF sources
    <2>2. \A i \in DOMAIN sources : sources[i] \in Range(sources)
      BY DEF Range
    <2>3. \A i \in DOMAIN sources : sources[i] \in Range(files) /\ sources[i].kind \in {"sol", "vy"}
      BY ONLY <2>1, <2>2
    <2>4. \A i \in DOMAIN sources : sources[i] \in SolFiles
      BY ONLY <1>3, <2>3 DEF SolFiles
    <2>5. Len(sources) \in Nat /\ sources \in [1..Len(sources) -> Range(files)] /\ DOMAIN sources = 1..Len(sources)
      BY ONLY <2>1, LenProperties
    <2>6. sources \in [1..Len(sources) -> SolFiles]
      BY ONLY <2>4, <2>5
    <2>7. QED
      BY ONLY <2>5, <2>6, Mapping
  <1> HIDE DEF sources
  <1>7. HandsFiles(a.paths, a.texts)
    BY ONLY <1>3, <1>6, HandsThem, input \in Inputs, IsInput(input)
  <1>8. QED
    BY <1>5, <1>7

\* What the recorder was handed.
IsGiven ==
    /\ HandsFiles(given.paths, given.texts) /\ HandsCode(given.code, given.srcmap)
    /\ given.entries = IF origin = "yul" THEN SynthesizeSourceMap(given.srcmap) ELSE Parse(given.srcmap)
    /\ given.functions = IF origin = "yul" THEN << >> ELSE FromCombinedJson(out.units)
GivenIs == pc \in {"start", "steps"} => IsGiven

\* What a handing over establishes.
LEMMA Handing ==
    ASSUME NEW artifacts, NEW entries, Given(artifacts, entries),
           HandsFiles(artifacts.paths, artifacts.texts), HandsCode(artifacts.code, artifacts.srcmap),
           entries = IF origin = "yul" THEN SynthesizeSourceMap(artifacts.srcmap)
                                       ELSE Parse(artifacts.srcmap)
    PROVE  IsGiven'
  <1>1. /\ given'.paths = artifacts.paths /\ given'.texts = artifacts.texts
        /\ given'.code = artifacts.code /\ given'.srcmap = artifacts.srcmap
        /\ given'.entries = entries
        /\ given'.functions = IF origin = "yul" THEN << >> ELSE FromCombinedJson(out.units)
        /\ origin' = origin /\ response' = response /\ out' = out
    BY DEF Given
  <1>2. HandsFiles(given.paths, given.texts)'
    BY <1>1 DEF HandsFiles, SolFiles
  <1>3. HandsCode(given.code, given.srcmap)'
    BY <1>1 DEF HandsCode
  <1>4. QED
    BY <1>1, <1>2, <1>3 DEF IsGiven

\* Each origin hands over such artifacts, and they stay as they are.
LEMMA GivenStays == ASSUME InputIs, GivenIs, [Next]_vars PROVE GivenIs'
  <1>1. PICK input \in Inputs : IsInput(input)
    BY DEF InputIs
  <1>2. ASSUME NEW file \in SolFiles, out.contracts # << >>, NEW entries,
               Given(OneFile(file, out.contracts[1]), entries),
               entries = IF origin = "yul" THEN SynthesizeSourceMap(out.contracts[1].srcmap)
                                           ELSE Parse(out.contracts[1].srcmap)
        PROVE  IsGiven'
    <2> DEFINE artifacts == OneFile(file, out.contracts[1])
               sources == << file >>
    <2>1. out.contracts \in Seq(Range(out.contracts))
      BY <1>1, ReportAssumption DEF IsInput
    <2>2. out.contracts[1] \in Range(out.contracts)
      BY <1>2, <2>1, EmptySeq DEF Range
    <2>3. HandsCode(artifacts.code, artifacts.srcmap)
      BY <2>2 DEF HandsCode, OneFile
    <2>4. sources \in Seq(SolFiles) /\ sources # << >>
      OBVIOUS
    <2>5. /\ artifacts.paths = [i \in DOMAIN sources |-> sources[i].path]
          /\ artifacts.texts = [i \in DOMAIN sources |-> sources[i].text]
      BY DEF OneFile
    <2>6. HandsFiles(artifacts.paths, artifacts.texts)
      <3> HIDE DEF sources, artifacts
      <3>1. QED
        BY ONLY <1>1, <2>4, <2>5, HandsThem
    <2>7. artifacts.srcmap = out.contracts[1].srcmap
      BY DEF OneFile
    <2> HIDE DEF artifacts
    <2>8. QED
      BY <1>2, <2>3, <2>6, <2>7, Handing DEF artifacts
  <1>3. CASE RecordFile
    BY <1>2, <1>3 DEF RecordFile, GivenIs
  <1>4. CASE RecordYul
    BY <1>2, <1>4 DEF RecordYul, GivenIs
  <1>5. CASE RecordVerified
    <2> DEFINE a == FetchContractSource(response, out, preferred)
    <2>1. ASSUME a.is # "start" PROVE pc' = a.is
      BY <1>5, <2>1 DEF RecordVerified, Stops
    <2>2. ASSUME a.is = "start" PROVE Given(a, Parse(a.srcmap)) /\ origin # "yul"
      BY <1>5, <2>2 DEF RecordVerified
    <2>3. a.is \in {"start", "none", "failed"}
      BY DEF FetchContractSource, FetchSourcifyFiles, ParseSourcifyResponse, CompileSourcifyBundle,
             Missing, Failed
    <2> HIDE DEF a
    <2>4. ASSUME a.is = "start" PROVE HandsCode(a.code, a.srcmap) /\ HandsFiles(a.paths, a.texts)
      BY <1>1, <2>4, Fetched DEF a
    <2>5. ASSUME a.is = "start" PROVE IsGiven'
      BY <2>2, <2>4, <2>5, Handing
    <2>6. QED
      BY <2>1, <2>3, <2>5 DEF GivenIs
  <1>6. ASSUME pc \in {"start", "steps"}, UNCHANGED << origin, response, out, given >> PROVE IsGiven'
    BY <1>6 DEF GivenIs, IsGiven, HandsFiles, HandsCode, SolFiles
  <1>7. CASE Start
    BY <1>6, <1>7 DEF Start, handed, GivenIs
  <1>8. ASSUME NEW at \in DOMAIN given.code, pc = "steps", Process(at) PROVE GivenIs'
    BY <1>6, <1>8 DEF Process, handed, GivenIs
  <1>9. CASE UNCHANGED vars
    BY <1>6, <1>9 DEF vars, handed, GivenIs
  <1>10. QED
    BY <1>3, <1>4, <1>5, <1>7, <1>8, <1>9 DEF Next

-----------------------------------------------------------------------------
(* Steps. *)

\* A line table is a list of lengths.
LEMMA LengthsType == ASSUME NEW text \in Text PROVE LineLengths(text) \in Seq(Nat)
  <1>1. PICK g : LengthScan(g, text) /\ LineLengths(text) = LengthsAt(g[Len(text)])
    BY LengthsScan
  <1>2. Len(text) \in Nat
    BY DEF Text
  <1>3. g[Len(text)] \in Tables
    BY <1>1, <1>2 DEF LengthScan
  <1>4. QED
    BY <1>1, <1>3 DEF LengthsAt, Tables

\* The file and the place of a located program counter are those of its entry.
LEMMA Resolved ==
    ASSUME NEW entries, NEW code, NEW at, NEW texts,
           ResolvePc(entries, code, at, texts) # None
    PROVE  LET location == ResolvePc(entries, code, at, texts)
               entry == EntryForPc(entries, code, at)
               text == texts[entry.file + 1]
               place == OffsetToLineCol(text, entry.offset)
           IN  /\ entry # None /\ entry.file \in 0..(Len(texts) - 1) /\ entry.offset \in 0..Size(text)
               /\ location.file = entry.file
               /\ location.line = place.line /\ location.column = place.column
  BY DEF ResolvePc

\* Files of the same path have the same text.
LEMMA OneText ==
    ASSUME InputIs, IsGiven,
           NEW i \in 1..Len(given.paths), NEW j \in 1..Len(given.paths), given.paths[i] = given.paths[j]
    PROVE  given.texts[i] = given.texts[j]
  <1>1. PICK f \in SolFiles : given.paths[i] = f.path /\ given.texts[i] = f.text
    BY DEF IsGiven, HandsFiles
  <1>2. PICK g \in SolFiles : given.paths[j] = g.path /\ given.texts[j] = g.text
    BY DEF IsGiven, HandsFiles
  <1>3. \A s, t \in SolFiles : s.path = t.path => s = t
    BY ResponseAssumption DEF InputIs, IsInput, SolFiles
  <1>4. QED
    BY <1>1, <1>2, <1>3

\* A path that has a table has that of its text, or the writer rejected it.
TableOf(p) == \E i \in 1..Len(given.paths) :
    given.paths[i] = p /\ tables[p] \in {Err, LineLengths(given.texts[i])}
TablesAre ==
    /\ registered = DOMAIN tables
    /\ pc # "steps" => tables = [p \in {} |-> None]
    /\ \A p \in DOMAIN tables : TableOf(p)

\* The last step is at the place of its program counter, in a registered path.
StepIs ==
    step # None =>
        LET location == ResolvePc(given.entries, given.code, step.at, given.texts)
        IN  /\ pc = "steps" /\ location # None
            /\ step.path = given.paths[location.file + 1] /\ step.path \in DOMAIN tables
            /\ step.line = location.line /\ step.column = location.column + 1

\* Using a path keeps the tables true, and registers the path: its table is offered
\* before the path is interned without one (recorder.rs:398, 507).
LEMMA UsesKeeps ==
    ASSUME TablesAre, NEW i \in 1..Len(given.paths), NEW accepted \in BOOLEAN, given' = given, pc' = "steps",
           Uses(given.paths[i], given.texts[i], accepted)
    PROVE  TablesAre' /\ DOMAIN tables' = DOMAIN tables \cup {given.paths[i]}
  <1> DEFINE path == given.paths[i]
  <1>1. CASE path \in DOMAIN tables
    <2>1. tables' = tables /\ registered' = registered
      BY <1>1 DEF Uses, EnsurePathWithLineLengths, Interned, TablesAre
    <2>2. \A p : TableOf(p) => TableOf(p)'
      BY <2>1 DEF TableOf
    <2>3. QED
      BY <1>1, <2>1, <2>2 DEF TablesAre
  <1>2. CASE path \notin DOMAIN tables
    <2>1. /\ DOMAIN tables' = DOMAIN tables \cup {path} /\ registered' = DOMAIN tables'
          /\ \A p \in DOMAIN tables : p # path /\ tables'[p] = tables[p]
          /\ tables'[path] \in {Err, LineLengths(given.texts[i])}
      <3> DEFINE offered == IF accepted THEN LineLengths(given.texts[i]) ELSE Err
                 known == Interned(tables, path, offered)
      <3>1. EnsurePathWithLineLengths(tables, path, given.texts[i], accepted) = known
        BY <1>2 DEF EnsurePathWithLineLengths, TablesAre
      <3>2. known = [p \in DOMAIN tables \cup {path} |-> IF p = path THEN offered ELSE tables[p]]
        BY <1>2 DEF Interned
      <3>3. tables' = known /\ registered' = registered \cup {path}
        BY <3>1, <3>2 DEF Uses, Interned
      <3> HIDE DEF known
      <3>4. QED
        BY <1>2, <3>2, <3>3 DEF TablesAre
    <2>2. \A p \in DOMAIN tables : TableOf(p)'
      BY <2>1 DEF TablesAre, TableOf
    <2>3. TableOf(path)'
      BY <2>1 DEF TableOf
    <2>4. QED
      BY <2>1, <2>2, <2>3 DEF TablesAre
  <1>3. QED
    BY <1>1, <1>2

\* Every action keeps the tables and the last step as they should be.
LEMMA StepStays ==
    ASSUME InputIs, GivenIs, TablesAre, StepIs, [Next]_vars
    PROVE  TablesAre' /\ StepIs'
  <1>1. ASSUME pc # "steps", pc' # "steps", UNCHANGED writer PROVE TablesAre' /\ StepIs'
    <2>1. tables = [p \in {} |-> None] /\ tables' = tables /\ registered' = registered /\ step' = step
          /\ step = None
      BY <1>1 DEF writer, TablesAre, StepIs
    <2>2. DOMAIN tables' = {}
      BY <2>1
    <2>3. QED
      BY <2>1, <2>2 DEF TablesAre, StepIs
  <1>2. ASSUME pc = "steps", UNCHANGED << given, pc, writer >> PROVE TablesAre' /\ StepIs'
    <2>1. given' = given /\ tables' = tables /\ registered' = registered /\ step' = step /\ pc' = pc
      BY <1>2 DEF writer
    <2>2. QED
      BY <2>1 DEF TablesAre, StepIs, TableOf
  <1>3. CASE RecordFile
    BY <1>1, <1>3 DEF RecordFile, Given
  <1>4. CASE RecordYul
    BY <1>1, <1>4 DEF RecordYul, Given
  <1>5. CASE RecordVerified
    <2> DEFINE a == FetchContractSource(response, out, preferred)
    <2>1. a.is \in {"start", "none", "failed"}
      BY DEF FetchContractSource, FetchSourcifyFiles, ParseSourcifyResponse, CompileSourcifyBundle,
             Missing, Failed
    <2>2. pc # "steps" /\ UNCHANGED writer /\ pc' \in {a.is, "start"}
      BY <1>5 DEF RecordVerified, Stops, Given
    <2> HIDE DEF a
    <2>3. QED
      BY <1>1, <2>1, <2>2
  <1>6. CASE Start
    <2>1. PICK accepted \in BOOLEAN : Uses(given.paths[1], given.texts[1], accepted)
      BY <1>6 DEF Start
    <2>2. 1 \in 1..Len(given.paths)
      BY <1>6 DEF Start, GivenIs, IsGiven, HandsFiles
    <2>3. given' = given /\ pc' = "steps" /\ step' = step /\ step = None
      BY <1>6 DEF Start, handed, StepIs
    <2>4. TablesAre'
      BY <2>1, <2>2, <2>3, UsesKeeps
    <2>5. QED
      BY <2>3, <2>4 DEF StepIs
  <1>7. ASSUME NEW at \in DOMAIN given.code, Process(at)
        PROVE  TablesAre' /\ StepIs'
    <2> DEFINE location == ResolvePc(given.entries, given.code, at, given.texts)
               path == given.paths[location.file + 1]
    <2>1. pc = "steps" /\ pc' = pc /\ given' = given
      BY <1>7 DEF Process, handed
    <2>2. CASE location = None \/ location = prev_line
      BY <1>2, <1>7, <2>1, <2>2 DEF Process
    <2>3. CASE ~(location = None \/ location = prev_line)
      <3>1. PICK accepted \in BOOLEAN :
               Uses(path, given.texts[location.file + 1], accepted)
        BY <1>7, <2>3 DEF Process
      <3>2. step' = [at |-> at, path |-> path, line |-> location.line, column |-> location.column + 1]
        BY <1>7, <2>3 DEF Process
      <3>3. location.file + 1 \in 1..Len(given.paths)
        <4>1. Len(given.texts) = Len(given.paths) /\ Len(given.texts) \in Nat
          BY <2>1 DEF GivenIs, IsGiven, HandsFiles
        <4>2. location.file \in 0..(Len(given.texts) - 1)
          BY <2>3, Resolved
        <4>3. QED
          BY ONLY <4>1, <4>2
      <3>4. TablesAre' /\ path \in DOMAIN tables'
        BY <2>1, <3>1, <3>3, UsesKeeps
      <3>5. location # None
        BY <2>3
      <3>6. step'.at = at /\ step'.path = path /\ step'.line = location.line
            /\ step'.column = location.column + 1
        BY <3>2
      <3> HIDE DEF location
      <3>7. ResolvePc(given'.entries, given'.code, step'.at, given'.texts) = location
        BY <2>1, <3>6 DEF location
      <3>8. QED
        BY <2>1, <3>4, <3>5, <3>6, <3>7 DEF StepIs
    <2>4. QED
      BY <2>2, <2>3
  <1>8. CASE UNCHANGED vars
    BY <1>1, <1>2, <1>8 DEF vars, handed
  <1>9. QED
    BY <1>3, <1>4, <1>5, <1>6, <1>7, <1>8 DEF Next

\* No step is outside of the line table of its path, and no path is without a
\* table the writer was offered (recorder.rs:313, 398), for all texts and maps.
THEOREM StepsInTables == Spec => []StepInTable
  <1> DEFINE Inv == InputIs /\ GivenIs /\ TablesAre /\ StepIs
  <1>1. Init => Inv
    <2> SUFFICES ASSUME Init PROVE Inv
      OBVIOUS
    <2>1. InputIs
      BY DEF Init, InputIs, IsInput
    <2>2. GivenIs /\ TablesAre /\ StepIs
      BY DEF Init, GivenIs, TablesAre, StepIs
    <2>3. QED
      BY <2>1, <2>2
  <1>2. Inv /\ [Next]_vars => Inv'
    BY InputIsStays, GivenStays, StepStays
  <1>3. Inv => StepInTable
    <2> SUFFICES ASSUME Inv PROVE StepInTable
      OBVIOUS
    <2>1. ASSUME NEW p \in DOMAIN tables PROVE tables[p] # None
      <3>1. pc = "steps"
        BY DEF TablesAre
      <3>2. PICK i \in 1..Len(given.paths) : tables[p] \in {Err, LineLengths(given.texts[i])}
        BY DEF TablesAre, TableOf
      <3>3. given.texts[i] \in Text
        BY <3>1 DEF GivenIs, IsGiven, HandsFiles
      <3>4. QED
        BY <3>2, <3>3, LengthsType, NoneAssumption, LocationsAssumption
    <2> DEFINE table == tables[step.path]
               chosen == CHOOSE i \in DOMAIN given.paths : given.paths[i] = step.path
               entry == EntryForPc(given.entries, given.code, step.at)
    <2>2. ASSUME step # None, table # Err, entry.offset < Size(given.texts[chosen])
          PROVE  step.line \in DOMAIN table /\ step.column \in 1..(table[step.line] + 1)
      <3> DEFINE location == ResolvePc(given.entries, given.code, step.at, given.texts)
                 own == entry.file + 1
                 text == given.texts[own]
                 place == OffsetToLineCol(text, entry.offset)
      <3>1. /\ pc = "steps" /\ location # None
            /\ step.path = given.paths[location.file + 1] /\ step.path \in DOMAIN tables
            /\ step.line = location.line /\ step.column = location.column + 1
        BY <2>2 DEF StepIs
      <3>2. entry.file \in 0..(Len(given.texts) - 1) /\ entry.offset \in 0..Size(text)
            /\ location.file = entry.file /\ location.line = place.line /\ location.column = place.column
        BY <3>1, Resolved
      <3> HIDE DEF location, entry
      <3>3. /\ IsGiven /\ DOMAIN given.paths = 1..Len(given.paths) /\ Len(given.paths) \in Nat
            /\ Len(given.texts) = Len(given.paths)
            /\ \A i \in 1..Len(given.paths) : given.texts[i] \in Text
        BY <3>1 DEF GivenIs, IsGiven, HandsFiles
      <3>4. own \in 1..Len(given.paths) /\ given.paths[own] = step.path
        BY <3>1, <3>2, <3>3
      <3>5. chosen \in 1..Len(given.paths) /\ given.paths[chosen] = step.path
        BY <3>3, <3>4
      <3>6. PICK i \in 1..Len(given.paths) :
               given.paths[i] = step.path /\ tables[step.path] \in {Err, LineLengths(given.texts[i])}
        BY <3>1 DEF TablesAre, TableOf
      <3> HIDE DEF own, chosen
      <3>7. given.texts[chosen] = text /\ given.texts[i] = text
        BY <3>3, <3>4, <3>5, <3>6, OneText
      <3>8. table = LineLengths(text)
        BY <2>2, <3>6, <3>7
      <3>9. text \in Text
        BY <3>3, <3>4
      <3>10. entry.offset \in Nat /\ entry.offset < Size(text)
        BY <2>2, <3>2, <3>7, <3>9
      <3>11. place \in Places /\ place.line \in DOMAIN table /\ place.column <= table[place.line]
        BY <3>8, <3>9, <3>10, PlaceInTable
      <3>12. table \in Seq(Nat)
        BY <3>8, <3>9, LengthsType
      <3> HIDE DEF place, table, text
      <3>13. place.line \in Nat /\ place.column \in Nat /\ table[place.line] \in Nat
        BY <3>11, <3>12 DEF Places
      <3>14. step.line = place.line /\ step.column = place.column + 1
        BY <3>1, <3>2
      <3>15. step.column \in 1..(table[place.line] + 1)
        BY ONLY <3>11, <3>13, <3>14
      <3>16. QED
        BY <3>11, <3>14, <3>15
    <2> HIDE DEF Inv
    <2>3. QED
      BY <2>1, <2>2 DEF StepInTable
  <1>4. QED
    BY <1>1, <1>2, <1>3, PTL DEF Spec

-----------------------------------------------------------------------------
(* The entries of a map. *)

Entries == [offset : Int, length : Int, file : Int, jump : Jumps]
Told(said, prev) == IF said = Kept THEN prev ELSE said
ParseStep(raw, i, prev) ==
    [offset |-> Told(raw[i].offset, prev.offset), length |-> Told(raw[i].length, prev.length),
     file |-> Told(raw[i].file, prev.file), jump |-> Told(raw[i].jump, prev.jump)]
EntryScan(f, raw) ==
    /\ f \in [0..Len(raw) -> Entries] /\ f[0] = DefaultEntry
    /\ \A i \in 1..Len(raw) : f[i] = ParseStep(raw, i, f[i - 1])

\* The parsed map (source_map.rs:59) is that scan.
LEMMA ParseScan ==
    ASSUME NEW raw, IsMap(raw)
    PROVE  \E f : EntryScan(f, raw) /\ Parse(raw) = [i \in 1..Len(raw) |-> f[i]]
  <1> DEFINE n == Len(raw)
             F == [p \in (1..n) \X Entries |-> ParseStep(raw, p[1], p[2])]
             z == DefaultEntry
             Eq(f) == f = [i \in 0..n |-> IF i = 0 THEN z ELSE ParseStep(raw, i, f[i - 1])]
  <1>1. n \in Nat /\ z \in Entries
    BY DEF IsMap, DefaultEntry, Entries, Jumps
  <1>2. \A i \in 1..n : \A s \in Entries : ParseStep(raw, i, s) \in Entries
    <2>1. ASSUME NEW i \in 1..n, NEW s \in Entries PROVE ParseStep(raw, i, s) \in Entries
      <3>1. raw[i] \in Range(raw)
        BY DEF IsMap, Range
      <3>2. raw[i].offset \in Int \cup {Kept} /\ raw[i].length \in Int \cup {Kept}
            /\ raw[i].file \in Int \cup {Kept} /\ raw[i].jump \in Jumps \cup {Kept}
        BY <3>1 DEF IsMap
      <3>3. s.offset \in Int /\ s.length \in Int /\ s.file \in Int /\ s.jump \in Jumps
        BY DEF Entries
      <3>4. /\ Told(raw[i].offset, s.offset) \in Int /\ Told(raw[i].length, s.length) \in Int
            /\ Told(raw[i].file, s.file) \in Int /\ Told(raw[i].jump, s.jump) \in Jumps
        BY ONLY <3>2, <3>3 DEF Told
      <3>5. QED
        BY <3>4 DEF ParseStep, Entries
    <2>2. QED
      BY <2>1
  <1>3. \A i \in 1..n : \A s \in Entries : F[<<i, s>>] = ParseStep(raw, i, s)
    OBVIOUS
  <1>4. StepsIn(F, n, Entries)
    BY <1>2, <1>3 DEF StepsIn
  <1> HIDE DEF F, n, z
  <1>5. \E g : IsScan(g, F, n, z, Entries)
    BY <1>1, <1>4, ScanExists
  <1>6. PICK g : g \in [0..n -> Entries] /\ g[0] = z /\ \A i \in 1..n : g[i] = F[<<i, g[i - 1]>>]
    BY <1>5 DEF IsScan
  <1>7. \A i \in 0..n : g[i] = IF i = 0 THEN z ELSE ParseStep(raw, i, g[i - 1])
    <2>1. \A i \in 0..n : i # 0 => i \in 1..n /\ i - 1 \in 0..n
      BY <1>1
    <2>2. QED
      BY <1>3, <1>6, <2>1
  <1>8. Eq(g)
    <2>1. g = [i \in 0..n |-> g[i]]
      BY <1>6
    <2>2. QED
      BY <1>7, <2>1
  <1> DEFINE Field(said, prev) == IF said = Kept THEN prev ELSE said
             entries[i \in 0..Len(raw)] ==
                 IF i = 0 THEN DefaultEntry
                 ELSE LET prev == entries[i - 1] IN
                      [offset |-> Field(raw[i].offset, prev.offset), length |-> Field(raw[i].length, prev.length),
                       file |-> Field(raw[i].file, prev.file), jump |-> Field(raw[i].jump, prev.jump)]
  <1>9. Eq(entries)
    BY <1>8 DEF n, z, ParseStep, Told
  <1>10. Parse(raw) = [i \in 1..n |-> entries[i]]
    BY DEF Parse, n
  <1> HIDE DEF entries
  <1>11. entries[0] = z
    BY <1>1, <1>9
  <1>12. \A i \in 1..n : entries[i] = ParseStep(raw, i, entries[i - 1])
    <2>1. \A i \in 1..n : i \in 0..n /\ i # 0
      BY <1>1
    <2>2. QED
      BY <1>9, <2>1
  <1>13. \A i \in 0..n : entries[i] \in Entries
    <2>1. \A i \in 1..n : entries[i - 1] \in Entries => entries[i] \in Entries
      BY <1>2, <1>12
    <2>2. entries[0] \in Entries
      BY <1>1, <1>11
    <2>3. QED
      BY ONLY <1>1, <2>1, <2>2, ScanStays
  <1>14. entries \in [0..n -> Entries]
    <2>1. entries = [j \in 0..n |-> entries[j]]
      BY <1>9
    <2>2. QED
      BY <1>13, <2>1
  <1>15. QED
    BY <1>10, <1>11, <1>12, <1>14 DEF EntryScan, n, z

\* A field that is kept when nothing is said has the last value it was given.
Telling(v, said, n, start) == v[0] = start /\ \A i \in 1..n : v[i] = Told(said[i], v[i - 1])

\* So it has after k parts.
LEMMA LastTold ==
    ASSUME NEW n \in Nat, NEW said, NEW v, NEW start, Telling(v, said, n, start)
    PROVE  \A k \in 0..n : v[k] = TrueField(said, k, start)
  <1> DEFINE In(k) == {i \in 1..k : said[i] # Kept}
             P == {k \in 0..n : v[k] = TrueField(said, k, start)}
  <1>1. 0 \in P
    <2>1. In(0) = {}
      OBVIOUS
    <2>2. QED
      BY <2>1 DEF TrueField, Telling
  <1>2. ASSUME NEW k \in 0..n, k + 1 \in 0..n, k \in P PROVE k + 1 \in P
    <2>1. k \in Nat /\ k + 1 \in 1..n /\ (k + 1) - 1 = k /\ v[k] = TrueField(said, k, start)
      BY <1>2
    <2>2. v[k + 1] = Told(said[k + 1], v[k])
      BY <2>1 DEF Telling
    <2>3. \A j : j \in 1..(k + 1) <=> j \in 1..k \/ j = k + 1
      BY <2>1
    <2>4. CASE said[k + 1] = Kept
      <3>1. In(k + 1) = In(k)
        BY <2>3, <2>4
      <3>2. TrueField(said, k + 1, start) = TrueField(said, k, start)
        BY <3>1 DEF TrueField
      <3>3. QED
        BY <1>2, <2>1, <2>2, <2>4, <3>2 DEF Told
    <2>5. CASE said[k + 1] # Kept
      <3>1. k + 1 \in In(k + 1) /\ In(k + 1) \subseteq 1..(k + 1) /\ k + 1 \in Nat
        BY <2>1, <2>3, <2>5
      <3> DEFINE S == In(k + 1)
      <3> HIDE DEF In
      <3>2. S \in SUBSET (1..(k + 1)) /\ S # {}
        BY <3>1
      <3> HIDE DEF S
      <3>3. Max(S) \in S /\ \A j \in S : j <= Max(S)
        BY ONLY <3>1, <3>2, MaxIs
      <3>4. Max(S) = k + 1
        <4>1. Max(S) \in 1..(k + 1) /\ k + 1 <= Max(S)
          BY <3>1, <3>2, <3>3 DEF S
        <4>2. QED
          BY ONLY <4>1, <2>1
      <3>5. TrueField(said, k + 1, start) = said[k + 1]
        <4>1. S # {} /\ S = {i \in 1..(k + 1) : said[i] # Kept}
          BY <3>2 DEF S, In
        <4>2. QED
          BY ONLY <3>4, <4>1 DEF TrueField
      <3>6. QED
        BY <1>2, <2>2, <2>5, <3>5 DEF Told
    <2>6. QED
      BY <2>4, <2>5
  <1>3. \A k \in 0..n : k \in P
    <2> HIDE DEF P
    <2>1. QED
      BY <1>1, <1>2, UpTo
  <1>4. QED
    BY <1>3

\* The entries of a raw map are what solc means by it.
LEMMA ParseIs ==
    ASSUME NEW raw, IsMap(raw)
    PROVE  /\ Len(raw) \in Nat /\ Len(Parse(raw)) = Len(raw)
           /\ \A k \in 1..Len(raw) :
                  /\ Parse(raw)[k] \in Entries
                  /\ Parse(raw)[k].offset = TrueField([i \in DOMAIN raw |-> raw[i].offset], k, 0)
                  /\ Parse(raw)[k].file = TrueField([i \in DOMAIN raw |-> raw[i].file], k, 0)
  <1> DEFINE n == Len(raw)
             offsets == [i \in DOMAIN raw |-> raw[i].offset]
             files == [i \in DOMAIN raw |-> raw[i].file]
  <1>1. n \in Nat /\ DOMAIN raw = 1..n
    BY DEF IsMap
  <1>2. PICK f : EntryScan(f, raw) /\ Parse(raw) = [i \in 1..n |-> f[i]]
    BY ParseScan
  <1>3. /\ f \in [0..n -> Entries] /\ f[0] = DefaultEntry
        /\ \A i \in 1..n : f[i] = ParseStep(raw, i, f[i - 1])
    BY <1>2 DEF EntryScan
  <1> HIDE DEF n
  <1>4. \A i \in 1..n : offsets[i] = raw[i].offset /\ files[i] = raw[i].file
    BY <1>1
  <1>5. \A i \in 1..n : i - 1 \in 0..n /\ i \in 0..n
    BY <1>1
  <1> DEFINE o == [i \in 0..n |-> f[i].offset]
             l == [i \in 0..n |-> f[i].file]
  <1>6. /\ \A i \in 1..n : o[i] = Told(offsets[i], o[i - 1])
        /\ \A i \in 1..n : l[i] = Told(files[i], l[i - 1])
    <2>1. ASSUME NEW i \in 1..n
          PROVE  o[i] = Told(offsets[i], o[i - 1]) /\ l[i] = Told(files[i], l[i - 1])
      <3>1. f[i] = ParseStep(raw, i, f[i - 1]) /\ i - 1 \in 0..n /\ i \in 0..n
        BY <1>3, <1>5
      <3>2. /\ o[i] = f[i].offset /\ o[i - 1] = f[i - 1].offset
            /\ l[i] = f[i].file /\ l[i - 1] = f[i - 1].file
        BY <3>1
      <3>3. offsets[i] = raw[i].offset /\ files[i] = raw[i].file
        BY <1>4
      <3> HIDE DEF o, l, offsets, files
      <3>4. /\ f[i].offset = Told(raw[i].offset, f[i - 1].offset)
            /\ f[i].file = Told(raw[i].file, f[i - 1].file)
        BY <3>1 DEF ParseStep
      <3>5. QED
        BY <3>2, <3>3, <3>4
    <2>2. QED
      BY <2>1
  <1>7. 0 \in 0..n
    BY <1>1
  <1>8. o[0] = 0 /\ l[0] = 0
    BY <1>3, <1>7 DEF DefaultEntry
  <1>9. \A i \in 1..n : o[i] = f[i].offset /\ l[i] = f[i].file
    BY <1>5
  <1> HIDE DEF o, l, offsets, files
  <1>9a. Telling(o, offsets, n, 0) /\ Telling(l, files, n, 0)
    BY <1>6, <1>8 DEF Telling
  <1>10. \A k \in 0..n : o[k] = TrueField(offsets, k, 0)
    BY ONLY <1>1, <1>9a, LastTold
  <1>11. \A k \in 0..n : l[k] = TrueField(files, k, 0)
    BY ONLY <1>1, <1>9a, LastTold
  <1>12. Len(Parse(raw)) = n /\ \A i \in 1..n : Parse(raw)[i] = f[i] /\ f[i] \in Entries
    <2>1. [i \in 1..n |-> f[i]] \in [1..n -> Entries]
      BY <1>3, <1>5
    <2>2. Len([i \in 1..n |-> f[i]]) = n
      BY ONLY <1>1, <2>1, Mapping
    <2>3. QED
      BY <1>2, <1>3, <1>5, <2>2
  <1>13. QED
    BY <1>1, <1>5, <1>9, <1>10, <1>11, <1>12 DEF n, offsets, files

\* Each number up to how many elements are counted is the count at one of them.
LEMMA CountReaches ==
    ASSUME NEW s, NEW T, NEW n \in Nat, NEW k \in 1..CountIn(s, T, n)
    PROVE  \E i \in 1..n : s[i] \in T /\ CountIn(s, T, i) = k
  <1> DEFINE C(i) == CountIn(s, T, i)
             S == {i \in 0..n : k <= C(i)}
  <1>1. \A i \in Nat : C(i) \in Nat /\ C(i + 1) = C(i) + (IF s[i + 1] \in T THEN 1 ELSE 0)
    BY CountNext
  <1>2. C(0) = 0
    BY CountNext
  <1>3. k \in Nat /\ k > 0 /\ k <= C(n)
    BY <1>1
  <1> HIDE DEF C
  <1>4. S \in SUBSET Nat /\ n \in S
    BY <1>3
  <1>5. PICK i \in S : \A j \in S : i <= j
    <2> HIDE DEF S
    <2>1. QED
      BY <1>4, LeastNumber
  <1>6. i \in 1..n /\ i - 1 \in 0..n /\ (i - 1) + 1 = i /\ ~(i <= i - 1)
    <2>1. i \in 0..n /\ i # 0
      BY <1>2, <1>3
    <2>2. QED
      BY ONLY <2>1, n \in Nat
  <1>7. ~(k <= C(i - 1)) /\ k <= C(i)
    BY <1>5, <1>6
  <1>8. C(i - 1) \in Nat /\ C(i) = C(i - 1) + (IF s[i] \in T THEN 1 ELSE 0)
    BY <1>1, <1>6
  <1>9. s[i] \in T /\ C(i) = k
    BY ONLY <1>3, <1>7, <1>8
  <1>10. QED
    BY <1>6, <1>9 DEF C

\* The entries of an assembly are those of its instructions, in their order.
LEMMA SynthesizeIs ==
    ASSUME NEW asm, IsAssembly(asm)
    PROVE  /\ Cardinality(Instructions(asm)) \in Nat
           /\ Len(SynthesizeSourceMap(asm)) = Cardinality(Instructions(asm))
           /\ \A k \in 1..Cardinality(Instructions(asm)) :
                  LET entry == SynthesizeSourceMap(asm)[k]
                      i == CHOOSE i \in Instructions(asm) : i - Labels(asm, i) = k
                  IN  entry \in Entries /\ entry.offset = asm[i].begin /\ entry.file = 0
  <1> DEFINE n == Len(asm)
             A == Range(asm)
             T == {asm[i] : i \in {j \in DOMAIN asm : asm[j].name # "tag"}}
             C(i) == CountIn(asm, T, i)
             kept == Only(asm, T)
             length(inst) == IF inst.end > inst.begin THEN inst.end - inst.begin ELSE 0
  <1>1. asm \in Seq(A) /\ n \in Nat /\ DOMAIN asm = 1..n
    BY DEF IsAssembly
  <1>2. \A i \in 1..n : asm[i] \in T <=> asm[i].name # "tag"
    BY <1>1
  <1> HIDE DEF n, T, A
  <1>3. Instructions(asm) = {j \in 1..n : asm[j] \in T}
    BY <1>1, <1>2 DEF Instructions
  <1>4. C(n) = Cardinality(Instructions(asm)) /\ C(n) \in Nat
    BY <1>1, <1>3, CountNext DEF CountIn
  <1>5. /\ kept \in Seq(A) /\ Len(kept) = C(n)
        /\ \A i \in 1..n : asm[i] \in T => kept[C(i)] = asm[i]
    BY <1>1, OnlyIs DEF n
  <1>6. SynthesizeSourceMap(asm) =
            [i \in DOMAIN kept |-> [offset |-> kept[i].begin, length |-> length(kept[i]),
                                    file |-> 0, jump |-> kept[i].jump]]
    BY DEF SynthesizeSourceMap, T
  <1>7. ASSUME NEW i \in 1..n PROVE i - Labels(asm, i) = C(i)
    <2> DEFINE I == {j \in 1..i : asm[j] \in T}
               L == {j \in 1..i : asm[j].name = "tag"}
    <2>1. I \cup L = 1..i /\ I \cap L = {} /\ I \subseteq 1..i /\ L \subseteq 1..i
      <3>1. \A j \in 1..i : j \in 1..n
        BY <1>1
      <3>2. \A j \in 1..i : asm[j] \in T <=> asm[j].name # "tag"
        BY <1>2, <3>1
      <3>3. QED
        BY ONLY <3>2
    <2>2. i \in Nat
      BY <1>1
    <2>3. IsFiniteSet(1..i) /\ Cardinality(1..i) = i
      BY <2>2, FS_Interval
    <2> HIDE DEF I, L
    <2>4. IsFiniteSet(I) /\ IsFiniteSet(L)
      BY <2>1, <2>3, FS_Subset
    <2>5. Cardinality(I) \in Nat /\ Cardinality(L) \in Nat /\ Cardinality(I \cap L) = 0
      BY <2>1, <2>4, FS_CardinalityType, FS_EmptySet
    <2>6. Cardinality(I \cup L) = Cardinality(I) + Cardinality(L) - Cardinality(I \cap L)
      BY <2>4, FS_Union
    <2>7. i = Cardinality(I) + Cardinality(L)
      <3>1. Cardinality(I \cup L) = i
        BY ONLY <2>1, <2>3
      <3>2. QED
        BY ONLY <2>2, <2>5, <2>6, <3>1
    <2>8. Labels(asm, i) = Cardinality(L) /\ C(i) = Cardinality(I)
      BY DEF Labels, CountIn, I, L
    <2>9. QED
      BY <2>2, <2>5, <2>7, <2>8
  <1>8. DOMAIN kept = 1..C(n)
    BY <1>5
  <1> HIDE DEF kept
  <1>9. ASSUME NEW k \in 1..C(n)
        PROVE  LET entry == SynthesizeSourceMap(asm)[k]
                   i == CHOOSE i \in Instructions(asm) : i - Labels(asm, i) = k
               IN  entry \in Entries /\ entry.offset = asm[i].begin /\ entry.file = 0
    <2> DEFINE i == CHOOSE i \in Instructions(asm) : i - Labels(asm, i) = k
               entry == SynthesizeSourceMap(asm)[k]
    <2>1. \E j \in 1..n : asm[j] \in T /\ C(j) = k
      BY <1>1, CountReaches
    <2> HIDE DEF C
    <2>2. \E j \in Instructions(asm) : j - Labels(asm, j) = k
      BY <1>3, <1>7, <2>1
    <2>3. i \in Instructions(asm) /\ i - Labels(asm, i) = k
      BY <2>2
    <2> HIDE DEF i
    <2>4. i \in 1..n /\ asm[i] \in T /\ C(i) = k
      BY <1>3, <1>7, <2>3
    <2>5. kept[k] = asm[i]
      BY <1>5, <2>4
    <2>6. entry = [offset |-> asm[i].begin, length |-> length(asm[i]), file |-> 0, jump |-> asm[i].jump]
      BY <1>6, <1>8, <2>5
    <2>7. asm[i].begin \in Int /\ asm[i].end \in Int /\ asm[i].jump \in Jumps
      <3>1. asm[i] \in Range(asm)
        BY <1>1, <2>4 DEF Range
      <3>2. QED
        BY <3>1 DEF IsAssembly
    <2>8. length(asm[i]) \in Int
      BY <2>7
    <2> HIDE DEF entry
    <2>9. entry \in Entries
      BY <2>6, <2>7, <2>8 DEF Entries
    <2>10. entry.offset = asm[i].begin /\ entry.file = 0
      BY <2>6
    <2>11. QED
      BY <2>9, <2>10 DEF entry, i
  <1>10. Len(SynthesizeSourceMap(asm)) = C(n)
    <2> DEFINE E(i) == [offset |-> kept[i].begin, length |-> length(kept[i]), file |-> 0, jump |-> kept[i].jump]
               V == {E(i) : i \in 1..C(n)}
    <2>1. SynthesizeSourceMap(asm) = [i \in 1..C(n) |-> E(i)]
      BY <1>6, <1>8
    <2>2. \A i \in 1..C(n) : E(i) \in V
      OBVIOUS
    <2> HIDE DEF E, V, C
    <2>3. SynthesizeSourceMap(asm) \in [1..C(n) -> V]
      BY <2>1, <2>2
    <2>4. QED
      BY ONLY <1>4, <2>3, Mapping
  <1>11. QED
    BY <1>4, <1>9, <1>10

-----------------------------------------------------------------------------
(* The instructions of the bytecode. *)

\* The scan of the bytes: how many instructions so far, and how many data are left
\* of the last one.
Reads == [idx : Nat, data : Nat]
ReadStep(code, i, before) ==
    IF before.data > 0 THEN [idx |-> before.idx, data |-> before.data - 1]
                       ELSE [idx |-> before.idx + 1, data |-> code[i - 1]]
CodeSize(code) == Cardinality(DOMAIN code)
ReadScan(f, code) ==
    /\ f \in [0..CodeSize(code) -> Reads] /\ f[0] = [idx |-> 0, data |-> 0]
    /\ \A i \in 1..CodeSize(code) : f[i] = ReadStep(code, i, f[i - 1])

\* Bytecode has its bytes at the numbers from 0.
LEMMA CodeType ==
    ASSUME NEW code, IsCode(code)
    PROVE  /\ CodeSize(code) \in Nat /\ DOMAIN code = 0..(CodeSize(code) - 1)
           /\ \A p \in DOMAIN code : code[p] \in Nat
  <1>1. CodeSize(code) \in Nat
    BY FS_CardinalityType DEF IsCode, CodeSize
  <1>2. DOMAIN code = 0..(CodeSize(code) - 1) /\ \A p \in DOMAIN code : code[p] \in 0..32
    BY DEF IsCode, CodeSize
  <1>3. \A p \in DOMAIN code : code[p] \in Nat
    <2>1. \A k \in 0..32 : k \in Nat
      OBVIOUS
    <2>2. QED
      BY ONLY <1>2, <2>1
  <1>4. QED
    BY ONLY <1>1, <1>2, <1>3

\* The index of instructions (source_map.rs:186) is read off that scan.
LEMMA IndexScan ==
    ASSUME NEW code, IsCode(code)
    PROVE  \E f : /\ ReadScan(f, code)
                  /\ PcToInstructionIndex(code) = [p \in DOMAIN code |-> f[p + 1].idx - 1]
  <1> DEFINE n == CodeSize(code)
             F == [p \in (1..n) \X Reads |-> ReadStep(code, p[1], p[2])]
             z == [idx |-> 0, data |-> 0]
             Eq(f) == f = [i \in 0..n |-> IF i = 0 THEN z ELSE ReadStep(code, i, f[i - 1])]
  <1>1. n \in Nat /\ z \in Reads
    BY CodeType DEF Reads
  <1>2. \A i \in 1..n : \A s \in Reads : ReadStep(code, i, s) \in Reads
    <2>1. ASSUME NEW i \in 1..n, NEW s \in Reads PROVE ReadStep(code, i, s) \in Reads
      <3>1. i - 1 \in 0..(n - 1)
        BY <1>1
      <3>2. code[i - 1] \in Nat
        BY <3>1, CodeType
      <3>3. s.idx \in Nat /\ s.data \in Nat
        BY DEF Reads
      <3>4. s.data > 0 => s.data - 1 \in Nat
        BY <3>3
      <3>5. QED
        BY <3>2, <3>3, <3>4 DEF ReadStep, Reads
    <2>2. QED
      BY <2>1
  <1>3. \A i \in 1..n : \A s \in Reads : F[<<i, s>>] = ReadStep(code, i, s)
    OBVIOUS
  <1>4. StepsIn(F, n, Reads)
    BY <1>2, <1>3 DEF StepsIn
  <1> HIDE DEF F, n, z
  <1>5. \E g : IsScan(g, F, n, z, Reads)
    BY <1>1, <1>4, ScanExists
  <1>6. PICK g : g \in [0..n -> Reads] /\ g[0] = z /\ \A i \in 1..n : g[i] = F[<<i, g[i - 1]>>]
    BY <1>5 DEF IsScan
  <1>7. \A i \in 0..n : g[i] = IF i = 0 THEN z ELSE ReadStep(code, i, g[i - 1])
    <2>1. \A i \in 0..n : i # 0 => i \in 1..n /\ i - 1 \in 0..n
      BY <1>1
    <2>2. QED
      BY <1>3, <1>6, <2>1
  <1>8. Eq(g)
    <2>1. g = [i \in 0..n |-> g[i]]
      BY <1>6
    <2>2. QED
      BY <1>7, <2>1
  <1> DEFINE read[i \in 0..Cardinality(DOMAIN code)] ==
                 IF i = 0 THEN [idx |-> 0, data |-> 0]
                 ELSE LET before == read[i - 1] IN
                      IF before.data > 0 THEN [idx |-> before.idx, data |-> before.data - 1]
                                         ELSE [idx |-> before.idx + 1, data |-> code[i - 1]]
  <1>9. Eq(read)
    BY <1>8 DEF n, z, ReadStep, CodeSize
  <1>10. PcToInstructionIndex(code) = [p \in DOMAIN code |-> read[p + 1].idx - 1]
    BY DEF PcToInstructionIndex
  <1> HIDE DEF read
  <1>11. read[0] = z
    BY <1>1, <1>9
  <1>12. \A i \in 1..n : read[i] = ReadStep(code, i, read[i - 1])
    <2>1. \A i \in 1..n : i \in 0..n /\ i # 0
      BY <1>1
    <2>2. QED
      BY <1>9, <2>1
  <1>13. \A i \in 0..n : read[i] \in Reads
    <2>1. \A i \in 1..n : read[i - 1] \in Reads => read[i] \in Reads
      BY <1>2, <1>12
    <2>2. read[0] \in Reads
      BY <1>1, <1>11
    <2>3. QED
      BY ONLY <1>1, <2>1, <2>2, ScanStays
  <1>14. read \in [0..n -> Reads]
    <2>1. read = [j \in 0..n |-> read[j]]
      BY <1>9
    <2>2. QED
      BY <1>13, <2>1
  <1>15. QED
    BY <1>10, <1>11, <1>12, <1>14 DEF ReadScan, n, z

\* A set that starts at 0 and goes on after each instruction, and nowhere else.
GoesOn(S, code) ==
    /\ S \in SUBSET DOMAIN code /\ 0 \in S
    /\ \A p \in S : p + 1 + code[p] \in DOMAIN code => p + 1 + code[p] \in S
    /\ \A q \in S \ {0} : \E p \in S : q = p + 1 + code[p]

\* There is one such set at most.
LEMMA GoesOnWithin ==
    ASSUME NEW code, IsCode(code), NEW S, NEW T, GoesOn(S, code), GoesOn(T, code)
    PROVE  S \subseteq T
  <1> DEFINE others == {q \in S : q \notin T}
  <1>1. SUFFICES ASSUME others # {} PROVE FALSE
    OBVIOUS
  <1>2. S \subseteq Nat /\ \A p \in S : code[p] \in Nat
    BY CodeType DEF GoesOn
  <1>3. PICK m \in others : \A k \in others : m <= k
    <2>1. others \in SUBSET Nat
      BY <1>2
    <2> HIDE DEF others
    <2>2. QED
      BY <1>1, <2>1, LeastNumber
  <1>4. m \in S \ {0} /\ m \in DOMAIN code
    BY DEF GoesOn
  <1>5. PICK p \in S : m = p + 1 + code[p]
    BY <1>4 DEF GoesOn
  <1>6. ~(m <= p)
    BY <1>2, <1>5
  <1>7. p \in T
    BY <1>3, <1>6
  <1>8. m \in T
    BY <1>4, <1>5, <1>7 DEF GoesOn
  <1>9. QED
    BY <1>8

\* So the starts of the instructions are whatever set goes on like that.
LEMMA StartsAre ==
    ASSUME NEW code, IsCode(code), NEW S, GoesOn(S, code)
    PROVE  InstructionStarts(code) = S
  <1> DEFINE T == InstructionStarts(code)
  <1>1. GoesOn(T, code)
    BY DEF InstructionStarts, GoesOn
  <1> HIDE DEF T
  <1>2. S \subseteq T /\ T \subseteq S
    BY <1>1, GoesOnWithin
  <1>3. QED
    BY <1>2 DEF T

\* After an instruction the scan counts down its data.
LEMMA CountsDown ==
    ASSUME NEW code, IsCode(code), NEW f, ReadScan(f, code),
           NEW p \in DOMAIN code, f[p].data = 0
    PROVE  \A j \in 0..code[p] : p + 1 + j <= CodeSize(code) => f[p + 1 + j].data = code[p] - j
  <1> DEFINE n == CodeSize(code)
             d == code[p]
             P == {j \in 0..d : p + 1 + j <= n => f[p + 1 + j].data = d - j}
  <1>1. n \in Nat /\ p \in 0..(n - 1) /\ d \in Nat
    BY CodeType
  <1>2. \A i \in 1..n : f[i] = ReadStep(code, i, f[i - 1])
    BY DEF ReadScan
  <1> HIDE DEF n, d
  <1>3. 0 \in P
    <2>1. p + 1 \in 1..n /\ (p + 1) - 1 = p /\ p + 1 + 0 = p + 1
      BY <1>1
    <2>2. f[p + 1] = ReadStep(code, p + 1, f[p])
      BY <1>2, <2>1
    <2>3. f[p + 1].data = d
      BY <2>1, <2>2 DEF ReadStep, d
    <2>4. 0 \in 0..d /\ d - 0 = d
      BY <1>1
    <2>5. QED
      BY <2>1, <2>3, <2>4
  <1>4. ASSUME NEW j \in 0..d, j + 1 \in 0..d, j \in P PROVE j + 1 \in P
    <2>1. SUFFICES ASSUME p + 1 + (j + 1) <= n PROVE f[p + 1 + (j + 1)].data = d - (j + 1)
      BY <1>4
    <2>2. /\ p + 1 + (j + 1) \in 1..n /\ p + 1 + (j + 1) - 1 = p + 1 + j /\ p + 1 + j <= n
          /\ d - j > 0 /\ d - j - 1 = d - (j + 1)
      BY ONLY <1>1, <1>4, <2>1, j \in 0..d
    <2>3. f[p + 1 + j].data = d - j
      <3>1. p + 1 + j <= n => f[p + 1 + j].data = d - j
        BY ONLY <1>4
      <3>2. QED
        BY ONLY <2>2, <3>1
    <2>4. f[p + 1 + (j + 1)] = ReadStep(code, p + 1 + (j + 1), f[p + 1 + j])
      <3> DEFINE next == p + 1 + (j + 1)
      <3>1. next \in 1..n /\ next - 1 = p + 1 + j
        BY ONLY <1>1, <2>2, j \in 0..d
      <3> HIDE DEF next
      <3>2. f[next] = ReadStep(code, next, f[next - 1])
        BY ONLY <1>2, <3>1
      <3>3. QED
        BY ONLY <3>1, <3>2 DEF next
    <2>5. QED
      BY <2>2, <2>3, <2>4 DEF ReadStep
  <1>5. \A j \in 0..d : j \in P
    <2> HIDE DEF P
    <2>1. QED
      BY <1>1, <1>3, <1>4, UpTo
  <1>6. QED
    BY <1>5 DEF n, d

\* The bytes before which no data are left are the first bytes of instructions.
LEMMA ReadStarts ==
    ASSUME NEW code, IsCode(code), DOMAIN code # {}, NEW f, ReadScan(f, code)
    PROVE  InstructionStarts(code) = {p \in DOMAIN code : f[p].data = 0}
  <1> DEFINE n == CodeSize(code)
             S == {p \in DOMAIN code : f[p].data = 0}
  <1>1. n \in Nat /\ DOMAIN code = 0..(n - 1) /\ \A p \in DOMAIN code : code[p] \in Nat
    BY CodeType
  <1>2. f[0].data = 0
    BY DEF ReadScan
  <1> HIDE DEF n
  <1>3. 0 \in S
    BY <1>1, <1>2
  <1>4. ASSUME NEW p \in S, p + 1 + code[p] \in DOMAIN code PROVE p + 1 + code[p] \in S
    <2>1. code[p] \in Nat /\ p \in DOMAIN code /\ f[p].data = 0
      BY <1>1
    <2>2. code[p] \in 0..code[p] /\ p + 1 + code[p] <= n /\ code[p] - code[p] = 0
      BY <1>1, <1>4, <2>1
    <2>3. \A j \in 0..code[p] : p + 1 + j <= n => f[p + 1 + j].data = code[p] - j
      BY <2>1, CountsDown DEF n
    <2>4. f[p + 1 + code[p]].data = 0
      BY <2>2, <2>3
    <2>5. QED
      BY <1>4, <2>4
  <1>5. ASSUME NEW q \in S \ {0} PROVE \E p \in S : q = p + 1 + code[p]
    <2> DEFINE before == {p \in 1..q : p - 1 \in S}
    <2>1. q \in 0..(n - 1) /\ q # 0 /\ f[q].data = 0 /\ q \in Nat
      BY <1>1
    <2>2. 1 \in before /\ before \in SUBSET (1..q) /\ before # {}
      <3>1. 1 \in 1..q /\ 1 - 1 = 0
        BY ONLY <2>1
      <3>2. 1 - 1 \in S
        BY ONLY <1>3, <3>1
      <3> HIDE DEF S
      <3>3. 1 \in before
        BY ONLY <3>1, <3>2 DEF before
      <3>4. QED
        BY ONLY <3>3 DEF before
    <2> DEFINE m == Max(before)
               p == m - 1
    <2>3. m \in before /\ \A k \in before : k <= m
      <3> HIDE DEF before
      <3>1. QED
        BY ONLY <2>1, <2>2, MaxIs
    <2>4. m \in 1..q /\ p \in S
      BY <2>3
    <2>5. ASSUME NEW k \in S, k < q PROVE k <= p
      <3>1. k \in Nat /\ k + 1 \in 1..q /\ (k + 1) - 1 = k
        BY <1>1, <2>1, <2>5
      <3>2. k + 1 \in before
        BY <2>5, <3>1
      <3>3. k + 1 <= m
        BY <2>3, <3>2
      <3> HIDE DEF m
      <3>4. QED
        BY ONLY <2>4, <3>1, <3>3, <2>1
    <2> HIDE DEF m
    <2>6. p \in Nat /\ p < q /\ p \in DOMAIN code /\ f[p].data = 0 /\ code[p] \in Nat
      BY <1>1, <2>1, <2>4
    <2> HIDE DEF p
    <2> DEFINE d == code[p]
               next == p + 1 + d
    <2>7. \A j \in 0..d : p + 1 + j <= n => f[p + 1 + j].data = d - j
      BY <2>6, CountsDown DEF n
    <2>8. ~(next < q)
      <3>1. SUFFICES ASSUME next < q PROVE FALSE
        OBVIOUS
      <3>2. next \in DOMAIN code /\ ~(next <= p)
        <4> HIDE DEF d
        <4>1. QED
          BY ONLY <1>1, <2>1, <2>6, <3>1 DEF d
      <3>3. next \in S
        BY <1>4, <2>4, <3>2
      <3>4. QED
        BY <2>5, <3>1, <3>2, <3>3
    <2>9. ~(next > q)
      <3>1. SUFFICES ASSUME next > q PROVE FALSE
        OBVIOUS
      <3> DEFINE j == q - (p + 1)
      <3>2. j \in 0..d /\ p + 1 + j = q /\ q <= n /\ d - j > 0
        BY ONLY <1>1, <2>1, <2>6, <3>1
      <3> HIDE DEF j, d
      <3>3. f[q].data = d - j
        BY <2>7, <3>2
      <3>4. QED
        BY <2>1, <3>2, <3>3
    <2>10. next \in Nat
      BY <2>6
    <2>11. next = q
      BY ONLY <2>1, <2>8, <2>9, <2>10
    <2>12. QED
      BY <2>4, <2>11
  <1> HIDE DEF S
  <1>6. GoesOn(S, code)
    BY <1>3, <1>4, <1>5 DEF GoesOn, S
  <1>7. QED
    BY <1>6, StartsAre DEF S

\* The number of a program counter counts the instructions that start up to it.
LEMMA IndexIs ==
    ASSUME NEW code, IsCode(code), NEW at \in DOMAIN code
    PROVE  /\ at \in DOMAIN PcToInstructionIndex(code)
           /\ Cardinality({p \in InstructionStarts(code) : p <= at}) \in Nat \ {0}
           /\ PcToInstructionIndex(code)[at] + 1 = Cardinality({p \in InstructionStarts(code) : p <= at})
  <1> DEFINE n == CodeSize(code)
             S == InstructionStarts(code)
             Up(i) == {p \in S : p < i}
  <1>1. n \in Nat /\ DOMAIN code = 0..(n - 1) /\ at \in 0..(n - 1)
    BY CodeType
  <1>2. PICK f : ReadScan(f, code) /\ PcToInstructionIndex(code) = [p \in DOMAIN code |-> f[p + 1].idx - 1]
    BY IndexScan
  <1>3. S = {p \in DOMAIN code : f[p].data = 0}
    BY <1>2, ReadStarts
  <1>4. f[0] = [idx |-> 0, data |-> 0] /\ f \in [0..n -> Reads]
        /\ \A i \in 1..n : f[i] = ReadStep(code, i, f[i - 1])
    BY <1>2 DEF ReadScan
  <1> HIDE DEF n, S
  <1> DEFINE P == {i \in 0..n : IsFiniteSet(Up(i)) /\ f[i].idx = Cardinality(Up(i))}
  <1>5. 0 \in P
    <2>1. Up(0) = {}
      BY <1>1, <1>3
    <2> HIDE DEF Up
    <2>2. IsFiniteSet(Up(0)) /\ Cardinality(Up(0)) = 0
      BY ONLY <2>1, FS_EmptySet
    <2>3. f[0].idx = 0 /\ 0 \in 0..n
      BY ONLY <1>1, <1>4
    <2>4. QED
      BY ONLY <2>2, <2>3
  <1>6. ASSUME NEW i \in 0..n, i + 1 \in 0..n, i \in P PROVE i + 1 \in P
    <2>1. i \in Nat /\ i + 1 \in 1..n /\ (i + 1) - 1 = i /\ i \in DOMAIN code
      BY <1>1, <1>6
    <2>2. f[i + 1] = ReadStep(code, i + 1, f[i])
      BY <1>4, <2>1
    <2>3. f[i].idx \in Nat /\ f[i].data \in Nat
      BY <1>4 DEF Reads
    <2>4. IsFiniteSet(Up(i)) /\ f[i].idx = Cardinality(Up(i)) /\ i \notin Up(i)
      BY <1>1, <1>3, <1>6
    <2>5. Up(i + 1) = IF i \in S THEN Up(i) \cup {i} ELSE Up(i)
      <3>1. \A p \in S : p < i + 1 <=> p < i \/ p = i
        BY <1>1, <1>3, <2>1
      <3>2. QED
        BY <3>1
    <2>6. i \in S <=> f[i].data = 0
      BY <1>3, <2>1
    <2> HIDE DEF Up
    <2>7. IsFiniteSet(Up(i) \cup {i}) /\ Cardinality(Up(i) \cup {i}) = Cardinality(Up(i)) + 1
      BY <2>4, FS_AddElement
    <2>8. f[i + 1].idx = IF i \in S THEN f[i].idx + 1 ELSE f[i].idx
      BY <2>2, <2>3, <2>6 DEF ReadStep
    <2>9. QED
      BY <1>6, <2>4, <2>5, <2>7, <2>8
  <1>7. \A i \in 0..n : i \in P
    <2> HIDE DEF P
    <2>1. QED
      BY <1>1, <1>5, <1>6, UpTo
  <1>8. Up(at + 1) = {p \in S : p <= at}
    <2>1. \A p \in S : p < at + 1 <=> p <= at
      BY <1>1, <1>3
    <2>2. QED
      BY <2>1
  <1>9. at + 1 \in 0..n
    BY <1>1
  <1>10. f[at + 1].idx = Cardinality({p \in S : p <= at}) /\ IsFiniteSet({p \in S : p <= at})
    BY <1>7, <1>8, <1>9
  <1>11. 0 \in {p \in S : p <= at}
    BY <1>1, <1>3, <1>4
  <1> DEFINE K == {p \in S : p <= at}
  <1> HIDE DEF K
  <1>12. Cardinality(K) \in Nat /\ Cardinality(K) # 0
    BY <1>10, <1>11, FS_CardinalityType, FS_EmptySet DEF K
  <1>13. PcToInstructionIndex(code)[at] = f[at + 1].idx - 1 /\ at \in DOMAIN PcToInstructionIndex(code)
    BY <1>2
  <1>14. PcToInstructionIndex(code)[at] + 1 = Cardinality(K)
    BY <1>10, <1>12, <1>13 DEF K
  <1>15. QED
    BY <1>12, <1>13, <1>14 DEF K, S

-----------------------------------------------------------------------------
(* Lines and columns. *)

\* Later characters start later.
LEMMA StartsGrow ==
    ASSUME NEW text \in Text
    PROVE  \A j \in 1..(Len(text) + 1) : \A i \in 1..(j - 1) : Starts(text)[i] < Starts(text)[j]
  <1> DEFINE n == Len(text)
             st == Starts(text)
             P == {k \in 0..n : \A i \in 1..k : st[i] < st[k + 1]}
  <1>1. /\ n \in Nat /\ \A i \in 1..(n + 1) : st[i] \in Nat
        /\ \A i \in 1..n : st[i + 1] = st[i] + Width(text[i])
    BY SMTT(40), StartsOf DEF Text
  <1> HIDE DEF n, st
  <1>2. \A i \in 1..n : st[i] < st[i + 1]
    <2>1. ASSUME NEW i \in 1..n PROVE st[i] < st[i + 1]
      <3>1. st[i] \in Nat /\ st[i + 1] = st[i] + Width(text[i]) /\ Width(text[i]) \in 1..2
        BY <1>1, WidthIs
      <3>2. QED
        BY ONLY <3>1
    <2>2. QED
      BY <2>1
  <1>3. 0 \in P
    BY <1>1
  <1>4. ASSUME NEW k \in 0..n, k + 1 \in 0..n, k \in P PROVE k + 1 \in P
    <2>1. k \in Nat /\ k + 1 \in 1..n /\ k + 1 \in 1..(n + 1) /\ (k + 1) + 1 \in 1..(n + 1)
      BY ONLY <1>1, <1>4
    <2>2. st[k + 1] < st[(k + 1) + 1] /\ st[k + 1] \in Nat /\ st[(k + 1) + 1] \in Nat
      BY <1>1, <1>2, <2>1
    <2>3. \A i \in 1..k : st[i] < st[k + 1]
      BY <1>4
    <2>4. ASSUME NEW i \in 1..(k + 1) PROVE st[i] < st[(k + 1) + 1]
      <3>1. i = k + 1 \/ i \in 1..k
        BY ONLY <2>1, i \in 1..(k + 1)
      <3>2. i \in 1..k => st[i] \in Nat /\ st[i] < st[k + 1]
        BY <1>1, <2>1, <2>3
      <3>3. CASE i = k + 1
        BY <2>2, <3>3
      <3>4. CASE i \in 1..k
        BY ONLY <2>2, <3>2, <3>4
      <3>5. QED
        BY <3>1, <3>3, <3>4
    <2>5. QED
      BY <1>4, <2>4
  <1>5. \A k \in 0..n : k \in P
    <2> HIDE DEF P
    <2>1. QED
      BY <1>1, <1>3, <1>4, UpTo
  <1>6. ASSUME NEW j \in 1..(n + 1), NEW i \in 1..(j - 1) PROVE st[i] < st[j]
    <2>1. j - 1 \in 0..n /\ (j - 1) + 1 = j
      BY <1>1
    <2>2. \A h \in 1..(j - 1) : st[h] < st[(j - 1) + 1]
      BY <1>5, <2>1
    <2>3. QED
      BY <2>1, <2>2
  <1>7. QED
    BY <1>6 DEF n, st

\* The scan for an offset ends at the line and the column of the offset.
LEMMA LineColIs ==
    ASSUME NEW text \in Text, NEW offset \in 0..Size(text)
    PROVE  /\ OffsetToLineCol(text, offset) \in Places
           /\ OffsetToLineCol(text, offset).line = TrueLineCol(text, offset).line
           /\ OffsetToLineCol(text, offset).column = TrueLineCol(text, offset).column
  <1> DEFINE n == Len(text)
             st == Starts(text)
             after == {b \in Range(st) : b >= offset}
             reached == Min(after)
             B(k) == {i \in 1..k : text[i] = Newline /\ st[i] < reached}
             Stop(k) == IF st[k + 1] <= reached THEN st[k + 1] ELSE reached
             From(k) == IF B(k) = {} THEN 0 ELSE st[Max(B(k)) + 1]
  <1>1. /\ n \in Nat /\ st \in [1..(n + 1) -> Nat] /\ st[1] = 0
        /\ \A i \in 1..n : st[i + 1] = st[i] + Width(text[i])
    BY StartsOf DEF Text
  <1>2. \A j \in 1..(n + 1) : \A i \in 1..(j - 1) : st[i] < st[j]
    BY StartsGrow
  <1>3. offset \in Nat /\ offset <= st[n + 1] /\ DOMAIN text = 1..n
    <2>1. Size(text) = st[n + 1] /\ st[n + 1] \in Nat /\ DOMAIN text = 1..n
      BY <1>1 DEF Size, Text
    <2>2. QED
      BY ONLY <2>1, offset \in 0..Size(text)
  <1>4. PICK f : PlaceScan(f, text, offset) /\ OffsetToLineCol(text, offset) = f[n]
    BY OffsetScan
  <1>5. /\ f \in [0..n -> Places] /\ f[0] = [line |-> 1, column |-> 0]
        /\ \A i \in 1..n : f[i] = PlaceStep(text, offset, i, f[i - 1])
    BY <1>4 DEF PlaceScan
  <1> HIDE DEF n, st
  <1>6. \A i \in 1..(n + 1) : st[i] \in Nat /\ st[i] \in Range(st)
    BY <1>1 DEF Range
  <1>7. /\ \E m \in 1..(n + 1) : reached = st[m]
        /\ reached \in Nat /\ offset <= reached
        /\ \A i \in 1..(n + 1) : offset <= st[i] => reached <= st[i]
    <2>1. Range(st) = {st[i] : i \in 1..(n + 1)}
      BY <1>1 DEF Range
    <2>2. after \in SUBSET Nat
      BY <1>6, <2>1
    <2>3. st[n + 1] \in after
      <3>1. n + 1 \in 1..(n + 1)
        BY <1>1
      <3>2. QED
        BY <1>3, <1>6, <3>1
    <2>4. reached \in after /\ \A b \in after : reached <= b
      <3> HIDE DEF after
      <3>1. QED
        BY ONLY <2>2, <2>3, MinIs
    <2>5. reached \in Range(st) /\ reached \in Nat /\ reached >= offset
      BY <2>2, <2>4
    <2>6. \A i \in 1..(n + 1) : offset <= st[i] => st[i] \in after
      BY <1>3, <1>6
    <2> HIDE DEF after
    <2>7. \A i \in 1..(n + 1) : offset <= st[i] => reached <= st[i]
      BY <2>4, <2>6
    <2>8. offset <= reached
      BY ONLY <1>3, <2>5
    <2>9. QED
      BY <2>1, <2>5, <2>7, <2>8
  <1> HIDE DEF reached, after
  <1> DEFINE P == {k \in 0..n : /\ f[k].line = 1 + Cardinality(B(k))
                                /\ f[k].column = Stop(k) - From(k)}
  <1>8. 0 \in P
    <2>1. B(0) = {}
      OBVIOUS
    <2> HIDE DEF B
    <2>2. Cardinality(B(0)) = 0
      BY ONLY <2>1, FS_EmptySet
    <2>3. Stop(0) = 0 /\ From(0) = 0
      BY <1>1, <1>7, <2>1
    <2>4. f[0].line = 1 /\ f[0].column = 0 /\ 0 \in 0..n
      BY ONLY <1>1, <1>5
    <2> HIDE DEF Stop, From
    <2>5. QED
      BY ONLY <2>2, <2>3, <2>4
  <1>9. ASSUME NEW k \in 0..n, k + 1 \in 0..n, k \in P PROVE k + 1 \in P
    <2> DEFINE i == k + 1
    <2>1. k \in Nat /\ i \in 1..n /\ i - 1 = k /\ i \in 1..(n + 1) /\ i + 1 \in 1..(n + 1) /\ i \in Nat
      BY ONLY <1>1, <1>9
    <2>2. f[i] = PlaceStep(text, offset, i, f[k])
      <3> HIDE DEF i
      <3>1. f[i] = PlaceStep(text, offset, i, f[i - 1])
        BY <1>5, <2>1
      <3>2. QED
        BY ONLY <2>1, <3>1
    <2>3. /\ st[i] \in Nat /\ st[i + 1] \in Nat /\ st[i + 1] = st[i] + Width(text[i])
          /\ Width(text[i]) \in 1..2
      BY <1>1, <1>6, <2>1, WidthIs
    <2>4. f[k].line = 1 + Cardinality(B(k)) /\ f[k].column = Stop(k) - From(k)
      BY <1>9
    <2>5. B(i) = IF text[i] = Newline /\ st[i] < reached THEN B(k) \cup {i} ELSE B(k)
      <3>1. \A j : j \in 1..i <=> j \in 1..k \/ j = i
        BY ONLY <2>1
      <3> HIDE DEF i
      <3>2. QED
        BY ONLY <3>1
    <2>6. IsFiniteSet(B(k)) /\ i \notin B(k) /\ B(k) \subseteq 1..k
      <3>1. B(k) \in SUBSET (1..k) /\ i \notin B(k)
        BY <2>1
      <3>2. IsFiniteSet(1..k)
        BY <2>1, FS_Interval
      <3> HIDE DEF B
      <3>3. QED
        BY <3>1, <3>2, FS_Subset
    <2>7. f[k].line \in Nat /\ f[k].column \in Nat /\ f[k] \in Places
      BY <1>5, <1>9 DEF Places
    <2>8. ASSUME st[i] >= offset PROVE i \in P
      <3>1. reached <= st[i] /\ ~(st[i] < reached)
        <4>1. offset <= st[i]
          BY ONLY <1>3, <2>3, <2>8
        <4>2. reached <= st[i]
          BY <1>7, <2>1, <4>1
        <4>3. QED
          BY ONLY <1>7, <2>3, <4>2
      <3>2. f[i] = f[k]
        BY <2>2, <2>8 DEF PlaceStep, st
      <3>3. B(i) = B(k)
        BY ONLY <2>5, <3>1
      <3>4. Stop(k) = reached /\ Stop(i) = reached
        <4>1. st[k + 1] <= reached => st[k + 1] = reached
          BY ONLY <1>7, <2>3, <3>1
        <4>2. ~(st[i + 1] <= reached)
          BY ONLY <1>7, <2>3, <3>1
        <4>3. QED
          BY ONLY <4>1, <4>2
      <3>5. From(i) = From(k)
        <4> HIDE DEF B, i
        <4>1. QED
          BY ONLY <3>3 DEF From
      <3> HIDE DEF B, Stop, From
      <3>6. f[i].line = 1 + Cardinality(B(i)) /\ f[i].column = Stop(i) - From(i)
        BY ONLY <2>4, <3>2, <3>3, <3>4, <3>5
      <3>7. QED
        BY ONLY <1>9, <3>6
    <2>9. ASSUME ~(st[i] >= offset) PROVE i \in P
      <3>1. st[i] < reached
        BY ONLY <1>3, <1>7, <2>3, <2>9
      <3>2. st[i + 1] <= reached
        <4>1. PICK m \in 1..(n + 1) : reached = st[m]
          BY <1>7
        <4>2. ASSUME m <= i PROVE FALSE
          <5>1. m = i \/ m \in 1..(i - 1)
            BY ONLY <2>1, <4>2, m \in 1..(n + 1), <1>1
          <5>2. st[m] <= st[i]
            <6>1. m \in 1..(i - 1) => st[m] < st[i] /\ st[m] \in Nat
              BY <1>2, <1>6, <2>1
            <6>2. QED
              BY ONLY <2>3, <5>1, <6>1
          <5>3. QED
            BY ONLY <1>7, <2>3, <3>1, <4>1, <5>2
        <4>3. m = i + 1 \/ i + 1 \in 1..(m - 1)
          BY ONLY <1>1, <2>1, <4>2, m \in 1..(n + 1)
        <4>4. i + 1 \in 1..(m - 1) => st[i + 1] < st[m]
          BY <1>2
        <4>5. QED
          BY ONLY <1>7, <2>3, <4>1, <4>3, <4>4
      <3>3. Stop(k) = st[i] /\ Stop(i) = st[i + 1]
        <4>1. st[i] <= reached
          BY ONLY <1>7, <2>3, <3>1
        <4>2. QED
          BY ONLY <3>2, <4>1
      <3>4. CASE text[i] = Newline
        <4>1. f[i] = [line |-> f[k].line + 1, column |-> 0]
          BY <2>2, <2>9, <3>4 DEF PlaceStep, st
        <4>2. B(i) = B(k) \cup {i}
          BY ONLY <2>5, <3>1, <3>4
        <4> DEFINE S == B(i)
        <4>3. S \in SUBSET (1..i) /\ i \in S
          <5>1. B(i) \subseteq 1..i
            OBVIOUS
          <5> HIDE DEF B
          <5>2. QED
            BY ONLY <4>2, <5>1
        <4> HIDE DEF S
        <4>4. Max(S) \in S /\ \A j \in S : j <= Max(S)
          BY ONLY <2>1, <4>3, MaxIs
        <4>5. Max(S) = i
          <5>1. Max(S) \in 1..i /\ i <= Max(S)
            BY ONLY <4>3, <4>4
          <5> HIDE DEF i
          <5>2. QED
            BY ONLY <2>1, <5>1
        <4>6. From(i) = st[i + 1]
          <5>1. S # {} /\ S = B(i)
            BY ONLY <4>3 DEF S
          <5> HIDE DEF B, i
          <5>2. QED
            BY ONLY <4>5, <5>1 DEF From
        <4> HIDE DEF B
        <4>7. Cardinality(B(i)) = Cardinality(B(k)) + 1 /\ Cardinality(B(k)) \in Nat
          <5>1. Cardinality(B(k) \cup {i}) = Cardinality(B(k)) + 1
            BY <2>6, FS_AddElement
          <5>2. Cardinality(B(k)) \in Nat
            BY <2>6, FS_CardinalityType
          <5>3. QED
            BY ONLY <4>2, <5>1, <5>2
        <4> HIDE DEF Stop, From
        <4>8. f[i].line = 1 + Cardinality(B(i))
          <5>1. f[i].line = f[k].line + 1
            BY ONLY <4>1
          <5>2. QED
            BY ONLY <2>4, <4>7, <5>1
        <4>9. f[i].column = Stop(i) - From(i)
          <5>1. f[i].column = 0
            BY ONLY <4>1
          <5>2. QED
            BY ONLY <2>3, <3>3, <4>6, <5>1
        <4>10. QED
          BY ONLY <1>9, <4>8, <4>9
      <3>5. CASE text[i] # Newline
        <4>1. f[i] = [line |-> f[k].line, column |-> f[k].column + Width(text[i])]
          BY <2>2, <2>9, <3>5 DEF PlaceStep, st
        <4>2. B(i) = B(k)
          BY ONLY <2>5, <3>5
        <4>3. From(i) = From(k)
          <5> HIDE DEF B, i
          <5>1. QED
            BY ONLY <4>2 DEF From
        <4> HIDE DEF B
        <4>4. From(k) \in Nat
          <5>1. CASE B(k) = {}
            BY ONLY <5>1
          <5>2. CASE B(k) # {}
            <6> DEFINE S == B(k)
            <6>1. S \in SUBSET (1..k) /\ S # {}
              BY ONLY <2>6, <5>2
            <6> HIDE DEF S
            <6>2. Max(S) \in S
              BY ONLY <2>1, <6>1, MaxIs
            <6>3. Max(S) + 1 \in 1..(n + 1)
              <7>1. Max(S) \in 1..k
                BY ONLY <6>1, <6>2
              <7>2. n \in Nat /\ k \in 0..n
                BY <1>1
              <7>3. \A a \in 1..k : a + 1 \in 1..(n + 1)
                BY ONLY <7>2
              <7>4. QED
                BY ONLY <7>1, <7>3
            <6>4. st[Max(S) + 1] \in Nat
              BY <1>6, <6>3
            <6>5. QED
              BY ONLY <5>2, <6>4 DEF S
          <5>3. QED
            BY ONLY <5>1, <5>2
        <4> HIDE DEF Stop, From
        <4>5. f[i].line = 1 + Cardinality(B(i))
          <5>1. f[i].line = f[k].line
            BY ONLY <4>1
          <5>2. QED
            BY ONLY <2>4, <4>2, <5>1
        <4>6. f[i].column = Stop(i) - From(i)
          <5>1. f[i].column = f[k].column + Width(text[i])
            BY ONLY <4>1
          <5>2. f[k].column = st[i] - From(k)
            BY ONLY <2>4, <3>3
          <5>3. QED
            BY ONLY <2>3, <3>3, <4>3, <4>4, <5>1, <5>2
        <4>7. QED
          BY ONLY <1>9, <4>5, <4>6
      <3>6. QED
        BY ONLY <3>4, <3>5
    <2>10. QED
      BY ONLY <2>8, <2>9
  <1>10. n \in P
    <2> HIDE DEF P
    <2>1. \A k \in 0..n : k \in P
      BY <1>1, <1>8, <1>9, UpTo
    <2>2. n \in 0..n
      BY <1>1
    <2>3. QED
      BY <2>1, <2>2
  <1>11. Stop(n) = reached
    <2>1. st[n + 1] \in Nat /\ n + 1 \in 1..(n + 1)
      BY <1>1, <1>6
    <2>2. reached <= st[n + 1]
      BY <1>3, <1>7, <2>1
    <2>3. QED
      BY ONLY <1>7, <2>1, <2>2
  <1>12. TrueLineCol(text, offset) = [line |-> 1 + Cardinality(B(n)), column |-> reached - From(n)]
    BY <1>3 DEF TrueLineCol, reached, after, st
  <1>13. f[n].line = 1 + Cardinality(B(n)) /\ f[n].column = reached - From(n)
    <2> HIDE DEF B, Stop, From
    <2>1. QED
      BY ONLY <1>10, <1>11
  <1>14. f[n] \in Places
    <2>1. n \in 0..n
      BY <1>1
    <2>2. QED
      BY <1>5, <2>1
  <1> HIDE DEF B, From
  <1>15. QED
    BY <1>4, <1>12, <1>13, <1>14

-----------------------------------------------------------------------------
(* Locations. *)

\* No two files have a number.
LEMMA RankOnce ==
    ASSUME InputIs, NEW f \in SolFiles, NEW g \in SolFiles, Rank(f.path) = Rank(g.path)
    PROVE  f = g
  <1> DEFINE Below_(p) == {h \in SolFiles : h.path < p}
  <1>1. /\ response.files \in Seq(Range(response.files))
        /\ \A h \in SolFiles : h.path \in Nat
        /\ \A h, k \in SolFiles : h.path = k.path => h = k
    BY ResponseAssumption DEF InputIs, IsInput, SolFiles
  <1>2. IsFiniteSet(SolFiles)
    <2> DEFINE s == response.files
               n == Len(s)
    <2>1. n \in Nat /\ DOMAIN s = 1..n
      BY <1>1
    <2>2. Range(s) = {s[i] : i \in 1..n} /\ s \in [1..n -> Range(s)]
      BY <1>1, <2>1 DEF Range
    <2>3. s \in Surjection(1..n, Range(s))
      BY <2>2 DEF Surjection
    <2>4. IsFiniteSet(1..n)
      BY <2>1, FS_Interval
    <2>5. IsFiniteSet(Range(s))
      BY <2>3, <2>4, FS_Surjection
    <2>6. SolFiles \in SUBSET Range(s)
      BY DEF SolFiles
    <2>7. QED
      BY <2>5, <2>6, FS_Subset
  <1>3. ASSUME NEW a \in SolFiles, NEW b \in SolFiles, a.path < b.path, Rank(a.path) = Rank(b.path)
        PROVE  FALSE
    <2>1. Below_(b.path) \in SUBSET SolFiles
      OBVIOUS
    <2>2. Below_(a.path) \in SUBSET Below_(b.path)
      <3>1. \A x, y, z \in Nat : x < y /\ y < z => x < z
        OBVIOUS
      <3>2. QED
        BY <1>1, <1>3, <3>1
    <2>3. a \in Below_(b.path) /\ a \notin Below_(a.path)
      BY <1>1, <1>3
    <2>4. Cardinality(Below_(b.path)) = Cardinality(Below_(a.path))
      BY <1>3 DEF Rank
    <2> HIDE DEF Below_
    <2>5. IsFiniteSet(Below_(b.path))
      BY <1>2, <2>1, FS_Subset
    <2>6. Below_(b.path) = Below_(a.path)
      BY <2>2, <2>4, <2>5, FS_Subset
    <2>7. QED
      BY <2>3, <2>6
  <1>4. f.path \in Nat /\ g.path \in Nat
    BY <1>1
  <1>5. f.path = g.path
    BY <1>3, <1>4
  <1>6. QED
    BY <1>1, <1>5

\* What was handed over is bytecode and what maps it.
LEMMA GivenMaps ==
    ASSUME InputIs, IsGiven
    PROVE  /\ IsCode(given.code)
           /\ IF origin = "yul" THEN IsAssembly(given.srcmap) ELSE IsMap(given.srcmap)
  BY ReportAssumption DEF InputIs, IsInput, IsGiven, HandsCode

\* The entries of the recorder are those solc means.
LEMMA EntriesAre ==
    ASSUME InputIs, IsGiven
    PROVE  /\ Mapped(given.srcmap) \in Nat /\ Len(given.entries) = Mapped(given.srcmap)
           /\ \A k \in 1..Mapped(given.srcmap) :
                  /\ given.entries[k] \in Entries
                  /\ given.entries[k].offset = TrueEntry(given.srcmap, k).offset
                  /\ given.entries[k].file = TrueEntry(given.srcmap, k).file
  <1>1. CASE origin = "yul"
    <2> DEFINE asm == given.srcmap
               m == Cardinality(Instructions(asm))
               Of(k) == CHOOSE i \in Instructions(asm) : i - Labels(asm, i) = k
    <2>1. IsAssembly(asm) /\ given.entries = SynthesizeSourceMap(asm) /\ Mapped(asm) = m
      BY <1>1, GivenMaps DEF IsGiven, Mapped
    <2>2. /\ m \in Nat /\ Len(SynthesizeSourceMap(asm)) = m
          /\ \A k \in 1..m : /\ SynthesizeSourceMap(asm)[k] \in Entries
                             /\ SynthesizeSourceMap(asm)[k].offset = asm[Of(k)].begin
                             /\ SynthesizeSourceMap(asm)[k].file = 0
      BY <2>1, SynthesizeIs
    <2>3. \A k : TrueEntry(asm, k).offset = asm[Of(k)].begin /\ TrueEntry(asm, k).file = 0
      BY <1>1 DEF TrueEntry
    <2> HIDE DEF asm, m, Of
    <2>4. QED
      BY <2>1, <2>2, <2>3 DEF asm
  <1>2. CASE origin # "yul"
    <2> DEFINE raw == given.srcmap
    <2>1. IsMap(raw) /\ given.entries = Parse(raw) /\ Mapped(raw) = Len(raw)
      BY <1>2, GivenMaps DEF IsGiven, Mapped
    <2>2. /\ Len(raw) \in Nat /\ Len(Parse(raw)) = Len(raw)
          /\ \A k \in 1..Len(raw) :
                  /\ Parse(raw)[k] \in Entries
                  /\ Parse(raw)[k].offset = TrueField([i \in DOMAIN raw |-> raw[i].offset], k, 0)
                  /\ Parse(raw)[k].file = TrueField([i \in DOMAIN raw |-> raw[i].file], k, 0)
      BY <2>1, ParseIs
    <2>3. \A k : /\ TrueEntry(raw, k).offset = TrueField([i \in DOMAIN raw |-> raw[i].offset], k, 0)
                 /\ TrueEntry(raw, k).file = TrueField([i \in DOMAIN raw |-> raw[i].file], k, 0)
      BY <1>2 DEF TrueEntry
    <2> HIDE DEF raw
    <2>4. QED
      BY <2>1, <2>2, <2>3 DEF raw
  <1>3. QED
    BY <1>1, <1>2

\* The entry of a program counter has the number of its instruction.
LEMMA EntryIs ==
    ASSUME NEW entries, NEW code, IsCode(code), NEW at \in DOMAIN code
    PROVE  LET k == Cardinality({p \in InstructionStarts(code) : p <= at})
           IN  /\ k \in Nat \ {0}
               /\ EntryForPc(entries, code, at) = IF k <= Len(entries) THEN entries[k] ELSE None
  <1> DEFINE k == Cardinality({p \in InstructionStarts(code) : p <= at})
             idx == PcToInstructionIndex(code)
  <1>1. at \in DOMAIN idx /\ k \in Nat \ {0} /\ idx[at] + 1 = k
    BY IndexIs
  <1> HIDE DEF k, idx
  <1>2. EntryForPc(entries, code, at) = IF k <= Len(entries) THEN entries[k] ELSE None
    BY <1>1 DEF EntryForPc, idx
  <1>3. QED
    BY <1>1, <1>2 DEF k

\* The recorder and solc find the same place for every program counter.
LEMMA SamePlace ==
    ASSUME InputIs, IsGiven, InSolcOrder, NEW at \in DOMAIN given.code
    PROVE  Location(at) = TrueLocation(at)
  <1> DEFINE k == Cardinality({p \in InstructionStarts(given.code) : p <= at})
             m == Mapped(given.srcmap)
             n == Len(given.texts)
             told == EntryForPc(given.entries, given.code, at)
             entry == TrueEntry(given.srcmap, k)
             source == Source(entry.file)
             place == TrueLineCol(source.text, entry.offset)
             location == ResolvePc(given.entries, given.code, at, given.texts)
  <1>1. k \in Nat \ {0} /\ told = IF k <= Len(given.entries) THEN given.entries[k] ELSE None
    BY GivenMaps, EntryIs
  <1>2. m \in Nat /\ Len(given.entries) = m
        /\ \A j \in 1..m : /\ given.entries[j] \in Entries
                           /\ given.entries[j].offset = TrueEntry(given.srcmap, j).offset
                           /\ given.entries[j].file = TrueEntry(given.srcmap, j).file
    BY EntriesAre
  <1>3. n \in Nat \ {0} /\ n = Cardinality(SolFiles) /\ Len(given.paths) = n
        /\ \A i \in 1..n : Rank(given.paths[i]) = i - 1
    BY DEF IsGiven, HandsFiles, InSolcOrder
  <1>4. TrueLocation(at) = IF k > m THEN None
                           ELSE IF entry.file \notin 0..(n - 1) THEN None
                           ELSE IF entry.offset \notin 0..Size(source.text) THEN None
                           ELSE [path |-> source.path, line |-> place.line, column |-> place.column]
    BY <1>3 DEF TrueLocation
  <1>5. Location(at) = IF location = None THEN None
                       ELSE [path |-> given.paths[location.file + 1],
                             line |-> location.line, column |-> location.column]
    BY DEF Location
  <1>6. location = IF told = None THEN None
                   ELSE IF told.file \notin 0..(n - 1) THEN None
                   ELSE IF told.offset \notin 0..Size(given.texts[told.file + 1]) THEN None
                   ELSE [file |-> told.file,
                         line |-> OffsetToLineCol(given.texts[told.file + 1], told.offset).line,
                         column |-> OffsetToLineCol(given.texts[told.file + 1], told.offset).column]
    BY DEF ResolvePc
  <1> HIDE DEF k, m, n, location, entry, told
  <1>7. CASE k > m
    <2>1. told = None
      BY ONLY <1>1, <1>2, <1>7
    <2>2. QED
      BY <1>4, <1>5, <1>6, <1>7, <2>1
  <1>8. CASE ~(k > m)
    <2>1. told \in Entries /\ told.offset = entry.offset /\ told.file = entry.file
      <3>1. k \in 1..m /\ k <= m
        BY ONLY <1>1, <1>2, <1>8
      <3>2. told = given.entries[k]
        BY ONLY <1>1, <1>2, <3>1
      <3>3. QED
        BY <1>2, <3>1, <3>2 DEF entry
    <2>2. told # None
      BY <2>1, NoneAssumption DEF Entries
    <2>3. CASE entry.file \notin 0..(n - 1)
      BY <1>4, <1>5, <1>6, <1>8, <2>1, <2>2, <2>3
    <2>4. CASE entry.file \in 0..(n - 1)
      <3> DEFINE own == entry.file + 1
                 text == given.texts[own]
      <3>1. own \in 1..n /\ own - 1 = entry.file
        BY ONLY <1>3, <2>4
      <3>2. PICK f \in SolFiles : given.paths[own] = f.path /\ text = f.text
        BY <1>3, <3>1 DEF IsGiven, HandsFiles
      <3>3. Rank(f.path) = entry.file
        BY <1>3, <3>1, <3>2
      <3>4. source \in SolFiles /\ Rank(source.path) = entry.file
        BY <3>3 DEF Source
      <3> HIDE DEF source, own
      <3>5. source = f
        BY <3>3, <3>4, RankOnce
      <3>6. source.text = text /\ source.path = given.paths[own] /\ text \in Text
        <4>1. text \in Text
          BY <1>3, <3>1 DEF IsGiven, HandsFiles, n
        <4>2. QED
          BY <3>2, <3>5, <4>1
      <3> HIDE DEF text
      <3>7. CASE entry.offset \notin 0..Size(text)
        <4>1. location = None
          BY <1>6, <2>1, <3>7 DEF own, text
        <4>2. TrueLocation(at) = None
          BY <1>4, <3>6, <3>7
        <4>3. QED
          BY <1>5, <4>1, <4>2
      <3>8. CASE entry.offset \in 0..Size(text)
        <4> DEFINE found == OffsetToLineCol(text, entry.offset)
        <4>1. found \in Places /\ found.line = place.line /\ found.column = place.column
          BY <3>6, <3>8, LineColIs
        <4>2. told.file \in 0..(n - 1) /\ told.offset \in 0..Size(given.texts[told.file + 1])
          BY <2>1, <2>4, <3>8 DEF own, text
        <4>3. location = [file |-> entry.file, line |-> found.line, column |-> found.column]
          BY <1>6, <2>1, <2>2, <4>2 DEF own, text
        <4> HIDE DEF found, place
        <4>4. location \in [file : Nat, line : Nat, column : Nat]
          <5>1. entry.file \in Nat
            BY ONLY <1>3, <2>4
          <5>2. found.line \in Nat /\ found.column \in Nat
            BY <4>1 DEF Places
          <5>3. QED
            BY ONLY <4>3, <5>1, <5>2
        <4>5. location # None
          BY <4>4, NoneAssumption
        <4>6. Location(at) = [path |-> given.paths[own], line |-> found.line, column |-> found.column]
          BY <1>5, <4>3, <4>5 DEF own
        <4>7. TrueLocation(at) = [path |-> source.path, line |-> place.line, column |-> place.column]
          BY <1>4, <1>8, <2>4, <3>6, <3>8
        <4>8. QED
          BY <3>6, <4>1, <4>6, <4>7
      <3>9. QED
        BY <3>7, <3>8
    <2>5. QED
      BY <2>3, <2>4
  <1>9. QED
    BY <1>7, <1>8

\* Every program counter is shown where solc says it comes from, for every map,
\* assembly, bytecode and text (source_map.rs:59, 155, 186, 220; yul_compile.rs:116).
THEOREM LocationsTrue == Spec => []LocationsAreTrue
  <1> DEFINE Inv == InputIs /\ GivenIs
  <1>1. Init => Inv
    BY DEF Init, InputIs, IsInput, GivenIs
  <1>2. Inv /\ [Next]_vars => Inv'
    BY InputIsStays, GivenStays
  <1>3. Inv => LocationsAreTrue
    BY SamePlace DEF GivenIs, LocationsAreTrue
  <1>4. QED
    BY <1>1, <1>2, <1>3, PTL DEF Spec

-----------------------------------------------------------------------------
(* Recursion over trees: nodes have a rank, greater than those of the nodes     *)
(* under them.                                                                 *)

Grounded(D, rank, kids) ==
    /\ rank \in [D -> Nat] /\ kids \in [D -> SUBSET D]
    /\ \A x \in D : \A y \in kids[x] : rank[y] < rank[x]
Grows(G, D, kids, S) == \A x \in D : \A g \in [kids[x] -> S] : G[x][g] \in S
UpToRank(D, rank, n) == {x \in D : rank[x] < n}
IsTree(f, E, kids, G, S) ==
    /\ f \in [E -> S]
    /\ \A x \in E : f[x] = G[x][[y \in kids[x] |-> f[y]]]

\* Two functions that follow the trees agree where both are defined.
LEMMA TreesAgree ==
    ASSUME NEW D, NEW rank, NEW kids, Grounded(D, rank, kids), NEW G, NEW S,
           NEW m \in Nat, NEW n \in Nat, NEW f, NEW g,
           IsTree(f, UpToRank(D, rank, m), kids, G, S), IsTree(g, UpToRank(D, rank, n), kids, G, S)
    PROVE  \A x \in D : rank[x] < m /\ rank[x] < n => f[x] = g[x]
  <1> DEFINE bad == {x \in D : rank[x] < m /\ rank[x] < n /\ f[x] # g[x]}
             ranks == {rank[x] : x \in bad}
  <1>1. SUFFICES ASSUME bad # {} PROVE FALSE
    OBVIOUS
  <1>2. /\ \A x \in D : rank[x] \in Nat /\ kids[x] \subseteq D
        /\ \A x \in D : \A y \in kids[x] : rank[y] < rank[x]
    BY DEF Grounded
  <1>3. ranks \in SUBSET Nat /\ ranks # {}
    BY <1>1, <1>2
  <1>4. PICK r \in ranks : \A k \in ranks : r <= k
    <2> HIDE DEF ranks
    <2>1. QED
      BY <1>3, LeastNumber
  <1>5. PICK x \in bad : rank[x] = r
    BY <1>4
  <1>6. x \in D /\ rank[x] < m /\ rank[x] < n /\ f[x] # g[x] /\ rank[x] \in Nat
    BY <1>2
  <1>7. ASSUME NEW y \in kids[x] PROVE f[y] = g[y]
    <2>1. y \in D /\ rank[y] < rank[x] /\ rank[y] \in Nat
      BY <1>2, <1>6
    <2>2. rank[y] < m /\ rank[y] < n /\ ~(r <= rank[y])
      BY ONLY <1>5, <1>6, <2>1, m \in Nat, n \in Nat
    <2>3. rank[y] \notin ranks
      BY <1>4, <2>2
    <2>4. QED
      BY <2>1, <2>2, <2>3
  <1>8. [y \in kids[x] |-> f[y]] = [y \in kids[x] |-> g[y]]
    BY <1>7
  <1>9. f[x] = G[x][[y \in kids[x] |-> f[y]]] /\ g[x] = G[x][[y \in kids[x] |-> g[y]]]
    BY <1>6 DEF IsTree, UpToRank
  <1>10. QED
    BY <1>6, <1>8, <1>9

\* On the nodes of small ranks there is a function of the recursion.
LEMMA TreeUpTo ==
    ASSUME NEW D, NEW rank, NEW kids, Grounded(D, rank, kids),
           NEW G, NEW S, Grows(G, D, kids, S), NEW n \in Nat
    PROVE  \E f : IsTree(f, UpToRank(D, rank, n), kids, G, S)
  <1> DEFINE Up(m) == UpToRank(D, rank, m)
             P == {m \in Nat : \E f : IsTree(f, Up(m), kids, G, S)}
  <1>1. /\ \A x \in D : rank[x] \in Nat /\ kids[x] \subseteq D
        /\ \A x \in D : \A y \in kids[x] : rank[y] < rank[x]
    BY DEF Grounded
  <1>2. 0 \in P
    <2>1. Up(0) = {}
      BY <1>1 DEF UpToRank
    <2>2. IsTree([x \in {} |-> x], {}, kids, G, S)
      BY DEF IsTree
    <2>3. QED
      BY <2>1, <2>2
  <1>3. ASSUME NEW m \in 0..n, m + 1 \in 0..n, m \in P PROVE m + 1 \in P
    <2>1. PICK f : IsTree(f, Up(m), kids, G, S)
      BY <1>3
    <2>2. f \in [Up(m) -> S] /\ \A x \in Up(m) : f[x] = G[x][[y \in kids[x] |-> f[y]]]
      BY <2>1 DEF IsTree
    <2>3. m \in Nat /\ m + 1 \in Nat
      BY <1>3
    <2> DEFINE K(x) == [y \in kids[x] |-> f[y]]
               g == [x \in Up(m + 1) |-> G[x][K(x)]]
    <2>4. ASSUME NEW x \in Up(m + 1) PROVE x \in D /\ kids[x] \subseteq Up(m) /\ K(x) \in [kids[x] -> S]
      <3>1. x \in D /\ rank[x] < m + 1 /\ rank[x] \in Nat
        BY <1>1 DEF UpToRank
      <3>2. ASSUME NEW y \in kids[x] PROVE y \in Up(m)
        <4>1. y \in D /\ rank[y] \in Nat /\ rank[y] < rank[x]
          BY <1>1, <3>1
        <4>2. rank[y] < m
          BY ONLY <2>3, <3>1, <4>1
        <4>3. QED
          BY <4>1, <4>2 DEF UpToRank
      <3> HIDE DEF Up
      <3>3. kids[x] \subseteq Up(m)
        BY <3>2
      <3>4. \A y \in kids[x] : f[y] \in S
        BY <2>2, <3>3
      <3>5. K(x) \in [kids[x] -> S]
        BY <3>4
      <3>6. QED
        BY <3>1, <3>3, <3>5
    <2>5. \A x \in Up(m) : x \in Up(m + 1)
      <3>1. \A r \in Nat : r < m => r < m + 1
        BY <2>3
      <3>2. QED
        BY <1>1, <3>1 DEF UpToRank
    <2> HIDE DEF Up, K
    <2>6. g \in [Up(m + 1) -> S]
      BY <2>4 DEF Grows
    <2>7. \A x \in Up(m) : g[x] = f[x]
      BY <2>2, <2>5 DEF K
    <2>8. ASSUME NEW x \in Up(m + 1) PROVE g[x] = G[x][[y \in kids[x] |-> g[y]]]
      <3>1. g[x] = G[x][K(x)]
        OBVIOUS
      <3>2. \A y \in kids[x] : g[y] = f[y]
        BY <2>4, <2>7
      <3> HIDE DEF g
      <3>3. K(x) = [y \in kids[x] |-> g[y]]
        BY <3>2 DEF K
      <3>4. QED
        BY <3>1, <3>3
    <2>9. IsTree(g, Up(m + 1), kids, G, S)
      <3> HIDE DEF g
      <3>1. QED
        BY <2>6, <2>8 DEF IsTree
    <2>10. QED
      BY <2>3, <2>9
  <1>4. \A m \in 0..n : m \in P
    <2> HIDE DEF P
    <2>1. QED
      BY <1>2, <1>3, UpTo
  <1>5. n \in P
    <2>1. n \in 0..n
      OBVIOUS
    <2> HIDE DEF P
    <2>2. QED
      BY <1>4, <2>1
  <1>6. QED
    BY <1>5

\* There is a function that follows the trees.
LEMMA TreeExists ==
    ASSUME NEW D, NEW rank, NEW kids, Grounded(D, rank, kids),
           NEW G, NEW S, Grows(G, D, kids, S)
    PROVE  \E f : IsTree(f, D, kids, G, S)
  <1> DEFINE At(n) == CHOOSE f : IsTree(f, UpToRank(D, rank, n), kids, G, S)
             F == [x \in D |-> At(rank[x] + 1)[x]]
  <1>1. /\ \A x \in D : rank[x] \in Nat /\ kids[x] \subseteq D
        /\ \A x \in D : \A y \in kids[x] : rank[y] < rank[x]
    BY DEF Grounded
  <1>2. ASSUME NEW n \in Nat PROVE IsTree(At(n), UpToRank(D, rank, n), kids, G, S)
    BY TreeUpTo
  <1> HIDE DEF At
  <1>3. ASSUME NEW x \in D
        PROVE  /\ At(rank[x] + 1)[x] \in S
               /\ At(rank[x] + 1)[x] = G[x][[y \in kids[x] |-> At(rank[x] + 1)[y]]]
               /\ \A y \in kids[x] : At(rank[x] + 1)[y] = At(rank[y] + 1)[y]
    <2>1. rank[x] \in Nat /\ rank[x] + 1 \in Nat /\ rank[x] < rank[x] + 1
      BY <1>1
    <2>2. IsTree(At(rank[x] + 1), UpToRank(D, rank, rank[x] + 1), kids, G, S)
      BY <1>2, <2>1
    <2>3. x \in UpToRank(D, rank, rank[x] + 1)
      BY <2>1 DEF UpToRank
    <2>4. ASSUME NEW y \in kids[x] PROVE At(rank[x] + 1)[y] = At(rank[y] + 1)[y]
      <3>1. y \in D /\ rank[y] \in Nat /\ rank[y] < rank[x]
        BY <1>1
      <3>2. rank[y] + 1 \in Nat /\ rank[y] < rank[y] + 1 /\ rank[y] < rank[x] + 1
        BY ONLY <2>1, <3>1
      <3>3. IsTree(At(rank[y] + 1), UpToRank(D, rank, rank[y] + 1), kids, G, S)
        BY <1>2, <3>2
      <3>4. \A z \in D : rank[z] < rank[x] + 1 /\ rank[z] < rank[y] + 1 =>
                             At(rank[x] + 1)[z] = At(rank[y] + 1)[z]
        BY <2>1, <2>2, <3>2, <3>3, TreesAgree
      <3>5. QED
        BY <3>1, <3>2, <3>4
    <2>5. QED
      BY <2>2, <2>3, <2>4 DEF IsTree
  <1>4. ASSUME NEW x \in D PROVE F[x] = G[x][[y \in kids[x] |-> F[y]]]
    <2>1. \A y \in kids[x] : F[y] = At(rank[x] + 1)[y]
      BY <1>1, <1>3
    <2>2. F[x] = At(rank[x] + 1)[x]
      OBVIOUS
    <2> HIDE DEF F
    <2>3. [y \in kids[x] |-> F[y]] = [y \in kids[x] |-> At(rank[x] + 1)[y]]
      BY <2>1
    <2>4. QED
      BY <1>3, <2>2, <2>3
  <1>5. F \in [D -> S]
    BY <1>3
  <1> HIDE DEF F
  <1>6. IsTree(F, D, kids, G, S)
    BY <1>4, <1>5 DEF IsTree
  <1>7. QED
    BY <1>6

-----------------------------------------------------------------------------
(* The syntax trees. *)

\* The children of a node are nodes of smaller ids, in lists under the keys.
LEMMA ChildrenAre ==
    ASSUME NEW n \in Nodes
    PROVE  /\ n.id \in Nat /\ Children(n) \subseteq Nodes
           /\ \A c \in Children(n) : c.id < n.id
           /\ \A key : Part(n, key) \in Seq(Children(n))
  <1>1. n.id \in Nat /\ \A c \in Children(n) : c.id < n.id
    BY TreeAssumption
  <1>2. \A key \in DOMAIN n.parts : n.parts[key] \in Seq(Nodes)
    BY TreeAssumption
  <1>3. \A key \in DOMAIN n.parts : Range(n.parts[key]) \subseteq Nodes
    BY <1>2 DEF Range
  <1>4. Children(n) \subseteq Nodes
    BY <1>3 DEF Children
  <1>5. ASSUME NEW key PROVE Part(n, key) \in Seq(Children(n))
    <2>1. CASE key \notin DOMAIN n.parts
      BY <2>1 DEF Part
    <2>2. CASE key \in DOMAIN n.parts
      <3> DEFINE s == n.parts[key]
      <3>1. s \in Seq(Nodes) /\ Range(s) \subseteq Children(n) /\ Part(n, key) = s
        BY <1>2, <2>2 DEF Part, Children
      <3> HIDE DEF s
      <3>2. Len(s) \in Nat /\ DOMAIN s = 1..Len(s) /\ s \in [1..Len(s) -> Nodes]
        BY ONLY <3>1, LenProperties
      <3>3. \A i \in 1..Len(s) : s[i] \in Children(n)
        BY ONLY <3>1, <3>2 DEF Range
      <3>4. s \in [1..Len(s) -> Children(n)]
        BY ONLY <3>2, <3>3
      <3>5. QED
        BY ONLY <3>1, <3>2, <3>4, Mapping
    <2>3. QED
      BY <2>1, <2>2
  <1>6. QED
    BY <1>1, <1>4, <1>5

\* What holds of a node whenever it holds of those under it holds of every node.
Inherited(P) == \A n \in Nodes : Children(n) \subseteq P => n \in P

\* By the least id of a node for which it does not hold.
LEMMA TreeInduction ==
    ASSUME NEW P, Inherited(P)
    PROVE  \A n \in Nodes : n \in P
  <1> DEFINE ranks == {n.id : n \in {m \in Nodes : m \notin P}}
  <1>1. SUFFICES ASSUME ranks # {} PROVE FALSE
    OBVIOUS
  <1>2. ranks \in SUBSET Nat
    BY ChildrenAre
  <1>3. PICK r \in ranks : \A k \in ranks : r <= k
    <2> HIDE DEF ranks
    <2>1. QED
      BY <1>1, <1>2, LeastNumber
  <1>4. PICK n \in Nodes : n \notin P /\ n.id = r
    BY <1>3
  <1>5. ASSUME NEW c \in Children(n) PROVE c \in P
    <2>1. c \in Nodes /\ c.id < n.id /\ c.id \in Nat /\ n.id \in Nat
      BY ChildrenAre
    <2>2. ~(r <= c.id)
      BY ONLY <1>4, <2>1
    <2>3. c.id \notin ranks
      BY <1>3, <2>2
    <2>4. QED
      BY <2>1, <2>3
  <1>6. QED
    BY <1>4, <1>5 DEF Inherited

\* The ids as ranks, and the nodes they are ranks for.
TreeRank == [n \in Nodes |-> n.id]
TreeKids == [n \in Nodes |-> Children(n)]

\* Recursion over the nodes is grounded in their ids.
LEMMA NodesGrounded == Grounded(Nodes, TreeRank, TreeKids)
  <1>1. \A n \in Nodes : TreeRank[n] = n.id /\ TreeKids[n] = Children(n)
    BY DEF TreeRank, TreeKids
  <1>2. TreeRank \in [Nodes -> Nat] /\ TreeKids \in [Nodes -> SUBSET Nodes]
    BY ChildrenAre DEF TreeRank, TreeKids
  <1>3. ASSUME NEW n \in Nodes, NEW c \in TreeKids[n] PROVE TreeRank[c] < TreeRank[n]
    <2>1. c \in Children(n) /\ c \in Nodes /\ c.id < n.id
      BY <1>1, ChildrenAre
    <2>2. QED
      BY <1>1, <2>1
  <1>4. QED
    BY <1>2, <1>3 DEF Grounded

\* The nodes below one are itself and those below its children.
LEMMA BelowIs ==
    ASSUME NEW n \in Nodes
    PROVE  /\ Below[n] = {n} \cup UNION {Below[c] : c \in Children(n)}
           /\ Below[n] \subseteq Nodes
  <1> DEFINE Body(m, g) == {m} \cup UNION {g[c] : c \in Children(m)}
             G == [m \in Nodes |-> [g \in [Children(m) -> SUBSET Nodes] |-> Body(m, g)]]
             Eq(f) == f = [m \in Nodes |-> Body(m, f)]
  <1>1. \A m \in Nodes : TreeKids[m] = Children(m)
    BY DEF TreeKids
  <1>2. ASSUME NEW m \in Nodes, NEW g \in [Children(m) -> SUBSET Nodes]
        PROVE  G[m][g] = Body(m, g) /\ Body(m, g) \in SUBSET Nodes
    <2>1. \A c \in Children(m) : g[c] \subseteq Nodes
      OBVIOUS
    <2>2. Body(m, g) \in SUBSET Nodes
      BY <2>1
    <2> HIDE DEF Body
    <2>3. QED
      BY <2>2
  <1> HIDE DEF G
  <1>3. Grows(G, Nodes, TreeKids, SUBSET Nodes)
    <2> HIDE DEF Body
    <2>1. QED
      BY <1>1, <1>2 DEF Grows
  <1>4. PICK f : IsTree(f, Nodes, TreeKids, G, SUBSET Nodes)
    BY <1>3, NodesGrounded, TreeExists
  <1>5. f \in [Nodes -> SUBSET Nodes] /\ \A m \in Nodes : f[m] = G[m][[c \in Children(m) |-> f[c]]]
    BY <1>1, <1>4 DEF IsTree
  <1>6. ASSUME NEW m \in Nodes PROVE f[m] = Body(m, f)
    <2> DEFINE g == [c \in Children(m) |-> f[c]]
    <2>1. g \in [Children(m) -> SUBSET Nodes]
      BY <1>5, ChildrenAre
    <2>2. f[m] = Body(m, g)
      <3> HIDE DEF g, Body
      <3>1. QED
        BY <1>2, <1>5, <2>1 DEF g
    <2>3. \A c \in Children(m) : g[c] = f[c]
      OBVIOUS
    <2> HIDE DEF g
    <2>4. {g[c] : c \in Children(m)} = {f[c] : c \in Children(m)}
      BY <2>3
    <2>5. QED
      BY <2>2, <2>4
  <1>7. Eq(f)
    <2>1. f = [m \in Nodes |-> f[m]]
      BY <1>5
    <2> HIDE DEF Body
    <2>2. QED
      BY <1>6, <2>1
  <1>8. Eq(Below)
    BY <1>7 DEF Below
  <1> DEFINE P == {m \in Nodes : Below[m] \subseteq Nodes}
  <1>9. ASSUME NEW m \in Nodes PROVE Below[m] = {m} \cup UNION {Below[c] : c \in Children(m)}
    <2> DEFINE B == Below
    <2>1. B = [k \in Nodes |-> Body(k, B)]
      BY <1>8
    <2> HIDE DEF B, Body
    <2>2. B[m] = Body(m, B)
      BY <2>1
    <2>3. QED
      BY <2>2 DEF B, Body
  <1>10. Inherited(P)
    <2>1. ASSUME NEW m \in Nodes, Children(m) \subseteq P PROVE Below[m] \subseteq Nodes
      <3>1. \A c \in Children(m) : Below[c] \subseteq Nodes
        BY <2>1
      <3>2. QED
        BY <1>9, <3>1
    <2>2. QED
      BY <2>1 DEF Inherited
  <1>11. \A m \in Nodes : m \in P
    <2> HIDE DEF P
    <2>1. QED
      BY <1>10, TreeInduction
  <1>12. QED
    BY <1>9, <1>11

\* A node below another is that node or below one of those under it.
LEMMA BelowOne ==
    ASSUME NEW n \in Nodes, NEW m \in Below[n], m # n
    PROVE  \E c \in Children(n) : m \in Below[c]
  BY BelowIs

\* What is below a child is below its parent.
LEMMA BelowChild ==
    ASSUME NEW n \in Nodes, NEW c \in Children(n)
    PROVE  c \in Nodes /\ Below[c] \subseteq Below[n] /\ c \in Below[c] /\ c \in Below[n] /\ n \in Below[n]
  <1>1. c \in Nodes
    BY ChildrenAre
  <1>2. Below[n] = {n} \cup UNION {Below[d] : d \in Children(n)}
    BY BelowIs
  <1>3. c \in Below[c]
    BY <1>1, BelowIs
  <1>4. Below[c] \subseteq Below[n] /\ n \in Below[n]
    BY ONLY <1>2, c \in Children(n)
  <1>5. QED
    BY <1>1, <1>3, <1>4

\* What is below a node below another is below that one.
LEMMA BelowBelow ==
    ASSUME NEW n \in Nodes, NEW m \in Below[n]
    PROVE  m \in Nodes /\ Below[m] \subseteq Below[n]
  <1> DEFINE P == {k \in Nodes : \A j \in Below[k] : Below[j] \subseteq Below[k]}
  <1>1. ASSUME NEW k \in Nodes, Children(k) \subseteq P PROVE k \in P
    <2>1. ASSUME NEW j \in Below[k], j # k PROVE Below[j] \subseteq Below[k]
      <3>1. PICK c \in Children(k) : j \in Below[c]
        BY <2>1, BelowOne
      <3>2. Below[j] \subseteq Below[c]
        BY <1>1, <3>1
      <3>3. Below[c] \subseteq Below[k]
        BY BelowChild
      <3>4. QED
        BY <3>2, <3>3
    <2>2. QED
      BY <2>1
  <1>2. Inherited(P)
    <2> HIDE DEF P
    <2>1. QED
      BY <1>1 DEF Inherited
  <1> HIDE DEF P
  <1>3. \A k \in Nodes : k \in P
    BY <1>2, TreeInduction
  <1>4. QED
    BY <1>3, BelowIs DEF P

\* The nodes under several keys.
LEMMA PartsAre ==
    ASSUME NEW n \in Nodes, NEW K, NEW keys \in Seq(K)
    PROVE  /\ Parts(n, keys) \in Seq(Children(n))
           /\ Range(Parts(n, keys)) = UNION {Range(Part(n, keys[k])) : k \in 1..Len(keys)}
  <1> DEFINE m == Len(keys)
             s == [k \in DOMAIN keys |-> Part(n, keys[k])]
  <1>1. m \in Nat /\ DOMAIN keys = 1..m
    OBVIOUS
  <1>2. s \in [1..m -> Seq(Children(n))]
    BY <1>1, ChildrenAre
  <1>3. \A k \in 1..m : s[k] = Part(n, keys[k])
    BY <1>1
  <1>4. Parts(n, keys) = FlattenSeq(s)
    BY DEF Parts
  <1> HIDE DEF s, m
  <1>5. FlattenSeq(s) \in Seq(Children(n)) /\ Range(FlattenSeq(s)) = UNION {Range(s[k]) : k \in 1..m}
    BY <1>1, <1>2, FlattenRange
  <1>6. {Range(s[k]) : k \in 1..m} = {Range(Part(n, keys[k])) : k \in 1..m}
    BY <1>3
  <1>7. QED
    BY <1>4, <1>5, <1>6 DEF m

-----------------------------------------------------------------------------
(* Variables. *)

\* The variables of a list of declarations, blanks left out.
LEMMA ParsedIs ==
    ASSUME NEW decls, decls \in Seq(Range(decls)), NEW statement
    PROVE  /\ Parsed(decls, statement) \in Seq(Range(Parsed(decls, statement)))
           /\ Range(Parsed(decls, statement)) = {ParseVarDecl(d, statement) : d \in Range(decls) \ {None}}
  <1> DEFINE present == Only(decls, Range(decls) \ {None})
             n == Len(present)
             p == Parsed(decls, statement)
  <1>1. present \in Seq(Range(decls)) /\ Range(present) = Range(decls) \cap (Range(decls) \ {None})
    BY OnlyIs
  <1>2. p = [i \in DOMAIN present |-> ParseVarDecl(present[i], statement)]
    BY DEF Parsed
  <1> HIDE DEF p, present
  <1>3. n \in Nat /\ DOMAIN present = 1..n
    BY <1>1
  <1> HIDE DEF n
  <1>4. DOMAIN p = 1..n /\ \A i \in 1..n : p[i] = ParseVarDecl(present[i], statement)
    BY <1>2, <1>3
  <1>5. p = [i \in 1..n |-> p[i]]
    BY <1>2, <1>3
  <1>6. \A i \in 1..n : p[i] \in Range(p)
    BY <1>4 DEF Range
  <1>7. p \in [1..n -> Range(p)]
    BY <1>5, <1>6
  <1>8. p \in Seq(Range(p))
    BY ONLY <1>3, <1>7, Mapping
  <1>9. Range(present) = {present[i] : i \in 1..n}
    BY <1>3 DEF Range
  <1>10. Range(p) = {p[i] : i \in 1..n}
    BY <1>4 DEF Range
  <1>11. Range(p) = {ParseVarDecl(d, statement) : d \in Range(present)}
    BY ONLY <1>4, <1>9, <1>10
  <1>12. Range(present) = Range(decls) \ {None}
    BY <1>1
  <1>13. QED
    BY ONLY <1>8, <1>11, <1>12 DEF p

\* Those that have a name.
LEMMA NamedIs ==
    ASSUME NEW decls, decls \in Seq(Range(decls))
    PROVE  /\ Named(decls) \in Seq(Range(Parsed(decls, None)))
           /\ Range(Named(decls)) = {v \in Range(Parsed(decls, None)) : v.name # Unnamed}
  <1> DEFINE p == Parsed(decls, None)
             T == {v \in Range(p) : v.name # Unnamed}
  <1>1. p \in Seq(Range(p))
    BY ParsedIs
  <1>2. Only(p, T) \in Seq(Range(p)) /\ Range(Only(p, T)) = Range(p) \cap T
    <2> HIDE DEF p, T
    <2>1. QED
      BY ONLY <1>1, OnlyIs
  <1>3. Named(decls) = Only(p, T) /\ Range(p) \cap T = T
    BY DEF Named
  <1>4. QED
    BY <1>2, <1>3

\* Every variable there is.
Decls == UNION {Range(n.declarations) \cup Range(n.parameters) \cup Range(n.returnParameters) : n \in Nodes}
Vars == {ParseVarDecl(d, s) : d \in Decls, s \in {n.src : n \in Nodes} \cup {None}}

\* The variables a node declares itself.
Own(n) == IF n.nodeType = "VariableDeclarationStatement" THEN Parsed(n.declarations, n.src) ELSE << >>
Caught(n) == IF n.nodeType = "TryCatchClause" THEN Named(n.parameters) ELSE << >>

\* They are variables.
LEMMA DeclsAre ==
    ASSUME NEW n \in Nodes
    PROVE  /\ n.declarations \in Seq(Range(n.declarations))
           /\ n.parameters \in Seq(Range(n.parameters))
           /\ n.returnParameters \in Seq(Range(n.returnParameters))
           /\ Own(n) \in Seq(Vars) /\ Caught(n) \in Seq(Vars)
           /\ Parsed(n.parameters, None) \in Seq(Vars) /\ Named(n.returnParameters) \in Seq(Vars)
  <1>1. /\ n.declarations \in Seq(Range(n.declarations))
        /\ n.parameters \in Seq(Range(n.parameters))
        /\ n.returnParameters \in Seq(Range(n.returnParameters))
    BY FieldsAssumption
  <1>2. ASSUME NEW decls, decls \in Seq(Range(decls)), Range(decls) \subseteq Decls,
               NEW s \in {m.src : m \in Nodes} \cup {None}
        PROVE  Parsed(decls, s) \in Seq(Vars) /\ Range(Parsed(decls, s)) \subseteq Vars
    <2>1. /\ Parsed(decls, s) \in Seq(Range(Parsed(decls, s)))
          /\ Range(Parsed(decls, s)) = {ParseVarDecl(d, s) : d \in Range(decls) \ {None}}
      BY <1>2, ParsedIs
    <2>2. Range(Parsed(decls, s)) \subseteq Vars
      BY <1>2, <2>1 DEF Vars
    <2>3. QED
      BY ONLY <2>1, <2>2, SeqMonotonic
  <1>3. ASSUME NEW decls, decls \in Seq(Range(decls)), Range(decls) \subseteq Decls
        PROVE  Parsed(decls, None) \in Seq(Vars) /\ Named(decls) \in Seq(Vars)
    <2>1. Parsed(decls, None) \in Seq(Vars) /\ Range(Parsed(decls, None)) \subseteq Vars
      BY <1>2, <1>3
    <2>2. Named(decls) \in Seq(Range(Parsed(decls, None)))
      BY <1>3, NamedIs
    <2>3. QED
      BY ONLY <2>1, <2>2, SeqMonotonic
  <1>4. /\ Range(n.declarations) \subseteq Decls /\ Range(n.parameters) \subseteq Decls
        /\ Range(n.returnParameters) \subseteq Decls
    BY DEF Decls
  <1>5. Parsed(n.declarations, n.src) \in Seq(Vars)
    BY <1>1, <1>2, <1>4
  <1>6. Parsed(n.parameters, None) \in Seq(Vars) /\ Named(n.parameters) \in Seq(Vars)
    BY <1>1, <1>3, <1>4
  <1>7. Named(n.returnParameters) \in Seq(Vars)
    BY <1>1, <1>3, <1>4
  <1>8. << >> \in Seq(Vars)
    BY EmptySeq
  <1>9. QED
    BY <1>1, <1>5, <1>6, <1>7, <1>8 DEF Own, Caught

\* The variables of a list of nodes, from those of each.
FromEach(nodes, f) == FlattenSeq([i \in DOMAIN nodes |-> f[nodes[i]]])

\* They are the variables of each, together.
LEMMA FromIs ==
    ASSUME NEW N, NEW A, NEW nodes \in Seq(N), NEW f, \A n \in N : f[n] \in Seq(A)
    PROVE  /\ FromEach(nodes, f) \in Seq(A)
           /\ Range(FromEach(nodes, f)) = UNION {Range(f[n]) : n \in Range(nodes)}
  <1> DEFINE m == Len(nodes)
             s == [i \in DOMAIN nodes |-> f[nodes[i]]]
  <1>1. m \in Nat /\ DOMAIN nodes = 1..m /\ \A i \in 1..m : nodes[i] \in N
    OBVIOUS
  <1>2. s \in [1..m -> Seq(A)] /\ \A i \in 1..m : s[i] = f[nodes[i]]
    BY <1>1
  <1>3. Range(nodes) = {nodes[i] : i \in 1..m}
    BY <1>1 DEF Range
  <1> HIDE DEF s, m
  <1>4. FlattenSeq(s) \in Seq(A) /\ Range(FlattenSeq(s)) = UNION {Range(s[i]) : i \in 1..m}
    BY <1>1, <1>2, FlattenRange
  <1>5. {Range(s[i]) : i \in 1..m} = {Range(f[n]) : n \in Range(nodes)}
    BY <1>2, <1>3
  <1>6. QED
    BY <1>4, <1>5 DEF FromEach, s

\* The locals of a node are its own, those of the nodes searched, and those of
\* its clause.
LEMMA CollectIs ==
    ASSUME NEW n \in Nodes
    PROVE  /\ CollectLocalVars[n] \in Seq(Vars)
           /\ Range(CollectLocalVars[n]) = Range(Own(n)) \cup Range(Caught(n))
                  \cup UNION {Range(CollectLocalVars[c]) : c \in Range(Parts(n, SubNodes))}
  <1> DEFINE Under(m) == Parts(m, SubNodes)
             Body(m, g) == Own(m) \o FromEach(Under(m), g) \o Caught(m)
             G == [m \in Nodes |-> [g \in [Children(m) -> Seq(Vars)] |-> Body(m, g)]]
             Eq(f) == f = [m \in Nodes |-> Body(m, f)]
  <1>1. \A m \in Nodes : TreeKids[m] = Children(m)
    BY DEF TreeKids
  <1>2. SubNodes \in Seq(StatementKeys)
    BY DEF SubNodes, StatementKeys
  <1>3. ASSUME NEW m \in Nodes, NEW g \in [Children(m) -> Seq(Vars)]
        PROVE  Body(m, g) \in Seq(Vars) /\ G[m][g] = Body(m, g)
    <2>1. Under(m) \in Seq(Children(m)) /\ \A c \in Children(m) : g[c] \in Seq(Vars)
      BY <1>2, PartsAre
    <2>2. FromEach(Under(m), g) \in Seq(Vars)
      BY <2>1, FromIs
    <2>3. Own(m) \in Seq(Vars) /\ Caught(m) \in Seq(Vars)
      BY DeclsAre
    <2>4. Body(m, g) \in Seq(Vars)
      <3> DEFINE s == FromEach(Under(m), g)
      <3> HIDE DEF s
      <3>1. Own(m) \o s \o Caught(m) \in Seq(Vars)
        BY <2>2, <2>3, ConcatProperties DEF s
      <3>2. QED
        BY <3>1 DEF s
    <2> HIDE DEF Body
    <2>5. QED
      BY <2>4
  <1> HIDE DEF G
  <1>4. Grows(G, Nodes, TreeKids, Seq(Vars))
    <2> HIDE DEF Body
    <2>1. QED
      BY <1>1, <1>3 DEF Grows
  <1>5. PICK f : IsTree(f, Nodes, TreeKids, G, Seq(Vars))
    BY <1>4, NodesGrounded, TreeExists
  <1>6. f \in [Nodes -> Seq(Vars)] /\ \A m \in Nodes : f[m] = G[m][[c \in Children(m) |-> f[c]]]
    BY <1>1, <1>5 DEF IsTree
  <1>7. ASSUME NEW m \in Nodes PROVE f[m] = Body(m, f)
    <2> DEFINE g == [c \in Children(m) |-> f[c]]
               u == Under(m)
    <2>1. g \in [Children(m) -> Seq(Vars)] /\ \A c \in Children(m) : g[c] = f[c]
      BY <1>6, ChildrenAre
    <2>2. f[m] = Body(m, g)
      <3> HIDE DEF g, Body
      <3>1. QED
        BY <1>3, <1>6, <2>1 DEF g
    <2>3. u \in Seq(Children(m))
      BY <1>2, PartsAre
    <2> HIDE DEF u, g
    <2>4. \A i \in DOMAIN u : u[i] \in Children(m)
      BY <2>3
    <2>5. [i \in DOMAIN u |-> g[u[i]]] = [i \in DOMAIN u |-> f[u[i]]]
      BY <2>1, <2>4
    <2>6. FromEach(u, g) = FromEach(u, f)
      BY <2>5 DEF FromEach
    <2>7. QED
      BY <2>2, <2>6 DEF u
  <1>8. Eq(f)
    <2>1. f = [m \in Nodes |-> f[m]]
      BY <1>6
    <2> HIDE DEF Body
    <2>2. QED
      BY <1>7, <2>1
  <1>9. Eq(CollectLocalVars)
    BY <1>8 DEF CollectLocalVars, FromEach, Own, Caught
  <1>10. ASSUME NEW m \in Nodes PROVE CollectLocalVars[m] = Body(m, CollectLocalVars)
    <2> DEFINE C == CollectLocalVars
    <2>1. C = [k \in Nodes |-> Body(k, C)]
      BY <1>9
    <2> HIDE DEF C, Body
    <2>2. C[m] = Body(m, C)
      BY <2>1
    <2>3. QED
      BY <2>2 DEF C
  <1> DEFINE P == {m \in Nodes : CollectLocalVars[m] \in Seq(Vars)}
  <1>11. ASSUME NEW m \in Nodes, \A c \in Children(m) : CollectLocalVars[c] \in Seq(Vars)
         PROVE  /\ CollectLocalVars[m] \in Seq(Vars)
                /\ Range(CollectLocalVars[m]) = Range(Own(m)) \cup Range(Caught(m))
                       \cup UNION {Range(CollectLocalVars[c]) : c \in Range(Under(m))}
    <2> DEFINE s == FromEach(Under(m), CollectLocalVars)
    <2>1. Under(m) \in Seq(Children(m))
      BY <1>2, PartsAre
    <2>2. /\ s \in Seq(Vars)
          /\ Range(s) = UNION {Range(CollectLocalVars[c]) : c \in Range(Under(m))}
      BY <1>11, <2>1, FromIs
    <2>3. Own(m) \in Seq(Vars) /\ Caught(m) \in Seq(Vars)
      BY DeclsAre
    <2>4. CollectLocalVars[m] = Own(m) \o s \o Caught(m)
      BY <1>10
    <2> HIDE DEF s
    <2> DEFINE t == Own(m) \o s
    <2>5. t \in Seq(Vars)
      BY <2>2, <2>3, ConcatProperties
    <2>6. Range(t) = Range(Own(m)) \cup Range(s)
      BY <2>2, <2>3, RangeConcatenation
    <2>9. CollectLocalVars[m] = t \o Caught(m)
      BY <2>4
    <2> HIDE DEF t
    <2>7. t \o Caught(m) \in Seq(Vars)
      BY <2>3, <2>5, ConcatProperties
    <2>10. Range(t \o Caught(m)) = Range(t) \cup Range(Caught(m))
      BY <2>3, <2>5, RangeConcatenation
    <2>8. QED
      BY <2>2, <2>6, <2>7, <2>9, <2>10
  <1> HIDE DEF Body, Under
  <1>12. Inherited(P)
    BY <1>11 DEF Inherited
  <1>13. \A m \in Nodes : m \in P
    <2> HIDE DEF P
    <2>1. QED
      BY <1>12, TreeInduction
  <1>14. \A c \in Children(n) : CollectLocalVars[c] \in Seq(Vars)
    BY <1>13, ChildrenAre
  <1>15. QED
    BY <1>11, <1>14 DEF Under

-----------------------------------------------------------------------------
(* Functions. *)

\* Every extracted function there may be.
FunctionNodes == {n \in Nodes : IsFunction(n)}
Extracted == {ParseFunction(n, h) : n \in FunctionNodes, h \in Holders}

\* The contract that functions below a node are in; what is extracted from a list
\* of nodes of a contract, by a function that says it of each.
HolderIn(n, h) == IF n.nodeType = "ContractDefinition" THEN HolderOf(n) ELSE h
HeldIn(nodes, h, f) == UNION {Range(f[<< n, h >>]) : n \in Range(nodes)}
FromHeld(nodes, h, f) == FlattenSeq([i \in DOMAIN nodes |-> f[<< nodes[i], h >>]])

\* They are the functions of each, together.
LEMMA FromHeldIs ==
    ASSUME NEW N, NEW A, NEW nodes \in Seq(N), NEW h, NEW f, \A n \in N : f[<< n, h >>] \in Seq(A)
    PROVE  /\ FromHeld(nodes, h, f) \in Seq(A)
           /\ Range(FromHeld(nodes, h, f)) = HeldIn(nodes, h, f)
  <1> DEFINE g == [n \in N |-> f[<< n, h >>]]
  <1>1. \A n \in N : g[n] = f[<< n, h >>]
    OBVIOUS
  <1>0. \A n \in N : g[n] \in Seq(A)
    BY <1>1
  <1> HIDE DEF g
  <1>2. FromEach(nodes, g) \in Seq(A) /\ Range(FromEach(nodes, g)) = UNION {Range(g[n]) : n \in Range(nodes)}
    BY <1>0, FromIs
  <1>3. \A i \in DOMAIN nodes : nodes[i] \in N
    OBVIOUS
  <1>4. [i \in DOMAIN nodes |-> g[nodes[i]]] = [i \in DOMAIN nodes |-> f[<< nodes[i], h >>]]
    BY <1>1, <1>3
  <1>5. FromEach(nodes, g) = FromHeld(nodes, h, f)
    BY <1>4 DEF FromEach, FromHeld
  <1>6. Range(nodes) \subseteq N
    BY <1>3 DEF Range
  <1>7. {Range(g[n]) : n \in Range(nodes)} = {Range(f[<< n, h >>]) : n \in Range(nodes)}
    BY <1>1, <1>6
  <1>8. QED
    BY <1>2, <1>5, <1>7 DEF HeldIn

\* A function is extracted; other nodes are searched.
LEMMA VisitIs ==
    ASSUME NEW n \in Nodes, NEW h \in Holders
    PROVE  /\ VisitNode[<< n, h >>] \in Seq(Extracted)
           /\ HolderIn(n, h) \in Holders
           /\ IF IsFunction(n) THEN VisitNode[<< n, h >>] = << ParseFunction(n, HolderIn(n, h)) >>
              ELSE Range(VisitNode[<< n, h >>]) =
                       UNION {Range(VisitNode[<< c, HolderIn(n, h) >>]) : c \in Range(Parts(n, VisitedKeys))}
  <1> DEFINE D == Nodes \X Holders
             S == Seq(Extracted)
             Under(m) == Parts(m, VisitedKeys)
             Body(at, g) ==
                 IF IsFunction(at[1]) THEN << ParseFunction(at[1], HolderIn(at[1], at[2])) >>
                 ELSE FromHeld(Under(at[1]), HolderIn(at[1], at[2]), g)
             kids == [at \in D |-> Children(at[1]) \X {HolderIn(at[1], at[2])}]
             rank == [at \in D |-> at[1].id]
             G == [at \in D |-> [g \in [kids[at] -> S] |-> Body(at, g)]]
             Eq(f) == f = [at \in D |-> Body(at, f)]
  <1>1. \A m \in Nodes : \A k \in Holders : HolderIn(m, k) \in Holders
    BY DEF HolderIn, Holders
  <1>2. \A m \in Nodes : Under(m) \in Seq(Children(m))
    <2>1. VisitedKeys \in Seq({"nodes", "body", "statements"})
      BY DEF VisitedKeys
    <2>2. QED
      BY <2>1, PartsAre
  <1> HIDE DEF Under
  <1>3. ASSUME NEW at \in D
        PROVE  /\ at[1] \in Nodes /\ at[2] \in Holders /\ HolderIn(at[1], at[2]) \in Holders
               /\ kids[at] = Children(at[1]) \X {HolderIn(at[1], at[2])} /\ kids[at] \subseteq D
               /\ rank[at] = at[1].id /\ rank[at] \in Nat
               /\ \A y \in kids[at] : rank[y] < rank[at]
    <2>1. at[1] \in Nodes /\ at[2] \in Holders /\ HolderIn(at[1], at[2]) \in Holders
      BY <1>1
    <2>2. Children(at[1]) \subseteq Nodes /\ at[1].id \in Nat /\ \A c \in Children(at[1]) : c.id < at[1].id
      BY <2>1, ChildrenAre
    <2>3. kids[at] = Children(at[1]) \X {HolderIn(at[1], at[2])} /\ kids[at] \subseteq D
      BY <2>1, <2>2
    <2>4. \A y \in kids[at] : y[1] \in Children(at[1]) /\ y \in D
      BY <2>3
    <2>5. \A y \in D : rank[y] = y[1].id
      OBVIOUS
    <2> HIDE DEF kids, rank, D
    <2>6. \A y \in kids[at] : rank[y] < rank[at]
      BY <2>2, <2>4, <2>5
    <2>7. QED
      BY <2>1, <2>2, <2>3, <2>5, <2>6
  <1>4. Grounded(D, rank, kids)
    <2>1. rank \in [D -> Nat] /\ kids \in [D -> SUBSET D]
      <3>1. rank = [at \in D |-> rank[at]] /\ kids = [at \in D |-> kids[at]]
        OBVIOUS
      <3> HIDE DEF kids, rank, D
      <3>2. QED
        BY <1>3, <3>1
    <2> HIDE DEF kids, rank, D
    <2>2. QED
      BY <1>3, <2>1 DEF Grounded
  <1> HIDE DEF rank, S
  <1>5. ASSUME NEW at \in D, NEW g \in [kids[at] -> S]
        PROVE  Body(at, g) \in S /\ G[at][g] = Body(at, g)
    <2>1. /\ at[1] \in Nodes /\ at[2] \in Holders /\ HolderIn(at[1], at[2]) \in Holders
          /\ kids[at] = Children(at[1]) \X {HolderIn(at[1], at[2])}
      BY <1>3
    <2> HIDE DEF kids
    <2>2. CASE IsFunction(at[1])
      <3>1. ParseFunction(at[1], HolderIn(at[1], at[2])) \in Extracted
        BY <2>1, <2>2 DEF Extracted, FunctionNodes
      <3>2. Body(at, g) = << ParseFunction(at[1], HolderIn(at[1], at[2])) >>
        BY <2>2
      <3> HIDE DEF Body, D
      <3>3. Body(at, g) \in S
        BY <3>1, <3>2 DEF S
      <3>4. QED
        BY <3>3
    <2>3. CASE ~IsFunction(at[1])
      <3> DEFINE h1 == HolderIn(at[1], at[2])
      <3>1. \A c \in Children(at[1]) : << c, h1 >> \in kids[at]
        BY <2>1
      <3>2. \A c \in Children(at[1]) : g[<< c, h1 >>] \in Seq(Extracted)
        BY <3>1 DEF S
      <3>3. Under(at[1]) \in Seq(Children(at[1]))
        BY <1>2, <2>1
      <3> HIDE DEF h1
      <3>4. FromHeld(Under(at[1]), h1, g) \in Seq(Extracted)
        BY <3>2, <3>3, FromHeldIs
      <3>5. Body(at, g) = FromHeld(Under(at[1]), h1, g)
        BY <2>3 DEF h1
      <3> HIDE DEF Body, D
      <3>6. Body(at, g) \in S
        BY <3>4, <3>5 DEF S
      <3>7. QED
        BY <3>6
    <2>4. QED
      BY <2>2, <2>3
  <1> HIDE DEF G
  <1>6. Grows(G, D, kids, S)
    <2> HIDE DEF Body, D, kids
    <2>1. QED
      BY <1>5 DEF Grows
  <1>7. PICK f : IsTree(f, D, kids, G, S)
    <2> HIDE DEF D, kids
    <2>1. QED
      BY <1>4, <1>6, TreeExists
  <1>8. f \in [D -> S] /\ \A at \in D : f[at] = G[at][[y \in kids[at] |-> f[y]]]
    BY <1>7 DEF IsTree
  <1>9. ASSUME NEW at \in D PROVE f[at] = Body(at, f)
    <2> DEFINE g == [y \in kids[at] |-> f[y]]
               h1 == HolderIn(at[1], at[2])
               u == Under(at[1])
    <2>1. /\ at[1] \in Nodes /\ kids[at] \subseteq D
          /\ kids[at] = Children(at[1]) \X {h1}
      BY <1>3
    <2> HIDE DEF kids
    <2>2. g \in [kids[at] -> S] /\ \A y \in kids[at] : g[y] = f[y]
      BY <1>8, <2>1
    <2>3. f[at] = Body(at, g)
      <3> HIDE DEF g, Body, D
      <3>1. QED
        BY <1>5, <1>8, <2>2 DEF g
    <2>4. u \in Seq(Children(at[1]))
      BY <1>2, <2>1
    <2> HIDE DEF u, g, h1
    <2>5. \A i \in DOMAIN u : u[i] \in Children(at[1])
      BY <2>4
    <2>6. \A i \in DOMAIN u : << u[i], h1 >> \in kids[at]
      BY <2>1, <2>5
    <2>7. [i \in DOMAIN u |-> g[<< u[i], h1 >>]] = [i \in DOMAIN u |-> f[<< u[i], h1 >>]]
      BY <2>2, <2>6
    <2>8. FromHeld(u, h1, g) = FromHeld(u, h1, f)
      BY <2>7 DEF FromHeld
    <2>9. QED
      BY <2>3, <2>8 DEF u, h1
  <1>10. Eq(f)
    <2>1. f = [at \in D |-> f[at]]
      BY <1>8
    <2> HIDE DEF Body, D
    <2>2. QED
      BY <1>9, <2>1
  <1>11. Eq(VisitNode)
    BY <1>10 DEF VisitNode, FromHeld, HolderIn, Under
  <1>12. ASSUME NEW m \in Nodes, NEW k \in Holders
         PROVE  VisitNode[<< m, k >>] =
                    IF IsFunction(m) THEN << ParseFunction(m, HolderIn(m, k)) >>
                    ELSE FromHeld(Under(m), HolderIn(m, k), VisitNode)
    <2> DEFINE V == VisitNode
               at == << m, k >>
    <2>1. V = [x \in D |-> Body(x, V)]
      BY <1>11
    <2>2. at \in D /\ at[1] = m /\ at[2] = k
      OBVIOUS
    <2> HIDE DEF V, Body, D, at
    <2>3. V[at] = Body(at, V)
      BY <2>1, <2>2
    <2>4. V[at] = IF IsFunction(m) THEN << ParseFunction(m, HolderIn(m, k)) >>
                  ELSE FromHeld(Under(m), HolderIn(m, k), V)
      BY <2>2, <2>3 DEF Body
    <2>5. QED
      BY <2>4 DEF V, at
  <1> DEFINE Fine(m) == \A k \in Holders : VisitNode[<< m, k >>] \in Seq(Extracted)
             P == {m \in Nodes : Fine(m)}
  <1>13. ASSUME NEW m \in Nodes, NEW k \in Holders, Children(m) \subseteq P
         PROVE  /\ VisitNode[<< m, k >>] \in Seq(Extracted)
                /\ ~IsFunction(m) => Range(VisitNode[<< m, k >>]) =
                       UNION {Range(VisitNode[<< c, HolderIn(m, k) >>]) : c \in Range(Under(m))}
    <2>1. CASE IsFunction(m)
      <3> DEFINE p == ParseFunction(m, HolderIn(m, k))
      <3>1. p \in Extracted
        BY <1>1, <2>1 DEF Extracted, FunctionNodes
      <3>2. VisitNode[<< m, k >>] = << p >>
        BY <1>12, <2>1
      <3> HIDE DEF p
      <3>3. << p >> \in Seq(Extracted)
        BY <3>1
      <3>4. QED
        BY <2>1, <3>2, <3>3
    <2>2. CASE ~IsFunction(m)
      <3> DEFINE k1 == HolderIn(m, k)
      <3>1. k1 \in Holders
        BY <1>1
      <3> HIDE DEF k1
      <3>2. \A c \in Children(m) : VisitNode[<< c, k1 >>] \in Seq(Extracted)
        BY <1>13, <3>1
      <3>3. Under(m) \in Seq(Children(m))
        BY <1>2
      <3> DEFINE V == VisitNode
      <3> HIDE DEF V
      <3>4. \A c \in Children(m) : V[<< c, k1 >>] \in Seq(Extracted)
        BY <3>2 DEF V
      <3> DEFINE u == Under(m)
                 N == Children(m)
      <3>10. u \in Seq(N) /\ \A c \in N : V[<< c, k1 >>] \in Seq(Extracted)
        BY <3>3, <3>4
      <3> HIDE DEF u, N
      <3>11. \A c \in N : V[<< c, k1 >>] \in Seq(Extracted)
        BY <3>10
      <3>5. /\ FromHeld(u, k1, V) \in Seq(Extracted)
            /\ Range(FromHeld(u, k1, V)) = HeldIn(u, k1, V)
        BY ONLY <3>10, <3>11, FromHeldIs
      <3>6. V[<< m, k >>] = FromHeld(Under(m), k1, V)
        BY <1>12, <2>2 DEF V, k1
      <3>7. QED
        BY <2>2, <3>5, <3>6 DEF V, k1, u, HeldIn
    <2>3. QED
      BY <2>1, <2>2
  <1>14. Inherited(P)
    <2> HIDE DEF Body, D
    <2>1. ASSUME NEW m \in Nodes, Children(m) \subseteq P PROVE m \in P
      BY <1>13, <2>1
    <2> HIDE DEF P
    <2>2. QED
      BY <2>1 DEF Inherited
  <1>15. \A m \in Nodes : m \in P
    <2> HIDE DEF P
    <2>1. QED
      BY <1>14, TreeInduction
  <1>16. Children(n) \subseteq P
    BY <1>15, ChildrenAre
  <1> HIDE DEF P
  <1>17. QED
    BY <1>1, <1>12, <1>13, <1>16 DEF Under

-----------------------------------------------------------------------------
(* Extraction finds every function. *)

\* What is extracted of a function, whatever contract it is thought to be in.
Held(f) == {ParseFunction(f, h) : h \in Holders}

\* The functions taken out of a list are those of some nodes, all of them.
TakenFrom(s, fs) == /\ \A g \in Range(s) : \E f \in fs : g \in Held(f)
                    /\ \A f \in fs : \E g \in Range(s) : g \in Held(f)

\* The keys visited lead to children, and members are under one of them.
LEMMA VisitedAre ==
    ASSUME NEW n \in Nodes
    PROVE  /\ Range(Parts(n, VisitedKeys)) \subseteq Children(n)
           /\ Range(Part(n, "nodes")) \subseteq Range(Parts(n, VisitedKeys))
           /\ Parts(n, VisitedKeys) \in Seq(Children(n))
  <1>1. /\ VisitedKeys \in Seq({"nodes", "body", "statements"})
        /\ Len(VisitedKeys) = 3 /\ VisitedKeys[1] = "nodes"
    BY DEF VisitedKeys
  <1> DEFINE K == {"nodes", "body", "statements"}
             keys == VisitedKeys
  <1>2. keys \in Seq(K)
    BY <1>1
  <1> HIDE DEF keys, K
  <1>3. /\ Parts(n, keys) \in Seq(Children(n))
        /\ Range(Parts(n, keys)) = UNION {Range(Part(n, keys[k])) : k \in 1..Len(keys)}
    BY <1>2, PartsAre
  <1>4. 1 \in 1..Len(keys) /\ keys[1] = "nodes"
    BY <1>1 DEF keys
  <1>5. Range(Part(n, "nodes")) \subseteq Range(Parts(n, keys))
    BY <1>3, <1>4
  <1>6. Range(Parts(n, keys)) \subseteq Children(n)
    BY <1>3 DEF Range
  <1>7. QED
    BY <1>3, <1>5, <1>6 DEF keys

\* The functions of a node are those of its children, or itself.
LEMMA FunctionsAre ==
    ASSUME NEW n \in Nodes
    PROVE  /\ Functions(n) \subseteq FunctionNodes
           /\ \A c \in Children(n) : Functions(c) \subseteq Functions(n)
           /\ IsFunction(n) => Functions(n) = {n}
           /\ ~IsFunction(n) => \A f \in Functions(n) :
                  \E c \in Range(Part(n, "nodes")) : c \in Children(n) /\ f \in Functions(c)
  <1>1. Below[n] \subseteq Nodes /\ n \in Below[n]
    BY BelowIs
  <1>2. Functions(n) \subseteq FunctionNodes
    BY <1>1 DEF Functions, FunctionNodes
  <1>3. \A c \in Children(n) : Functions(c) \subseteq Functions(n)
    BY BelowChild DEF Functions
  <1>4. ASSUME NEW f \in Functions(n), f # n
        PROVE  ~IsFunction(n) /\ \E c \in Range(Part(n, "nodes")) : c \in Children(n) /\ f \in Functions(c)
    <2>1. f \in Below[n] /\ IsFunction(f)
      BY DEF Functions
    <2>2. PICK c \in Children(n) : f \in Below[c]
      BY <1>4, <2>1, BelowOne
    <2>3. f \in Functions(c)
      BY <2>1, <2>2 DEF Functions
    <2>4. ~IsFunction(n) /\ c \in Range(Part(n, "nodes"))
      BY <2>3, GrammarAssumption
    <2>5. QED
      BY <2>3, <2>4
  <1>5. IsFunction(n) => n \in Functions(n)
    BY <1>1 DEF Functions
  <1>6. \A f \in Functions(n) : IsFunction(f)
    BY DEF Functions
  <1>7. QED
    BY <1>2, <1>3, <1>4, <1>5, <1>6

\* Every function below a node is extracted from it, and nothing else.
LEMMA VisitFinds ==
    \A n \in Nodes : \A h \in Holders : TakenFrom(VisitNode[<< n, h >>], Functions(n))
  <1> DEFINE P == {n \in Nodes : \A h \in Holders : TakenFrom(VisitNode[<< n, h >>], Functions(n))}
  <1>1. ASSUME NEW n \in Nodes, Children(n) \subseteq P, NEW h \in Holders
        PROVE  TakenFrom(VisitNode[<< n, h >>], Functions(n))
    <2> DEFINE s == VisitNode[<< n, h >>]
               h1 == HolderIn(n, h)
    <2>1. h1 \in Holders
      BY VisitIs
    <2>2. CASE IsFunction(n)
      <3> DEFINE p == ParseFunction(n, h1)
      <3>1. s = << p >> /\ p \in Held(n)
        BY <2>1, <2>2, VisitIs DEF Held
      <3> HIDE DEF p, s
      <3>2. Range(s) = {p}
        BY <3>1 DEF Range
      <3>3. Functions(n) = {n}
        BY <2>2, FunctionsAre
      <3>4. QED
        BY <3>1, <3>2, <3>3 DEF TakenFrom, s
    <2>3. CASE ~IsFunction(n)
      <3> DEFINE U == Range(Parts(n, VisitedKeys))
                 V(c) == VisitNode[<< c, h1 >>]
      <3>1. Range(s) = UNION {Range(V(c)) : c \in U}
        BY <2>3, VisitIs
      <3>2. U \subseteq Children(n) /\ Range(Part(n, "nodes")) \subseteq U
        BY VisitedAre
      <3>3. \A c \in Children(n) : TakenFrom(V(c), Functions(c))
        BY <1>1, <2>1
      <3> HIDE DEF s, U, V
      <3>4. ASSUME NEW g \in Range(s) PROVE \E f \in Functions(n) : g \in Held(f)
        <4>1. PICK c \in U : g \in Range(V(c))
          BY <3>1
        <4>2. PICK f \in Functions(c) : g \in Held(f)
          BY <3>2, <3>3, <4>1 DEF TakenFrom
        <4>3. f \in Functions(n)
          BY <3>2, FunctionsAre
        <4>4. QED
          BY <4>2, <4>3
      <3>5. ASSUME NEW f \in Functions(n) PROVE \E g \in Range(s) : g \in Held(f)
        <4>1. PICK c \in Range(Part(n, "nodes")) : c \in Children(n) /\ f \in Functions(c)
          BY <2>3, FunctionsAre
        <4>2. PICK g \in Range(V(c)) : g \in Held(f)
          BY <3>3, <4>1 DEF TakenFrom
        <4>3. g \in Range(s)
          BY <3>1, <3>2, <4>1
        <4>4. QED
          BY <4>2, <4>3
      <3>6. QED
        BY <3>4, <3>5 DEF TakenFrom, s
    <2>4. QED
      BY <2>2, <2>3
  <1>2. ASSUME NEW n \in Nodes, Children(n) \subseteq P PROVE n \in P
    BY <1>1, <1>2
  <1>3. Inherited(P)
    <2> HIDE DEF P
    <2>1. QED
      BY <1>2 DEF Inherited
  <1>4. \A n \in Nodes : n \in P
    <2> HIDE DEF P
    <2>1. QED
      BY <1>3, TreeInduction
  <1>5. QED
    BY <1>4

\* So it is of the compilation units.
LEMMA AllFound ==
    ASSUME NEW units \in Seq(Nodes)
    PROVE  /\ FromCombinedJson(units) \in Seq(Extracted)
           /\ TakenFrom(FromCombinedJson(units), UNION {Functions(u) : u \in Range(units)})
  <1> DEFINE V == VisitNode
             s == FromHeld(units, NoHolder, V)
  <1>1. NoHolder \in Holders
    BY DEF Holders
  <1>2. \A n \in Nodes : V[<< n, NoHolder >>] \in Seq(Extracted)
    BY <1>1, VisitIs
  <1>3. \A n \in Nodes : TakenFrom(V[<< n, NoHolder >>], Functions(n))
    BY <1>1, VisitFinds
  <1>4. FromCombinedJson(units) = s
    BY DEF FromCombinedJson, FromHeld
  <1> HIDE DEF V
  <1>5. FromHeld(units, NoHolder, V) \in Seq(Extracted)
        /\ Range(FromHeld(units, NoHolder, V)) = HeldIn(units, NoHolder, V)
    BY <1>2, FromHeldIs
  <1>6. Range(s) = UNION {Range(V[<< n, NoHolder >>]) : n \in Range(units)}
    BY <1>5 DEF HeldIn
  <1>7. Range(units) \subseteq Nodes
    BY DEF Range
  <1> HIDE DEF s
  <1> DEFINE fs == UNION {Functions(u) : u \in Range(units)}
  <1>8. ASSUME NEW g \in Range(s) PROVE \E f \in fs : g \in Held(f)
    <2>1. PICK n \in Range(units) : g \in Range(V[<< n, NoHolder >>])
      BY <1>6
    <2>2. PICK f \in Functions(n) : g \in Held(f)
      BY <1>3, <1>7, <2>1 DEF TakenFrom
    <2>3. QED
      BY <2>2
  <1>9. ASSUME NEW f \in fs PROVE \E g \in Range(s) : g \in Held(f)
    <2>1. PICK n \in Range(units) : f \in Functions(n)
      OBVIOUS
    <2>2. PICK g \in Range(V[<< n, NoHolder >>]) : g \in Held(f)
      BY <1>3, <1>7, <2>1 DEF TakenFrom
    <2>3. g \in Range(s)
      BY <1>6, <2>2
    <2>4. QED
      BY <2>2, <2>3
  <1>10. TakenFrom(s, fs)
    <2> HIDE DEF fs
    <2>1. QED
      BY <1>8, <1>9 DEF TakenFrom
  <1>11. QED
    BY <1>4, <1>5, <1>10 DEF s

-----------------------------------------------------------------------------
(* Extraction finds every variable. *)

\* The variables a node declares, for itself or in its clause.
Declared(n) == Range(Own(n)) \cup Range(Caught(n))

\* Whatever may be under the key of a statement is searched.
LEMMA SearchedAre ==
    ASSUME NEW n \in Nodes, NEW key \in StatementKeys
    PROVE  Range(Part(n, key)) \subseteq Range(Parts(n, SubNodes))
  <1> DEFINE keys == SubNodes
  <1>1. keys \in Seq(StatementKeys) /\ Len(keys) = 8
    BY DEF SubNodes, StatementKeys
  <1>2. \E k \in 1..8 : keys[k] = key
    BY DEF SubNodes, StatementKeys
  <1> HIDE DEF keys
  <1>3. Range(Parts(n, keys)) = UNION {Range(Part(n, keys[k])) : k \in 1..Len(keys)}
    BY <1>1, PartsAre
  <1>4. Range(Part(n, key)) \subseteq Range(Parts(n, keys))
    BY <1>1, <1>2, <1>3
  <1>5. QED
    BY <1>4 DEF keys

\* Where there are no functions, every declaration is collected.
LEMMA CollectFinds ==
    \A n \in Nodes : Functions(n) = {} =>
        \A m \in Below[n] : Declares(m) => Declared(m) \subseteq Range(CollectLocalVars[n])
  <1> DEFINE P == {n \in Nodes : Functions(n) = {} =>
                       \A m \in Below[n] : Declares(m) => Declared(m) \subseteq Range(CollectLocalVars[n])}
  <1>1. ASSUME NEW n \in Nodes, Children(n) \subseteq P, Functions(n) = {}, NEW m \in Below[n], Declares(m)
        PROVE  Declared(m) \subseteq Range(CollectLocalVars[n])
    <2> DEFINE C(c) == Range(CollectLocalVars[c])
    <2>1. C(n) = Range(Own(n)) \cup Range(Caught(n)) \cup UNION {C(c) : c \in Range(Parts(n, SubNodes))}
      BY CollectIs
    <2>2. CASE m = n
      BY <2>1, <2>2 DEF Declared
    <2>3. ASSUME m # n PROVE Declared(m) \subseteq C(n)
      <3>1. PICK c \in Children(n) : m \in Below[c]
        BY <2>3, BelowOne
      <3>2. Functions(c) = {}
        BY <1>1, FunctionsAre
      <3>3. Declared(m) \subseteq C(c)
        BY <1>1, <3>1, <3>2
      <3>4. PICK key \in StatementKeys : c \in Range(Part(n, key))
        BY <1>1, <3>1, GrammarAssumption
      <3>5. c \in Range(Parts(n, SubNodes))
        BY <3>4, SearchedAre
      <3> HIDE DEF C
      <3>6. C(c) \subseteq C(n)
        BY <2>1, <3>5
      <3>7. QED
        BY <3>3, <3>6
    <2>4. QED
      BY <2>2, <2>3
  <1>2. ASSUME NEW n \in Nodes, Children(n) \subseteq P PROVE n \in P
    BY <1>1, <1>2
  <1>3. Inherited(P)
    <2> HIDE DEF P
    <2>1. QED
      BY <1>2 DEF Inherited
  <1>4. \A n \in Nodes : n \in P
    <2> HIDE DEF P
    <2>1. QED
      BY <1>3, TreeInduction
  <1>5. QED
    BY <1>4

\* The locals of a function are its named return values and everything declared
\* below it.
LEMMA LocalsAre ==
    ASSUME NEW f \in FunctionNodes, NEW g \in Held(f)
    PROVE  /\ g.src = f.src /\ g.parameters = Parsed(f.parameters, None)
           /\ g.parameters \in Seq(Vars) /\ g.local_variables \in Seq(Vars)
           /\ Range(Named(f.returnParameters)) \subseteq Range(g.local_variables)
           /\ \A m \in Below[f] \ {f} : Declares(m) => Declared(m) \subseteq Range(g.local_variables)
  <1>0. f \in Nodes /\ IsFunction(f)
    BY DEF FunctionNodes
  <1> DEFINE C == CollectLocalVars
             body == Part(f, "body")
             rest == FromEach(body, C)
             named == Named(f.returnParameters)
  <1>1. PICK h \in Holders : g = ParseFunction(f, h)
    BY DEF Held
  <1>2. /\ g.src = f.src /\ g.parameters = Parsed(f.parameters, None)
        /\ g.local_variables = named \o rest
    BY <1>1 DEF ParseFunction, FromEach
  <1>3. body \in Seq(Children(f))
    BY <1>0, ChildrenAre
  <1>4. \A c \in Children(f) : C[c] \in Seq(Vars)
    BY <1>0, ChildrenAre, CollectIs
  <1>5. named \in Seq(Vars) /\ Parsed(f.parameters, None) \in Seq(Vars)
    BY <1>0, DeclsAre
  <1> HIDE DEF C, body, named
  <1>6. rest \in Seq(Vars) /\ Range(rest) = UNION {Range(C[c]) : c \in Range(body)}
    BY <1>3, <1>4, FromIs
  <1> HIDE DEF rest
  <1>7. named \o rest \in Seq(Vars)
    BY <1>5, <1>6, ConcatProperties
  <1>8. Range(named \o rest) = Range(named) \cup Range(rest)
    BY <1>5, <1>6, RangeConcatenation
  <1>9. ASSUME NEW m \in Below[f], m # f, Declares(m)
        PROVE  Declared(m) \subseteq Range(rest)
    <2>1. PICK c \in Children(f) : m \in Below[c]
      BY <1>0, <1>9, BelowOne
    <2>2. c \in Nodes /\ c \in Range(Part(f, "body")) /\ Functions(c) = {}
      BY <1>0, <1>9, <2>1, GrammarAssumption, ChildrenAre
    <2>3. Declared(m) \subseteq Range(CollectLocalVars[c])
      BY <1>9, <2>1, <2>2, CollectFinds
    <2>4. Range(C[c]) \subseteq Range(rest)
      BY <1>6, <2>2 DEF body
    <2>5. QED
      BY <2>3, <2>4 DEF C
  <1>10. QED
    BY <1>2, <1>5, <1>7, <1>8, <1>9 DEF named

\* The names of the variables the trackers are given.
LEMMA ScopeIs ==
    ASSUME NEW f \in FunctionNodes, NEW g \in Held(f), NEW offset \in Int
    PROVE  /\ VarsInScopeAt(g, offset) \in Seq(Vars)
           /\ Range(VarsInScopeAt(g, offset)) = Range(g.parameters)
                  \cup {v \in Range(g.local_variables) : v.declaration_offset <= offset}
  <1> DEFINE p == g.parameters
             l == g.local_variables
             T == {v \in Range(l) : v.declaration_offset <= offset}
  <1>1. p \in Seq(Vars) /\ l \in Seq(Vars)
    BY LocalsAre
  <1>2. VarsInScopeAt(g, offset) = p \o Only(l, T)
    BY DEF VarsInScopeAt
  <1>3. Range(l) \cap T = T
    OBVIOUS
  <1> HIDE DEF p, l, T
  <1>4. Only(l, T) \in Seq(Vars) /\ Range(Only(l, T)) = Range(l) \cap T
    BY <1>1, OnlyIs
  <1>5. p \o Only(l, T) \in Seq(Vars)
    BY <1>1, <1>4, ConcatProperties
  <1>6. Range(p \o Only(l, T)) = Range(p) \cup Range(Only(l, T))
    BY <1>1, <1>4, RangeConcatenation
  <1>7. QED
    BY <1>2, <1>3, <1>4, <1>5, <1>6 DEF p, l, T

-----------------------------------------------------------------------------
(* The variables in scope. *)

\* The names of the variables of a list.
NamesOf(s) == {v.name : v \in Range(s)}

\* A declaration becomes a variable of its name.
LEMMA VariableOf ==
    ASSUME NEW decls, decls \in Seq(Range(decls)), NEW statement, NEW d \in Range(decls) \ {None}
    PROVE  /\ ParseVarDecl(d, statement) \in Range(Parsed(decls, statement))
           /\ d.name # Unnamed /\ statement = None => ParseVarDecl(d, statement) \in Range(Named(decls))
           /\ ParseVarDecl(d, statement).name = d.name
           /\ ParseVarDecl(d, statement).declaration_offset = d.src.offset
  <1>1. Range(Parsed(decls, statement)) = {ParseVarDecl(e, statement) : e \in Range(decls) \ {None}}
    BY ParsedIs
  <1>2. Range(Named(decls)) = {v \in Range(Parsed(decls, None)) : v.name # Unnamed}
    BY NamedIs
  <1>3. /\ ParseVarDecl(d, statement).name = d.name
        /\ ParseVarDecl(d, statement).declaration_offset = d.src.offset
    BY DEF ParseVarDecl
  <1>4. QED
    BY <1>1, <1>2, <1>3

\* Whatever may be read at an offset of a function is given to the trackers.
LEMMA VisibleSeen ==
    ASSUME NEW f \in FunctionNodes, NEW g \in Held(f), NEW offset \in Int
    PROVE  Visible(f, offset) \subseteq NamesOf(VarsInScopeAt(g, offset))
  <1> DEFINE seen == Range(g.parameters) \cup {v \in Range(g.local_variables) : v.declaration_offset <= offset}
             around == {n \in Below[f] : ContainsOffset(n.src, offset)}
             heads == UNION {Range(n.parameters) \cup Range(n.returnParameters) : n \in around}
             complete == {c \in UNION {Children(n) : n \in around} : c.src.offset + c.src.length <= offset}
             decls == (Range(f.parameters) \ {None})
                          \cup {d \in heads \ {None} : d.src.offset <= offset}
                          \cup UNION {Range(c.declarations) \ {None} : c \in complete}
             IsNamed(d) == \E v \in seen : v.name = d.name
  <1>0. f \in Nodes /\ IsFunction(f)
    BY DEF FunctionNodes
  <1>1. /\ g.parameters = Parsed(f.parameters, None)
        /\ Range(Named(f.returnParameters)) \subseteq Range(g.local_variables)
        /\ \A m \in Below[f] \ {f} : Declares(m) => Declared(m) \subseteq Range(g.local_variables)
    BY LocalsAre
  <1>2. \A n \in Below[f] : n \in Nodes /\ (IsFunction(n) => n = f)
    <2>1. \A n \in Below[f] : n \in Nodes
      BY <1>0, BelowIs
    <2>2. \A n \in Below[f] : IsFunction(n) => n \in Functions(f)
      BY DEF Functions
    <2>3. Functions(f) = {f}
      BY <1>0, FunctionsAre
    <2>4. QED
      BY <2>1, <2>2, <2>3
  <1>3. \A n \in Nodes : /\ n.declarations \in Seq(Range(n.declarations))
                         /\ n.parameters \in Seq(Range(n.parameters))
                         /\ n.returnParameters \in Seq(Range(n.returnParameters))
    BY DeclsAre
  <1>4. ASSUME NEW d \in Range(f.parameters) \ {None} PROVE IsNamed(d)
    <2>1. ParseVarDecl(d, None) \in Range(g.parameters) /\ ParseVarDecl(d, None).name = d.name
      BY <1>0, <1>1, <1>3, VariableOf
    <2>2. QED
      BY <2>1
  <1>5. ASSUME NEW n \in around, NEW d \in Range(n.parameters) \ {None},
               d.src.offset <= offset, d.name # Unnamed
        PROVE  IsNamed(d)
    <2>1. n \in Nodes /\ n.parameters # << >>
      BY <1>2 DEF Range
    <2>2. n.nodeType \in {"FunctionDefinition", "TryCatchClause"}
      BY <2>1, FieldsAssumption
    <2>3. CASE n.nodeType = "FunctionDefinition"
      BY <1>2, <1>4, <2>3 DEF IsFunction
    <2>4. CASE n.nodeType = "TryCatchClause"
      <3>1. n # f /\ Declares(n)
        BY <1>0, <2>4 DEF IsFunction, Declares
      <3>2. Declared(n) \subseteq Range(g.local_variables)
        BY <1>1, <3>1
      <3> DEFINE v == ParseVarDecl(d, None)
      <3>3. v \in Range(Named(n.parameters)) /\ v.name = d.name /\ v.declaration_offset = d.src.offset
        BY <1>3, <1>5, <2>1, VariableOf
      <3> HIDE DEF v
      <3>4. v \in Declared(n)
        BY <2>4, <3>3 DEF Declared, Caught
      <3>5. v \in seen
        BY <1>5, <3>2, <3>3, <3>4
      <3>6. QED
        BY <3>3, <3>5
    <2>5. QED
      BY <2>2, <2>3, <2>4
  <1>6. ASSUME NEW n \in around, NEW d \in Range(n.returnParameters) \ {None},
               d.src.offset <= offset, d.name # Unnamed
        PROVE  IsNamed(d)
    <2>1. n \in Nodes /\ n.returnParameters # << >>
      BY <1>2 DEF Range
    <2>2. n = f
      BY <1>2, <2>1, FieldsAssumption
    <2> DEFINE v == ParseVarDecl(d, None)
    <2>3. v \in Range(Named(f.returnParameters)) /\ v.name = d.name /\ v.declaration_offset = d.src.offset
      BY <1>0, <1>3, <1>6, <2>2, VariableOf
    <2> HIDE DEF v
    <2>4. v \in seen
      BY <1>1, <1>6, <2>3
    <2>5. QED
      BY <2>3, <2>4
  <1>7. ASSUME NEW c \in complete, NEW d \in Range(c.declarations) \ {None}
        PROVE  IsNamed(d)
    <2>1. PICK n \in around : c \in Children(n)
      OBVIOUS
    <2>2. c \in Nodes /\ c \in Below[f]
      <3>1. n \in Nodes /\ n \in Below[f] /\ Below[n] \subseteq Below[f]
        BY <1>0, <1>2, BelowBelow
      <3>2. QED
        BY <2>1, <3>1, BelowChild
    <2>3. c.declarations # << >>
      BY DEF Range
    <2>4. /\ c.nodeType = "VariableDeclarationStatement" /\ Declares(c)
          /\ c.src.offset \in Nat /\ c.src.length \in Nat
      BY <2>2, <2>3, FieldsAssumption DEF Declares, IsRange
    <2>5. c # f
      BY <1>0, <2>4 DEF IsFunction
    <2>6. Declared(c) \subseteq Range(g.local_variables)
      BY <1>1, <2>2, <2>4, <2>5
    <2> DEFINE v == ParseVarDecl(d, c.src)
    <2>7. v \in Range(Parsed(c.declarations, c.src)) /\ v.name = d.name /\ v.declaration_offset = d.src.offset
      BY <1>3, <2>2, VariableOf
    <2>8. d.src.offset \in Nat /\ d.src.offset <= c.src.offset + c.src.length
      BY <2>2, FieldsAssumption DEF IsRange
    <2>9. c.src.offset + c.src.length <= offset
      OBVIOUS
    <2> HIDE DEF v
    <2>10. v \in Declared(c)
      BY <2>4, <2>7 DEF Declared, Own
    <2>11. v.declaration_offset <= offset
      BY ONLY <2>4, <2>7, <2>8, <2>9, offset \in Int
    <2>12. v \in seen
      BY <2>6, <2>10, <2>11
    <2>13. QED
      BY <2>7, <2>12
  <1> DEFINE names == {d.name : d \in decls} \ {Unnamed}
  <1>8. ASSUME NEW d \in decls, d.name # Unnamed PROVE IsNamed(d)
    <2>1. CASE d \in Range(f.parameters) \ {None}
      BY <1>4, <2>1
    <2>2. CASE d \in {e \in heads \ {None} : e.src.offset <= offset}
      <3>1. PICK n \in around : d \in Range(n.parameters) \cup Range(n.returnParameters)
        BY <2>2
      <3>2. d # None /\ d.src.offset <= offset
        BY <2>2
      <3> HIDE DEF around, seen, heads
      <3>3. QED
        BY <1>5, <1>6, <1>8, <3>1, <3>2
    <2>3. CASE d \in UNION {Range(c.declarations) \ {None} : c \in complete}
      <3>1. PICK c \in complete : d \in Range(c.declarations) \ {None}
        BY <2>3
      <3> HIDE DEF complete, seen
      <3>2. QED
        BY <1>7, <3>1
    <2>4. QED
      BY <2>1, <2>2, <2>3
  <1>9. Visible(f, offset) = names
    BY DEF Visible
  <1> HIDE DEF decls, seen
  <1>10. \A x \in names : \E v \in seen : v.name = x
    BY <1>8
  <1>11. Range(VarsInScopeAt(g, offset)) = seen
    BY ScopeIs DEF seen
  <1> HIDE DEF names
  <1>12. QED
    BY <1>9, <1>10, <1>11 DEF NamesOf

\* Functions of a file are apart from each other.
Apart(fs) == \A f, g \in fs : \/ f = g
                              \/ f.src.file # g.src.file
                              \/ f.src.offset + f.src.length <= g.src.offset
                              \/ g.src.offset + g.src.length <= f.src.offset

\* The functions around an offset.
Surrounding(fs, offset, file) == {f \in fs : f.src.file = file /\ ContainsOffset(f.src, offset)}

\* The function around an offset is found, and none where there is none.
LEMMA FunctionAtIs ==
    ASSUME NEW s \in Seq(Extracted), NEW fs \in SUBSET FunctionNodes, TakenFrom(s, fs), Apart(fs),
           NEW offset \in Int, NEW file
    PROVE  /\ \A f \in Surrounding(fs, offset, file) :
                  FunctionAt(s, offset, file) # None /\ FunctionAt(s, offset, file) \in Held(f)
           /\ Surrounding(fs, offset, file) = {} => FunctionAt(s, offset, file) = None
  <1> DEFINE around == {i \in DOMAIN s : s[i].src.file = file /\ ContainsOffset(s[i].src, offset)}
             smallest == {i \in around : \A j \in around : s[i].src.length <= s[j].src.length}
             lengths == {s[i].src.length : i \in around}
             found == FunctionAt(s, offset, file)
  <1>1. found = IF around = {} THEN None ELSE s[Min(smallest)]
    BY DEF FunctionAt
  <1>2. Len(s) \in Nat /\ DOMAIN s = 1..Len(s)
    OBVIOUS
  <1>3. \A i \in DOMAIN s : s[i] \in Extracted /\ \E f \in fs : s[i] \in Held(f)
    <2>1. \A i \in DOMAIN s : s[i] \in Range(s) /\ s[i] \in Extracted
      BY DEF Range
    <2>2. QED
      BY <2>1 DEF TakenFrom
  <1>4. \A f \in fs : \A g \in Held(f) : g.src = f.src
    BY LocalsAre
  <1>5. \A f \in fs : f.src.offset \in Nat /\ f.src.length \in Nat
    <2>1. \A f \in fs : f \in Nodes
      BY DEF FunctionNodes
    <2>2. QED
      BY <2>1, FieldsAssumption DEF IsRange
  <1>6. ASSUME NEW i \in around
        PROVE  /\ i \in 1..Len(s) /\ s[i].src.length \in Nat
               /\ \E f \in Surrounding(fs, offset, file) : s[i] \in Held(f)
    <2>1. i \in DOMAIN s /\ s[i].src.file = file /\ ContainsOffset(s[i].src, offset)
      OBVIOUS
    <2>2. PICK f \in fs : s[i] \in Held(f)
      BY <1>3, <2>1
    <2>3. s[i].src = f.src
      BY <1>4, <2>2
    <2>4. f \in Surrounding(fs, offset, file)
      BY <2>1, <2>3 DEF Surrounding
    <2> HIDE DEF around
    <2>5. i \in 1..Len(s)
      BY <1>2, <2>1
    <2>6. s[i].src.length \in Nat
      BY <1>5, <2>3
    <2>7. QED
      BY <2>2, <2>4, <2>5, <2>6
  <1>7. ASSUME NEW f \in Surrounding(fs, offset, file) PROVE around # {}
    <2>1. f \in fs /\ f.src.file = file /\ ContainsOffset(f.src, offset)
      BY DEF Surrounding
    <2>2. PICK g \in Range(s) : g \in Held(f)
      BY <2>1 DEF TakenFrom
    <2>3. PICK i \in DOMAIN s : g = s[i]
      BY <2>2 DEF Range
    <2>4. s[i].src = f.src
      BY <1>4, <2>1, <2>2, <2>3
    <2>5. i \in around
      BY <2>1, <2>3, <2>4
    <2>6. QED
      BY <2>5
  <1>8. ASSUME NEW f \in Surrounding(fs, offset, file), NEW h \in Surrounding(fs, offset, file)
        PROVE  f = h
    <2>1. /\ f \in fs /\ h \in fs /\ f.src.file = h.src.file
          /\ f.src.offset <= offset /\ offset < f.src.offset + f.src.length
          /\ h.src.offset <= offset /\ offset < h.src.offset + h.src.length
      BY DEF Surrounding, ContainsOffset
    <2>2. /\ f.src.offset \in Nat /\ f.src.length \in Nat
          /\ h.src.offset \in Nat /\ h.src.length \in Nat
      BY <1>5, <2>1
    <2>3. ~(f.src.offset + f.src.length <= h.src.offset)
      BY ONLY <2>1, <2>2, offset \in Int
    <2>4. ~(h.src.offset + h.src.length <= f.src.offset)
      BY ONLY <2>1, <2>2, offset \in Int
    <2>5. QED
      BY <2>1, <2>3, <2>4 DEF Apart
  <1>9. ASSUME around # {} PROVE Min(smallest) \in around
    <2>1. lengths \in SUBSET Nat /\ lengths # {}
      BY <1>6, <1>9
    <2>2. PICK l \in lengths : \A k \in lengths : l <= k
      <3> HIDE DEF lengths
      <3>1. QED
        BY <2>1, LeastNumber
    <2>3. PICK i \in around : s[i].src.length = l
      BY <2>2
    <2>4. i \in smallest
      BY <2>2, <2>3
    <2>5. around \subseteq Nat
      BY <1>2, <1>6
    <2>6. smallest \in SUBSET Nat /\ smallest # {} /\ smallest \subseteq around
      BY <2>4, <2>5
    <2> HIDE DEF smallest, around
    <2>7. QED
      BY <2>6, MinIs
  <1> HIDE DEF around, smallest, found
  <1>10. ASSUME NEW f \in Surrounding(fs, offset, file) PROVE found # None /\ found \in Held(f)
    <2> DEFINE i == Min(smallest)
    <2>1. i \in around /\ found = s[i]
      BY <1>1, <1>7, <1>9
    <2> HIDE DEF i
    <2>2. PICK h \in Surrounding(fs, offset, file) : s[i] \in Held(h)
      BY <1>6, <2>1
    <2>3. found \in Held(f)
      BY <1>8, <2>1, <2>2
    <2>4. found \in Extracted
      <3>1. f \in FunctionNodes
        BY DEF Surrounding
      <3>2. QED
        BY <2>3, <3>1 DEF Held, Extracted
    <2>5. found # None
      BY <2>4, NoneAssumption DEF Extracted, FunctionNodes
    <2>6. QED
      BY <2>3, <2>5
  <1>11. ASSUME Surrounding(fs, offset, file) = {} PROVE found = None
    <2>1. around = {}
      BY <1>6, <1>11
    <2>2. QED
      BY <1>1, <2>1
  <1>12. QED
    BY <1>10, <1>11 DEF found

\* The variables at the last located entry are those of its function.
ScopeHolds ==
    in_scope # None =>
        /\ pc = "steps"
        /\ ResolvePc(given.entries, given.code, in_scope.at, given.texts) # None
        /\ in_scope.vars = InScope(EntryForPc(given.entries, given.code, in_scope.at))

\* Only an entry that is located changes them (recorder.rs:726).
LEMMA ScopeStays ==
    ASSUME ScopeHolds, [Next]_vars PROVE ScopeHolds'
  <1>1. ASSUME pc # "steps", in_scope' = in_scope PROVE ScopeHolds'
    BY <1>1 DEF ScopeHolds
  <1>2. ASSUME UNCHANGED << given, pc, in_scope >> PROVE ScopeHolds'
    BY <1>2 DEF ScopeHolds, InScope
  <1>3. CASE RecordFile
    BY <1>1, <1>3 DEF RecordFile, Given
  <1>4. CASE RecordYul
    BY <1>1, <1>4 DEF RecordYul, Given
  <1>5. CASE RecordVerified
    BY <1>1, <1>5 DEF RecordVerified, Stops, Given
  <1>6. CASE Start
    BY <1>1, <1>6 DEF Start
  <1>7. ASSUME NEW at \in DOMAIN given.code, Process(at)
        PROVE  ScopeHolds'
    <2> DEFINE location == ResolvePc(given.entries, given.code, at, given.texts)
               entry == EntryForPc(given.entries, given.code, at)
    <2>1. pc = "steps" /\ pc' = pc /\ given' = given
      BY <1>7 DEF Process, handed
    <2>2. in_scope' = IF location = None THEN in_scope ELSE [at |-> at, vars |-> InScope(entry)]
      BY <1>7 DEF Process
    <2>3. CASE location = None
      BY <1>2, <2>1, <2>2, <2>3
    <2>4. CASE location # None
      <3>1. in_scope'.at = at /\ in_scope'.vars = InScope(entry)
        BY <2>2, <2>4
      <3>2. ResolvePc(given'.entries, given'.code, in_scope'.at, given'.texts) # None
        BY <2>1, <2>4, <3>1
      <3>3. InScope(EntryForPc(given.entries, given.code, in_scope.at))' = InScope(entry)
        BY <2>1, <3>1 DEF InScope
      <3>4. QED
        BY <2>1, <3>1, <3>2, <3>3 DEF ScopeHolds
    <2>5. QED
      BY <2>3, <2>4
  <1>8. CASE UNCHANGED vars
    BY <1>2, <1>8 DEF vars, handed
  <1>9. QED
    BY <1>3, <1>4, <1>5, <1>6, <1>7, <1>8 DEF Next

\* The trackers are given every variable the source may read at an entry, and
\* none where there is no function, for trees of every shape and depth
\* (solidity_ast.rs:183, 427).
THEOREM LocalsSeen == Spec => []LocalsInScope
  <1> DEFINE Inv == InputIs /\ GivenIs /\ ScopeHolds
  <1>1. Init => Inv
    <2> SUFFICES ASSUME Init PROVE Inv
      OBVIOUS
    <2>1. InputIs
      BY DEF Init, InputIs, IsInput
    <2>2. GivenIs /\ ScopeHolds
      BY DEF Init, GivenIs, ScopeHolds
    <2>3. QED
      BY <2>1, <2>2
  <1>2. Inv /\ [Next]_vars => Inv'
    BY InputIsStays, GivenStays, ScopeStays
  <1>3. Inv => LocalsInScope
    <2> SUFFICES ASSUME Inv, in_scope # None PROVE LocalsInScope
      BY DEF LocalsInScope
    <2> DEFINE entry == EntryForPc(given.entries, given.code, in_scope.at)
               names == {in_scope.vars[i].name : i \in DOMAIN in_scope.vars}
               fs == UNION {Functions(u) : u \in Range(out.units)}
               around == {f \in fs : /\ origin # "yul" /\ f.src.file = entry.file
                                     /\ ContainsOffset(f.src, entry.offset)}
               g == FunctionAt(given.functions, entry.offset, entry.file)
    <2>1. /\ pc = "steps" /\ IsGiven /\ in_scope.vars = InScope(entry)
          /\ ResolvePc(given.entries, given.code, in_scope.at, given.texts) # None
      BY DEF ScopeHolds, GivenIs
    <2>2. entry.offset \in Int
      <3>1. entry.file \in 0..(Len(given.texts) - 1)
            /\ entry.offset \in 0..Size(given.texts[entry.file + 1])
        BY <2>1, Resolved
      <3>2. Len(given.texts) \in Nat /\ \A i \in 1..Len(given.texts) : given.texts[i] \in Text
        BY <2>1 DEF IsGiven, HandsFiles
      <3> HIDE DEF entry
      <3>3. entry.file + 1 \in 1..Len(given.texts)
        BY ONLY <3>1, <3>2
      <3> DEFINE text == given.texts[entry.file + 1]
      <3>4. text \in Text /\ Size(text) \in Nat
        <4>1. text \in Text
          BY <3>2, <3>3
        <4> HIDE DEF text
        <4>2. Starts(text) \in [1..(Len(text) + 1) -> Nat]
          BY <4>1, StartsOf
        <4>3. Len(text) + 1 \in 1..(Len(text) + 1)
          BY <4>1 DEF Text
        <4>4. QED
          BY <4>1, <4>2, <4>3 DEF Size
      <3>5. QED
        BY ONLY <3>1, <3>4
    <2>3. in_scope.vars = IF g = None THEN << >> ELSE VarsInScopeAt(g, entry.offset)
      BY <2>1 DEF InScope
    <2>4. names = NamesOf(in_scope.vars)
      BY DEF NamesOf, Range
    <2>5. PICK input \in Inputs : IsInput(input)
      BY DEF InputIs
    <2>6. out.units \in Seq(Nodes)
      BY <2>5, UnitsAssumption DEF IsInput
    <2>7. Apart(fs)
      BY <2>5, UnitsAssumption DEF IsInput, Apart
    <2>8. fs \in SUBSET FunctionNodes
      <3>1. Range(out.units) \subseteq Nodes
        BY <2>6 DEF Range
      <3>2. QED
        BY <3>1, FunctionsAre
    <2> HIDE DEF names, entry, g
    <2>9. CASE origin = "yul"
      <3>1. given.functions = << >>
        BY <2>1, <2>9 DEF IsGiven
      <3>2. g = None
        BY <3>1 DEF g, FunctionAt
      <3>3. names = {} /\ around = {}
        BY <2>3, <2>4, <2>9, <3>2 DEF NamesOf, Range
      <3>4. QED
        BY <3>3 DEF LocalsInScope, names, entry
    <2>10. CASE origin # "yul"
      <3> DEFINE s == given.functions
      <3>1. s \in Seq(Extracted) /\ TakenFrom(s, fs)
        BY <2>1, <2>6, <2>10, AllFound DEF IsGiven
      <3>2. around = Surrounding(fs, entry.offset, entry.file)
        BY <2>10 DEF Surrounding
      <3> HIDE DEF s, fs, around
      <3>3. /\ \A f \in Surrounding(fs, entry.offset, entry.file) :
                   FunctionAt(s, entry.offset, entry.file) # None
                   /\ FunctionAt(s, entry.offset, entry.file) \in Held(f)
            /\ Surrounding(fs, entry.offset, entry.file) = {} => FunctionAt(s, entry.offset, entry.file) = None
        BY <2>2, <2>7, <2>8, <3>1, FunctionAtIs
      <3>4. ASSUME NEW f \in around PROVE Visible(f, entry.offset) \subseteq names
        <4>1. g # None /\ g \in Held(f)
          BY <3>2, <3>3 DEF g, s
        <4>2. f \in FunctionNodes
          BY <2>8, <3>2 DEF Surrounding
        <4>3. Visible(f, entry.offset) \subseteq NamesOf(VarsInScopeAt(g, entry.offset))
          BY <2>2, <4>1, <4>2, VisibleSeen
        <4>4. QED
          BY <2>3, <2>4, <4>1, <4>3
      <3>5. ASSUME around = {} PROVE names = {}
        <4>1. g = None
          BY <3>2, <3>3, <3>5 DEF g, s
        <4>2. QED
          BY <2>3, <2>4, <4>1 DEF NamesOf, Range
      <3>6. QED
        BY <3>4, <3>5 DEF LocalsInScope, names, entry, around, fs
    <2>11. QED
      BY <2>9, <2>10
  <1>4. QED
    BY <1>1, <1>2, <1>3, PTL DEF Spec

=============================================================================
