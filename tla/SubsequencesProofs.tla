------------------------- MODULE SubsequencesProofs -------------------------
(***************************************************************************)
(* Facts about positions in a sequence, and what Kept returns.  They stand *)
(* on the well-foundedness of < on Nat and on the pigeonhole principle, so *)
(* none of them needs an induction.                                        *)
(***************************************************************************)
EXTENDS Subsequences, Integers, FiniteSetTheorems, WellFoundedInduction, TLAPS

LEMMA LeastNatural ==
    ASSUME NEW T \in SUBSET Nat, T # {}
    PROVE  \E m \in T : \A k \in T : m <= k
<1>1. PICK m \in T : \A k \in T : <<k, m>> \notin OpToRel(<, Nat)
  BY NatLessThanWellFounded, WFMin
<1>2. \A k \in T : ~(k < m)
  BY <1>1 DEF OpToRel
<1> QED BY <1>2

LEMMA GreatestPosition ==
    ASSUME NEW n \in Nat, NEW T \in SUBSET 1..n, T # {}
    PROVE  \E m \in T : \A k \in T : k <= m
<1> DEFINE D == {d \in Nat : n - d \in T}
<1>1. D \in SUBSET Nat /\ D # {}
  <2>1. PICK t \in T : TRUE
    OBVIOUS
  <2>2. n - t \in Nat /\ n - (n - t) = t
    OBVIOUS
  <2> QED BY <2>1, <2>2
<1>2. PICK d \in D : \A k \in D : d <= k
  BY <1>1, LeastNatural
<1>3. \A k \in T : k <= n - d
  <2> TAKE k \in T
  <2>1. n - k \in D
    BY DEF D
  <2> QED BY <1>2, <2>1
<1> QED BY <1>2, <1>3

\* Every position of I has a rank of its own in 1..Cardinality(I), and every
\* such rank is taken.
LEMMA RanksArePositions ==
    ASSUME NEW n \in Nat, NEW I \in SUBSET 1..n
    PROVE  LET rank(i) == Cardinality({j \in I : j <= i})
           IN  /\ IsFiniteSet(I) /\ Cardinality(I) \in Nat
               /\ \A i \in I : rank(i) \in 1..Cardinality(I)
               /\ \A i, j \in I : rank(i) = rank(j) => i = j
               /\ \A k \in 1..Cardinality(I) : \E i \in I : rank(i) = k
<1> DEFINE below(i) == {j \in I : j <= i}
           rank(i) == Cardinality(below(i))
           N == Cardinality(I)
           r == [i \in I |-> rank(i)]
<1>1. IsFiniteSet(I) /\ N \in Nat
  <2>1. IsFiniteSet(1..n)
    BY FS_Interval
  <2> QED BY <2>1, FS_Subset, FS_CardinalityType
<1>2. \A i \in I : IsFiniteSet(below(i)) /\ rank(i) \in Nat /\ rank(i) <= N
  <2> TAKE i \in I
  <2>1. below(i) \in SUBSET I
    OBVIOUS
  <2> QED BY <1>1, <2>1, FS_Subset, FS_CardinalityType
<1>3. \A i \in I : rank(i) \in 1..N
  <2> TAKE i \in I
  <2>1. i \in below(i)
    OBVIOUS
  <2>2. rank(i) # 0
    BY <1>2, <2>1, FS_EmptySet
  <2> QED BY <1>1, <1>2, <2>2
<1>4. \A i, j \in I : rank(i) = rank(j) => i = j
  <2>1. ASSUME NEW i \in I, NEW j \in I, i < j PROVE rank(i) # rank(j)
    <3>1. below(i) \in SUBSET below(j) /\ j \in below(j) /\ j \notin below(i)
      <4>1. i \in Nat /\ j \in Nat
        OBVIOUS
      <4>2. \A x \in I : x <= i => x <= j
        BY <2>1, <4>1
      <4>3. \A x : x \in below(i) => x \in below(j)
        BY <4>2
      <4>4. j \in below(j) /\ j \notin below(i)
        BY <2>1, <4>1
      <4> HIDE DEF below
      <4> QED BY <4>3, <4>4
    <3>2. below(i) # below(j)
      BY <3>1
    <3> HIDE DEF below
    <3> QED BY <1>2, <3>1, <3>2, FS_Subset
  <2>2. \A i, j \in I : i = j \/ i < j \/ j < i
    OBVIOUS
  <2> HIDE DEF rank
  <2> QED BY <2>1, <2>2
<1>5. r \in Injection(I, 1..N)
  <2>1. r \in [I -> 1..N]
    BY <1>3
  <2>2. \A i, j \in I : r[i] = r[j] => i = j
    BY <1>4
  <2> HIDE DEF r
  <2> QED BY <2>1, <2>2 DEF Injection, IsInjective
<1>6. IsFiniteSet(1..N) /\ Cardinality(1..N) = N
  BY <1>1, FS_Interval
<1>7. r \in Surjection(I, 1..N)
  BY <1>5, <1>6, FS_Injection
<1>8. \A k \in 1..N : \E i \in I : rank(i) = k
  <2>1. \A k \in 1..N : \E i \in I : r[i] = k
    BY <1>7 DEF Surjection
  <2> QED BY <2>1
<1> QED BY <1>1, <1>3, <1>4, <1>8

\* Kept returns elements of s at positions in I, all of them.
LEMMA KeptElements ==
    ASSUME NEW T, NEW s \in Seq(T), NEW I \in SUBSET DOMAIN s
    PROVE  /\ Kept(s, I) \in Seq(T)
           /\ Len(Kept(s, I)) = Cardinality(I)
           /\ \A k \in DOMAIN Kept(s, I) : \E i \in I : Kept(s, I)[k] = s[i]
           /\ \A i \in I : \E k \in DOMAIN Kept(s, I) : Kept(s, I)[k] = s[i]
<1> DEFINE rank(i) == Cardinality({j \in I : j <= i})
           N == Cardinality(I)
           at(k) == CHOOSE i \in I : rank(i) = k
<1>1. DOMAIN s = 1..Len(s) /\ Len(s) \in Nat
  OBVIOUS
<1>2. /\ N \in Nat
      /\ \A i \in I : rank(i) \in 1..N
      /\ \A i, j \in I : rank(i) = rank(j) => i = j
      /\ \A k \in 1..N : \E i \in I : rank(i) = k
  BY <1>1, RanksArePositions
<1>3. Kept(s, I) = [k \in 1..N |-> s[at(k)]]
  BY DEF Kept
<1> HIDE DEF rank, N
<1>4. \A k \in 1..N : at(k) \in I /\ rank(at(k)) = k
  BY <1>2
<1>5. \A i \in I : at(rank(i)) = i
  BY <1>2, <1>4
<1> HIDE DEF at
<1>6. \A k \in 1..N : s[at(k)] \in T
  BY <1>1, <1>4
<1>7. Kept(s, I) \in Seq(T) /\ Len(Kept(s, I)) = N /\ DOMAIN Kept(s, I) = 1..N
  BY <1>2, <1>3, <1>6
<1>8. \A i \in I : Kept(s, I)[rank(i)] = s[i]
  BY <1>2, <1>3, <1>5
<1> QED BY <1>2, <1>3, <1>4, <1>7, <1>8 DEF N

\* No two elements Kept returns stand at the same position of s.
LEMMA KeptPositions ==
    ASSUME NEW T, NEW s \in Seq(T), NEW I \in SUBSET DOMAIN s
    PROVE  \E f \in [DOMAIN Kept(s, I) -> I] :
               /\ \A k \in DOMAIN Kept(s, I) : Kept(s, I)[k] = s[f[k]]
               /\ \A k, l \in DOMAIN Kept(s, I) : f[k] = f[l] => k = l
<1> DEFINE rank(i) == Cardinality({j \in I : j <= i})
           N == Cardinality(I)
           at(k) == CHOOSE i \in I : rank(i) = k
<1>1. DOMAIN s = 1..Len(s) /\ Len(s) \in Nat
  OBVIOUS
<1>2. N \in Nat /\ \A k \in 1..N : \E i \in I : rank(i) = k
  BY <1>1, RanksArePositions
<1>3. Kept(s, I) = [k \in 1..N |-> s[at(k)]]
  BY DEF Kept
<1> HIDE DEF rank, N
<1>4. \A k \in 1..N : at(k) \in I /\ rank(at(k)) = k
  BY <1>2
<1> HIDE DEF at
<1> DEFINE f == [k \in 1..N |-> at(k)]
<1>5. f \in [1..N -> I] /\ \A k, l \in 1..N : f[k] = f[l] => k = l
  BY <1>4
<1>6. DOMAIN Kept(s, I) = 1..N /\ \A k \in 1..N : Kept(s, I)[k] = s[f[k]]
  BY <1>3
<1> HIDE DEF f
<1>7. /\ f \in [DOMAIN Kept(s, I) -> I]
      /\ \A k \in DOMAIN Kept(s, I) : Kept(s, I)[k] = s[f[k]]
      /\ \A k, l \in DOMAIN Kept(s, I) : f[k] = f[l] => k = l
  BY <1>5, <1>6
<1> QED BY <1>7

\* What an appended element adds to the kept ones: itself, or nothing.
LEMMA KeptAfterAppend ==
    ASSUME NEW T, NEW s \in Seq(T), NEW x \in T, NEW I \in SUBSET DOMAIN s
    PROVE  /\ Kept(Append(s, x), I) = Kept(s, I)
           /\ Kept(Append(s, x), I \cup {Len(s) + 1}) = Append(Kept(s, I), x)
<1> DEFINE n == Len(s)
           t == Append(s, x)
           J == I \cup {n + 1}
           N == Cardinality(I)
           rank(i) == Cardinality({j \in I : j <= i})
           rankJ(i) == Cardinality({j \in J : j <= i})
           at(k) == CHOOSE i \in I : rank(i) = k
           atJ(k) == CHOOSE i \in J : rankJ(i) = k
<1>1. /\ n \in Nat /\ DOMAIN s = 1..n /\ DOMAIN t = 1..(n + 1)
      /\ \A i \in 1..n : t[i] = s[i]
      /\ t[n + 1] = x
  OBVIOUS
<1>2. Kept(s, I) = [k \in 1..N |-> s[at(k)]] /\ Kept(t, I) = [k \in 1..N |-> t[at(k)]]
  BY DEF Kept
<1>3. Kept(t, J) = [k \in 1..Cardinality(J) |-> t[atJ(k)]]
  BY DEF Kept
<1>4. /\ IsFiniteSet(I) /\ N \in Nat
      /\ \A i \in I : rank(i) \in 1..N
      /\ \A k \in 1..N : \E i \in I : rank(i) = k
  BY <1>1, RanksArePositions
<1>5. /\ IsFiniteSet(J) /\ Cardinality(J) = N + 1
  <2>1. n + 1 \notin I
    BY <1>1
  <2> QED BY <2>1, <1>4, FS_AddElement
<1>6. \A i \in I : i # n + 1 /\ rankJ(i) = rank(i)
  <2> SUFFICES ASSUME NEW i \in I PROVE i # n + 1 /\ rankJ(i) = rank(i)
    OBVIOUS
  <2>1. {j \in J : j <= i} = {j \in I : j <= i} /\ i # n + 1
    BY <1>1
  <2> QED BY <2>1
<1>7. rankJ(n + 1) = N + 1
  <2>1. {j \in J : j <= n + 1} = J
    BY <1>1
  <2> QED BY <2>1, <1>5
<1>8. Kept(s, I) \in Seq(T) /\ Len(Kept(s, I)) = N
  BY KeptElements
<1> HIDE DEF n, t, N, rank, rankJ
<1>9. \A k \in 1..N : at(k) \in I
  BY <1>4
<1> HIDE DEF at
<1>10. Kept(t, I) = Kept(s, I)
  BY <1>1, <1>2, <1>9
<1>11. \A k \in 1..N : atJ(k) = at(k)
  <2> SUFFICES ASSUME NEW k \in 1..N PROVE atJ(k) = at(k)
    OBVIOUS
  <2>1. \A i : (i \in J /\ rankJ(i) = k) <=> (i \in I /\ rank(i) = k)
    BY <1>4, <1>6, <1>7 DEF J
  <2> QED BY <2>1 DEF at
<1>12. atJ(N + 1) = n + 1
  <2>1. \A i \in J : rankJ(i) = N + 1 <=> i = n + 1
    BY <1>4, <1>6, <1>7 DEF J
  <2>2. n + 1 \in J
    BY DEF J
  <2> QED BY <2>1, <2>2
<1> HIDE DEF atJ, J
<1>13. Kept(t, J) = Append(Kept(s, I), x)
  <2> DEFINE q == Kept(s, I)
  <2>1. /\ q \in Seq(T) /\ Len(q) = N
        /\ \A k \in 1..N : q[k] = s[at(k)]
    BY <1>2, <1>8
  <2> HIDE DEF q
  <2>2. Append(q, x) = [k \in 1..(N + 1) |-> IF k = N + 1 THEN x ELSE q[k]]
    <3> DEFINE longer == [k \in 1..(N + 1) |-> IF k = N + 1 THEN x ELSE q[k]]
    <3>1. longer \in Seq(T) /\ Len(longer) = N + 1
      BY <2>1, <1>4
    <3>2. Append(q, x) \in Seq(T) /\ Len(Append(q, x)) = N + 1
      BY <2>1, <1>4
    <3>3. \A k \in 1..(N + 1) : Append(q, x)[k] = longer[k]
      BY <2>1, <1>4
    <3> HIDE DEF longer
    <3>4. Append(q, x) = longer
      BY <3>1, <3>2, <3>3
    <3> QED BY <3>4 DEF longer
  <2>3. \A k \in 1..(N + 1) : t[atJ(k)] = IF k = N + 1 THEN x ELSE q[k]
    BY <1>1, <1>4, <1>9, <1>11, <1>12, <2>1
  <2> QED BY <1>3, <1>5, <2>2, <2>3 DEF q
<1> QED BY <1>10, <1>13 DEF J, n, t

(***************************************************************************)
(* How often a list holds one of some values.                              *)
(***************************************************************************)
Places(s, V) == {i \in DOMAIN s : s[i] \in V}

LEMMA PlacesAreFinite ==
    ASSUME NEW T, NEW s \in Seq(T), NEW V
    PROVE  IsFiniteSet(Places(s, V)) /\ Cardinality(Places(s, V)) \in Nat
<1>1. Places(s, V) \in SUBSET (1..Len(s)) /\ Len(s) \in Nat
  BY DEF Places
<1>2. IsFiniteSet(1..Len(s))
  BY <1>1, FS_Interval
<1> QED BY <1>1, <1>2, FS_Subset, FS_CardinalityType

LEMMA PlacesAfterAppend ==
    ASSUME NEW T, NEW s \in Seq(T), NEW x \in T, NEW V
    PROVE  Cardinality(Places(Append(s, x), V))
             = Cardinality(Places(s, V)) + (IF x \in V THEN 1 ELSE 0)
<1> DEFINE n == Len(s)
           t == Append(s, x)
<1>1. /\ n \in Nat /\ DOMAIN s = 1..n /\ DOMAIN t = 1..(n + 1)
      /\ \A i \in 1..n : t[i] = s[i]
      /\ t[n + 1] = x
  OBVIOUS
<1> HIDE DEF n, t
<1>2. IsFiniteSet(Places(s, V)) /\ Cardinality(Places(s, V)) \in Nat
  BY PlacesAreFinite
<1>3. CASE x \in V
  <2>1. Places(t, V) = Places(s, V) \cup {n + 1}
    BY <1>1, <1>3 DEF Places
  <2>2. n + 1 \notin Places(s, V)
    BY <1>1 DEF Places
  <2> QED BY <1>2, <1>3, <2>1, <2>2, FS_AddElement DEF t
<1>4. CASE x \notin V
  <2>1. Places(t, V) = Places(s, V)
    BY <1>1, <1>4 DEF Places
  <2> QED BY <1>2, <1>4, <2>1 DEF t
<1> QED BY <1>3, <1>4

LEMMA PlacesInTail ==
    ASSUME NEW T, NEW s \in Seq(T), s # <<>>, NEW V
    PROVE  Cardinality(Places(Tail(s), V)) + (IF Head(s) \in V THEN 1 ELSE 0)
             <= Cardinality(Places(s, V))
<1> DEFINE n == Len(s)
           t == Tail(s)
           rest == Places(s, V) \ {1}
           f == [i \in Places(t, V) |-> i + 1]
<1>1. /\ n \in Nat \ {0} /\ DOMAIN s = 1..n /\ DOMAIN t = 1..(n - 1)
      /\ \A i \in 1..(n - 1) : t[i] = s[i + 1]
      /\ Head(s) = s[1] /\ t \in Seq(T)
  OBVIOUS
<1> HIDE DEF n, t
<1>2. /\ IsFiniteSet(Places(s, V)) /\ Cardinality(Places(s, V)) \in Nat
      /\ Cardinality(Places(t, V)) \in Nat
  BY <1>1, PlacesAreFinite
<1>3. IsFiniteSet(rest) /\ Cardinality(rest) + (IF 1 \in Places(s, V) THEN 1 ELSE 0)
                              = Cardinality(Places(s, V))
  <2>1. IsFiniteSet(rest) /\ Cardinality(rest) = IF 1 \in Places(s, V)
                                                THEN Cardinality(Places(s, V)) - 1
                                                ELSE Cardinality(Places(s, V))
    BY <1>2, FS_RemoveElement
  <2> HIDE DEF rest
  <2> QED BY <1>2, <2>1
<1>4. Head(s) \in V <=> 1 \in Places(s, V)
  BY <1>1 DEF Places
<1>5. f \in Injection(Places(t, V), rest)
  <2>1. \A i \in Places(t, V) : i \in Nat /\ i + 1 \in rest
    BY <1>1 DEF Places
  <2> HIDE DEF rest
  <2> QED BY <2>1 DEF Injection, IsInjective
<1> HIDE DEF f
<1>6. Cardinality(Places(t, V)) <= Cardinality(rest)
  BY <1>3, <1>5, FS_Injection
<1>7. Cardinality(rest) \in Nat
  BY <1>3, FS_CardinalityType
<1> HIDE DEF rest
<1> QED BY <1>2, <1>3, <1>4, <1>6, <1>7 DEF t
=============================================================================
