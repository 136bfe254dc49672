----------------------------- MODULE ListsProofs -----------------------------
(***************************************************************************)
(* What a filter does to a list: it keeps the elements asked for, each as  *)
(* often and in the order it had, and keeps a list of such elements as it  *)
(* is.  No induction is needed: the number of elements kept up to a place  *)
(* is a bijection, because it grows strictly between finite sets of one    *)
(* size.                                                                   *)
(***************************************************************************)
EXTENDS Lists, SequenceTheorems, FiniteSetTheorems, TLAPS

Places(l, S) == {i \in DOMAIN l : l[i] \in S}

Upto(l, S, i) == {j \in Places(l, S) : j <= i}

Rank(l, S, i) == Cardinality(Upto(l, S, i))

\* No element occurs twice.
Simple(l) == \A i, j \in DOMAIN l : l[i] = l[j] => i = j

\* What comes before what in o does so in l.
InOrderOf(o, l) ==
  \A m, n \in DOMAIN o : m < n => \E i, j \in DOMAIN l : i < j /\ l[i] = o[m] /\ l[j] = o[n]

\* The filter in terms of the places and their ranks.
LEMMA OnlyDef ==
  ASSUME NEW l, NEW S
  PROVE  Only(l, S) = [n \in 1..Cardinality(Places(l, S)) |->
                         l[CHOOSE i \in Places(l, S) : Rank(l, S, i) = n]]
BY Zenon DEF Only, Places, Upto, Rank

\* The places kept are a finite set of numbers.
LEMMA PlacesFinite ==
  ASSUME NEW T, NEW l \in Seq(T), NEW S
  PROVE  /\ Places(l, S) \subseteq 1..Len(l)
         /\ IsFiniteSet(Places(l, S))
         /\ Cardinality(Places(l, S)) \in Nat
<1>1. Places(l, S) \subseteq 1..Len(l)
  BY DEF Places
<1>2. IsFiniteSet(1..Len(l))
  BY FS_Interval
<1>3. IsFiniteSet(Places(l, S))
  BY <1>1, <1>2, FS_Subset
<1> QED
  BY <1>1, <1>3, FS_CardinalityType

\* The rank of a place counts it and the places before it.
LEMMA RankRange ==
  ASSUME NEW T, NEW l \in Seq(T), NEW S, NEW i \in Places(l, S)
  PROVE  Rank(l, S, i) \in 1..Cardinality(Places(l, S))
<1>1. /\ IsFiniteSet(Places(l, S)) /\ Cardinality(Places(l, S)) \in Nat
      /\ i \in Nat
  BY PlacesFinite
<1>2. Upto(l, S, i) \in SUBSET Places(l, S) /\ i \in Upto(l, S, i)
  BY <1>1 DEF Upto
<1>3. /\ IsFiniteSet(Upto(l, S, i))
      /\ Cardinality(Upto(l, S, i)) <= Cardinality(Places(l, S))
  BY <1>1, <1>2, FS_Subset
<1>4. Cardinality(Upto(l, S, i)) \in Nat /\ Cardinality(Upto(l, S, i)) # 0
  BY <1>2, <1>3, FS_CardinalityType, FS_EmptySet
<1> QED
  BY <1>1, <1>3, <1>4 DEF Rank

\* A later place has a higher rank.
LEMMA RankGrows ==
  ASSUME NEW T, NEW l \in Seq(T), NEW S,
         NEW i \in Places(l, S), NEW j \in Places(l, S), i < j
  PROVE  Rank(l, S, i) < Rank(l, S, j)
<1>1. IsFiniteSet(Places(l, S)) /\ i \in Nat /\ j \in Nat
  BY PlacesFinite
<1>2. /\ Upto(l, S, i) \in SUBSET Upto(l, S, j) /\ Upto(l, S, i) # Upto(l, S, j)
      /\ Upto(l, S, j) \in SUBSET Places(l, S)
  <2>1. \A k \in Places(l, S) : k \in Nat
    BY PlacesFinite
  <2>2. \A k \in Places(l, S) : k <= i => k <= j
    BY <1>1, <2>1
  <2>3. j <= j /\ ~(j <= i)
    BY <1>1
  <2> QED
    BY <2>2, <2>3 DEF Upto
<1>3. IsFiniteSet(Upto(l, S, j))
  BY <1>1, <1>2, FS_Subset
<1>4. /\ IsFiniteSet(Upto(l, S, i))
      /\ Cardinality(Upto(l, S, i)) <= Cardinality(Upto(l, S, j))
      /\ Cardinality(Upto(l, S, j)) # Cardinality(Upto(l, S, i))
  BY <1>2, <1>3, FS_Subset
<1> QED
  BY <1>3, <1>4, FS_CardinalityType DEF Rank

\* Every rank is that of exactly one place.
LEMMA RankOnto ==
  ASSUME NEW T, NEW l \in Seq(T), NEW S, NEW n \in 1..Cardinality(Places(l, S))
  PROVE  \E i \in Places(l, S) : Rank(l, S, i) = n
<1> DEFINE K == Places(l, S)
           c == Cardinality(K)
           rank == [i \in K |-> Rank(l, S, i)]
<1>1. IsFiniteSet(K) /\ c \in Nat /\ \A i \in K : i \in Nat
  BY PlacesFinite
<1>2. IsFiniteSet(1..c) /\ Cardinality(1..c) = c
  BY <1>1, FS_Interval
<1>3. rank \in [K -> 1..c]
  BY RankRange
<1>4. \A i, j \in K : i < j => rank[i] < rank[j]
  BY RankGrows
<1>5. rank \in Injection(K, 1..c)
  <2>1. \A i, j \in K : rank[i] = rank[j] => i = j
    <3> SUFFICES ASSUME NEW i \in K, NEW j \in K, rank[i] = rank[j], i # j PROVE FALSE
      OBVIOUS
    <3>1. rank[i] \in Nat /\ (i < j \/ j < i)
      BY <1>1, <1>3
    <3> HIDE DEF rank, K, c
    <3> QED
      BY <1>4, <3>1
  <2> HIDE DEF rank, K, c
  <2> QED
    BY <1>3, <2>1 DEF Injection, IsInjective
<1> HIDE DEF rank
<1>6. rank \in Surjection(K, 1..c)
  BY <1>2, <1>5, FS_Injection
<1>7. \E i \in K : rank[i] = n
  BY <1>6 DEF Surjection
<1> QED
  BY <1>7 DEF rank

-----------------------------------------------------------------------------
\* The filter reads the list at growing places: at those kept, and all of them.
LEMMA OnlyReads ==
  ASSUME NEW T, NEW l \in Seq(T), NEW S
  PROVE  \E e \in [1..Cardinality(Places(l, S)) -> Places(l, S)] :
           /\ Only(l, S) = [n \in 1..Cardinality(Places(l, S)) |-> l[e[n]]]
           /\ \A m, n \in 1..Cardinality(Places(l, S)) : m < n => e[m] < e[n]
           /\ \A i \in Places(l, S) : \E n \in 1..Cardinality(Places(l, S)) : e[n] = i
<1> DEFINE K == Places(l, S)
           c == Cardinality(K)
           at(n) == CHOOSE i \in K : Rank(l, S, i) = n
           e == [n \in 1..c |-> at(n)]
<1>1. \A n \in 1..c : at(n) \in K /\ Rank(l, S, at(n)) = n
  BY RankOnto
<1>2. e \in [1..c -> K] /\ Only(l, S) = [n \in 1..c |-> l[e[n]]]
  <2>1. Only(l, S) = [n \in 1..c |-> l[at(n)]]
    BY OnlyDef
  <2> HIDE DEF at, c, K
  <2> QED
    BY <1>1, <2>1
<1>3. \A i \in K : i \in Nat /\ Rank(l, S, i) \in 1..c
  BY PlacesFinite, RankRange
<1>4. \A i, j \in K : i < j => Rank(l, S, i) < Rank(l, S, j)
  BY RankGrows
<1>5. c \in Nat
  BY PlacesFinite
<1> HIDE DEF at, c, K
<1>6. \A m, n \in 1..c : m < n => e[m] < e[n]
  <2> SUFFICES ASSUME NEW m \in 1..c, NEW n \in 1..c, m < n, ~(e[m] < e[n]) PROVE FALSE
    OBVIOUS
  <2>1. e[m] = at(m) /\ e[n] = at(n)
    OBVIOUS
  <2>2. at(m) \in Nat /\ at(n) \in Nat /\ (at(n) < at(m) \/ at(n) = at(m))
    BY <1>1, <1>3, <2>1
  <2>3. n < m \/ n = m
    BY <1>1, <1>4, <2>2
  <2> QED
    BY <1>5, <2>3
<1>7. \A i \in K : \E n \in 1..c : e[n] = i
  <2> SUFFICES ASSUME NEW i \in K PROVE \E n \in 1..c : e[n] = i
    OBVIOUS
  <2> DEFINE n == Rank(l, S, i)
  <2>1. n \in 1..c /\ at(n) \in K /\ Rank(l, S, at(n)) = n
    BY <1>1, <1>3
  <2>2. at(n) = i
    BY <1>3, <1>4, <2>1
  <2> QED
    BY <2>1, <2>2
<1> QED
  BY <1>2, <1>6, <1>7 DEF c, K

\* What is kept is a list of the elements asked for, at growing places.
LEMMA OnlyOrder ==
  ASSUME NEW T, NEW l \in Seq(T), NEW S
  PROVE  /\ Only(l, S) \in Seq(T)
         /\ Elems(Only(l, S)) = Elems(l) \cap S
         /\ \E e \in [DOMAIN Only(l, S) -> DOMAIN l] :
              /\ \A n \in DOMAIN Only(l, S) : Only(l, S)[n] = l[e[n]]
              /\ \A m, n \in DOMAIN Only(l, S) : m < n => e[m] < e[n]
<1> DEFINE K == Places(l, S)
           c == Cardinality(K)
<1>1. PICK e \in [1..c -> K] :
        /\ Only(l, S) = [n \in 1..c |-> l[e[n]]]
        /\ \A m, n \in 1..c : m < n => e[m] < e[n]
        /\ \A i \in K : \E n \in 1..c : e[n] = i
  BY OnlyReads
<1>2. c \in Nat /\ K \subseteq DOMAIN l /\ \A i \in DOMAIN l : l[i] \in T /\ (i \in K <=> l[i] \in S)
  <2>1. DOMAIN l = 1..Len(l) /\ \A i \in 1..Len(l) : l[i] \in T
    BY LenProperties, ElementOfSeq
  <2>2. c \in Nat
    BY PlacesFinite
  <2> QED
    BY <2>1, <2>2 DEF Places
<1> HIDE DEF K, c
<1>3. DOMAIN Only(l, S) = 1..c /\ \A n \in 1..c : e[n] \in K /\ Only(l, S)[n] = l[e[n]]
  BY <1>1
<1>4. Only(l, S) \in Seq(T)
  <2>1. Only(l, S) \in [1..c -> T]
    BY <1>1, <1>2, <1>3
  <2> QED
    BY <1>2, <2>1, SeqDef
<1>5. Elems(Only(l, S)) = Elems(l) \cap S
  <2>1. ASSUME NEW x \in Elems(Only(l, S)) PROVE x \in Elems(l) \cap S
    BY <1>2, <1>3 DEF Elems
  <2>2. ASSUME NEW x \in Elems(l) \cap S PROVE x \in Elems(Only(l, S))
    <3>1. PICK i \in DOMAIN l : l[i] = x
      BY DEF Elems
    <3>2. PICK n \in 1..c : e[n] = i
      BY <1>1, <1>2, <3>1
    <3> QED
      BY <1>3, <3>1, <3>2 DEF Elems
  <2> QED
    BY <2>1, <2>2
<1>6. e \in [DOMAIN Only(l, S) -> DOMAIN l]
  BY <1>2, <1>3
<1> QED
  BY <1>1, <1>3, <1>4, <1>5, <1>6

\* A filter repeats nothing, and puts nothing before what it came after.
LEMMA OnlyKeepsOrder ==
  ASSUME NEW T, NEW l \in Seq(T), Simple(l), NEW S
  PROVE  Simple(Only(l, S)) /\ InOrderOf(Only(l, S), l)
<1> DEFINE D == DOMAIN Only(l, S)
<1>1. PICK e \in [D -> DOMAIN l] :
        /\ \A n \in D : Only(l, S)[n] = l[e[n]]
        /\ \A m, n \in D : m < n => e[m] < e[n]
  BY OnlyOrder
<1>2. D \subseteq Nat /\ DOMAIN l \subseteq Nat
  BY OnlyOrder, LenProperties
<1> HIDE DEF D
<1>3. \A m, n \in D : m < n =>
        \E i, j \in DOMAIN l : i < j /\ l[i] = Only(l, S)[m] /\ l[j] = Only(l, S)[n]
  BY <1>1
<1>4. ASSUME NEW m \in D, NEW n \in D, Only(l, S)[m] = Only(l, S)[n]
      PROVE  m = n
  <2>1. e[m] = e[n]
    BY <1>1, <1>4 DEF Simple
  <2>2. e[m] \in Nat /\ ~(m < n) /\ ~(n < m)
    BY <1>1, <1>2, <2>1
  <2> QED
    BY <1>2, <2>2
<1> QED
  BY <1>3, <1>4 DEF Simple, InOrderOf, D

\* A list without repetitions has as many elements as places.
LEMMA SimpleCardinality ==
  ASSUME NEW T, NEW l \in Seq(T)
  PROVE  /\ IsFiniteSet(Elems(l)) /\ Cardinality(Elems(l)) <= Len(l)
         /\ Simple(l) => Cardinality(Elems(l)) = Len(l)
<1> DEFINE N == 1..Len(l)
           E == Elems(l)
<1>1. DOMAIN l = N /\ Len(l) \in Nat
  BY LenProperties
<1>2. IsFiniteSet(N) /\ Cardinality(N) = Len(l)
  BY <1>1, FS_Interval
<1>3. l \in Surjection(N, E)
  <2>1. l \in [N -> E] /\ \A x \in E : \E n \in N : l[n] = x
    BY <1>1, LenProperties DEF Elems
  <2> HIDE DEF N, E
  <2> QED
    BY <2>1 DEF Surjection
<1>4. /\ IsFiniteSet(E) /\ Cardinality(E) <= Cardinality(N)
      /\ Cardinality(E) = Cardinality(N) <=> l \in Injection(N, E)
  BY <1>2, <1>3, FS_Surjection
<1>5. Simple(l) => l \in Injection(N, E)
  <2>1. l \in [N -> E]
    BY <1>3 DEF Surjection
  <2>2. Simple(l) => \A i, j \in N : l[i] = l[j] => i = j
    BY <1>1 DEF Simple
  <2> HIDE DEF N, E
  <2> QED
    BY <2>1, <2>2 DEF Injection, IsInjective
<1> QED
  BY <1>2, <1>4, <1>5

-----------------------------------------------------------------------------
\* A list of elements asked for stays as it is.
LEMMA OnlyAll ==
  ASSUME NEW T, NEW l \in Seq(T), NEW S, \A i \in DOMAIN l : l[i] \in S
  PROVE  Only(l, S) = l
<1> DEFINE N == 1..Len(l)
           K == Places(l, S)
           at(n) == CHOOSE i \in K : Rank(l, S, i) = n
<1>1. Len(l) \in Nat /\ DOMAIN l = N
  BY LenProperties
<1>2. K = N
  BY <1>1 DEF Places
<1>3. ASSUME NEW i \in N PROVE Rank(l, S, i) = i
  <2>1. Upto(l, S, i) = 1..i
    BY <1>1, <1>2 DEF Upto
  <2> QED
    BY <1>1, <2>1, FS_Interval DEF Rank
<1>4. Cardinality(N) = Len(l)
  BY <1>1, FS_Interval
<1>5. Only(l, S) = [n \in 1..Cardinality(K) |-> l[at(n)]]
  BY OnlyDef
<1> HIDE DEF K
<1>6. \A n \in N : at(n) = n
  BY <1>2, <1>3
<1>7. 1..Cardinality(K) = N
  BY <1>2, <1>4
<1> HIDE DEF at, N
<1>8. l = [n \in N |-> l[n]]
  BY <1>1, LenProperties DEF N
<1> QED
  BY <1>5, <1>6, <1>7, <1>8

\* So filtering twice is filtering once.
LEMMA OnlyTwice ==
  ASSUME NEW T, NEW l \in Seq(T), NEW S
  PROVE  Only(Only(l, S), S) = Only(l, S)
<1>1. Only(l, S) \in Seq(T) /\ Elems(Only(l, S)) = Elems(l) \cap S
  BY OnlyOrder
<1>2. \A i \in DOMAIN Only(l, S) : Only(l, S)[i] \in S
  BY <1>1 DEF Elems
<1> QED
  BY <1>1, <1>2, OnlyAll

\* Moving a set of places by one leaves its size.
LEMMA ShiftCardinality ==
  ASSUME NEW A, A \subseteq Nat, IsFiniteSet(A)
  PROVE  Cardinality({i + 1 : i \in A}) = Cardinality(A)
<1> DEFINE B == {i + 1 : i \in A}
           f == [i \in A |-> i + 1]
<1>1. f \in [A -> B] /\ \A x \in B : \E i \in A : f[i] = x
  OBVIOUS
<1>2. \A i, j \in A : f[i] = f[j] => i = j
  OBVIOUS
<1> HIDE DEF f, B
<1>3. f \in Bijection(A, B)
  BY <1>1, <1>2 DEF Bijection, Injection, Surjection, IsInjective
<1> QED
  BY <1>3, FS_Bijection DEF ExistsBijection, B

\* An element in front that is not asked for changes nothing.
LEMMA OnlyInFront ==
  ASSUME NEW T, NEW l \in Seq(T), NEW x \in T, NEW S, x \notin S
  PROVE  Only(<<x>> \o l, S) = Only(l, S)
<1> DEFINE m == <<x>> \o l
           K == Places(l, S)
           L == Places(m, S)
           at(n) == CHOOSE i \in K : Rank(l, S, i) = n
           am(n) == CHOOSE i \in L : Rank(m, S, i) = n
<1>1. /\ m \in Seq(T) /\ Len(l) \in Nat /\ DOMAIN l = 1..Len(l)
      /\ DOMAIN m = 1..(Len(l) + 1)
      /\ m[1] = x /\ \A i \in 1..Len(l) : m[i + 1] = l[i]
  <2>1. <<x>> \in Seq(T) /\ Len(<<x>>) = 1 /\ <<x>>[1] = x
    OBVIOUS
  <2>2. Len(l) \in Nat /\ DOMAIN l = 1..Len(l)
    BY LenProperties
  <2>3. /\ m \in Seq(T) /\ Len(m) = 1 + Len(l)
        /\ \A i \in 1..(1 + Len(l)) : m[i] = IF i <= 1 THEN <<x>>[i] ELSE l[i - 1]
    BY <2>1, ConcatProperties
  <2>4. DOMAIN m = 1..Len(m)
    BY <2>3, LenProperties
  <2> HIDE DEF m
  <2>5. \A i \in 1..Len(l) : m[i + 1] = l[i]
    <3> TAKE i \in 1..Len(l)
    <3>1. i + 1 \in 1..(1 + Len(l)) /\ ~(i + 1 <= 1) /\ (i + 1) - 1 = i
      BY <2>2
    <3> QED
      BY <2>3, <3>1
  <2> QED
    BY <2>1, <2>2, <2>3, <2>4, <2>5
<1> HIDE DEF m
<1>2. K \subseteq Nat /\ IsFiniteSet(K) /\ L \subseteq Nat /\ IsFiniteSet(L)
  BY <1>1, PlacesFinite
<1>3. L = {i + 1 : i \in K}
  <2>1. ASSUME NEW i \in K PROVE i + 1 \in L
    BY <1>1 DEF Places
  <2>2. ASSUME NEW j \in L PROVE \E i \in K : j = i + 1
    <3>1. j \in 1..(Len(l) + 1) /\ j # 1 /\ m[j] \in S
      BY <1>1 DEF Places
    <3>2. j - 1 \in 1..Len(l) /\ j = (j - 1) + 1
      BY <1>1, <3>1
    <3>3. j - 1 \in K
      BY <1>1, <3>1, <3>2 DEF Places
    <3> QED
      BY <3>2, <3>3
  <2> QED
    BY <2>1, <2>2
<1>4. Cardinality(L) = Cardinality(K)
  BY <1>2, <1>3, ShiftCardinality
<1>5. ASSUME NEW i \in K PROVE i + 1 \in L /\ Rank(m, S, i + 1) = Rank(l, S, i)
  <2>1. Upto(l, S, i) \subseteq Nat /\ IsFiniteSet(Upto(l, S, i))
    BY <1>2, FS_Subset DEF Upto
  <2>2. Upto(m, S, i + 1) = {j + 1 : j \in Upto(l, S, i)}
    BY <1>2, <1>3 DEF Upto
  <2> QED
    BY <1>3, <2>1, <2>2, ShiftCardinality DEF Rank
<1>6. ASSUME NEW n \in 1..Cardinality(K) PROVE l[at(n)] = m[am(n)]
  <2>1. at(n) \in K /\ Rank(l, S, at(n)) = n
    BY RankOnto
  <2>2. at(n) + 1 \in L /\ Rank(m, S, at(n) + 1) = n
    BY <1>5, <2>1
  <2>3. am(n) \in L /\ Rank(m, S, am(n)) = n
    BY <2>2
  <2> HIDE DEF at, am
  <2>4. at(n) + 1 \in Nat /\ am(n) \in Nat /\ n \in Nat
    BY <1>2, <2>2, <2>3
  <2>5. ~(at(n) + 1 < am(n)) /\ ~(am(n) < at(n) + 1)
    BY <1>1, <2>2, <2>3, <2>4, RankGrows
  <2>6. am(n) = at(n) + 1
    BY <2>4, <2>5
  <2> QED
    BY <1>1, <2>1, <2>6 DEF Places
<1>7. /\ Only(l, S) = [n \in 1..Cardinality(K) |-> l[at(n)]]
      /\ Only(m, S) = [n \in 1..Cardinality(L) |-> m[am(n)]]
  BY OnlyDef
<1> HIDE DEF at, am, K, L
<1> QED
  BY <1>4, <1>6, <1>7 DEF m
=============================================================================
