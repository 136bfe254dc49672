--------------------------- MODULE NativeTextProofs ---------------------------
(***************************************************************************)
(* Proofs about NativeText, for texts, files and fields of every length,   *)
(* every page and every size of the parts of an archive and of a secret.   *)
(***************************************************************************)
EXTENDS MybooksLibrary, ListsProofs, WellFoundedInduction

(* Min is the least number.                                                 *)
LEMMA MinIs ==
  ASSUME NEW S \in SUBSET Int, NEW m \in S, \A n \in S : m <= n
  PROVE  Min(S) = m
  <1> DEFINE c == CHOOSE x \in S : \A y \in S : x <= y
  <1>1. c \in S /\ \A y \in S : c <= y
    OBVIOUS
  <1> HIDE DEF c
  <1>2. c = m
    BY <1>1
  <1> QED  BY <1>2 DEF c, Min

(* Max is the greatest number.                                              *)
LEMMA MaxIs ==
  ASSUME NEW S \in SUBSET Int, NEW m \in S, \A n \in S : n <= m
  PROVE  Max(S) = m
  <1> DEFINE c == CHOOSE x \in S : \A y \in S : x >= y
  <1>1. c \in S /\ \A y \in S : c >= y
    OBVIOUS
  <1> HIDE DEF c
  <1>2. c = m
    BY <1>1
  <1> QED  BY <1>2 DEF c, Max

(* A set of numbers has a least one.                                        *)
LEMMA FirstIs ==
  ASSUME NEW S \in SUBSET Nat, S # {}, NEW d
  PROVE  First(S, d) \in S /\ \A n \in S : First(S, d) <= n
  <1> DEFINE R == OpToRel(<, Nat)
  <1>1. PICK m \in S : \A n \in S : <<n, m>> \notin R
    <2>1. IsWellFoundedOn(R, Nat)
      BY NatLessThanWellFounded
    <2> HIDE DEF R
    <2> QED  BY <2>1, WFMin
  <1>2. \A n \in S : m <= n
    <2> TAKE n \in S
    <2>1. <<n, m>> \notin R
      BY <1>1
    <2>2. ~(n < m)
      BY <2>1 DEF OpToRel
    <2> QED  BY <2>2
  <1> QED  BY <1>2, MinIs DEF First

(* Induction over the numbers to k, for a set of them.                      *)
LEMMA NoneMissing ==
  ASSUME NEW k \in Nat, NEW S \in SUBSET (0..k), 0 \in S,
         \A n \in 1..k : n - 1 \in S => n \in S
  PROVE  S = 0..k
  <1> DEFINE not == (0..k) \ S
             m == First(not, 0)
  <1> SUFFICES ASSUME not # {} PROVE FALSE
    OBVIOUS
  <1>1. m \in not /\ \A n \in not : m <= n
    <2>1. not \in SUBSET Nat
      OBVIOUS
    <2> HIDE DEF not
    <2> QED  BY <2>1, FirstIs
  <1> HIDE DEF m
  <1>2. m \in 1..k /\ m - 1 \in 0..k /\ ~(m <= m - 1) /\ m \notin S
    BY <1>1
  <1>3. m - 1 \in S
    BY <1>1, <1>2
  <1> QED  BY <1>2, <1>3

(* The parts of what was put together.                                      *)
LEMMA ConcatParts ==
  ASSUME NEW T, NEW a \in Seq(T), NEW b \in Seq(T)
  PROVE  /\ a \o b \in Seq(T) /\ Len(a \o b) = Len(a) + Len(b)
         /\ SubSeq(a \o b, 1, Len(a)) = a
         /\ SubSeq(a \o b, Len(a) + 1, Len(a) + Len(b)) = b
  <1> DEFINE c == a \o b
  <1>1. /\ c \in Seq(T) /\ Len(c) = Len(a) + Len(b)
        /\ \A i \in 1..(Len(a) + Len(b)) : c[i] = IF i <= Len(a) THEN a[i] ELSE b[i - Len(a)]
        /\ Len(a) \in Nat /\ Len(b) \in Nat
    BY ConcatProperties
  <1> HIDE DEF c
  <1>2. \A i \in 1..Len(c) : c[i] \in T
    BY <1>1
  <1>3. SubSeq(c, 1, Len(a)) = a
    <2> DEFINE p == SubSeq(c, 1, Len(a))
    <2>1. p \in Seq(T) /\ Len(p) = Len(a) /\ \A i \in 1..Len(a) : p[i] = c[i]
      BY <1>1, <1>2, SubSeqProperties
    <2> HIDE DEF p
    <2>2. \A i \in 1..Len(p) : p[i] = a[i]
      BY <1>1, <2>1
    <2> QED  BY <2>1, <2>2, SeqEqual DEF p
  <1>4. SubSeq(c, Len(a) + 1, Len(a) + Len(b)) = b
    <2> DEFINE p == SubSeq(c, Len(a) + 1, Len(a) + Len(b))
    <2>1. p \in Seq(T) /\ Len(p) = Len(b) /\ \A i \in 1..Len(b) : p[i] = c[Len(a) + i]
      BY <1>1, <1>2, SubSeqProperties
    <2> HIDE DEF p
    <2>2. \A i \in 1..Len(p) : p[i] = b[i]
      <3> TAKE i \in 1..Len(p)
      <3>1. /\ i \in 1..Len(b) /\ Len(a) + i \in 1..(Len(a) + Len(b))
            /\ ~(Len(a) + i <= Len(a)) /\ (Len(a) + i) - Len(a) = i
        BY <1>1, <2>1
      <3>2. c[Len(a) + i] = b[(Len(a) + i) - Len(a)]
        BY <1>1, <3>1
      <3> QED  BY <2>1, <3>1, <3>2
    <2> QED  BY <2>1, <2>2, SeqEqual DEF p
  <1> QED  BY <1>1, <1>3, <1>4 DEF c

(* Where the brackets stand does not matter.                                *)
LEMMA ThreeParts ==
  ASSUME NEW T, NEW x \in Seq(T), NEW y \in Seq(T), NEW z \in Seq(T)
  PROVE  (x \o y) \o z = x \o (y \o z)
  BY ConcatAssociative

(* What is flattened grows by one part after the other.                     *)
LEMMA FlattenIs ==
  ASSUME NEW T, NEW l \in Seq(Seq(T)), l # <<>>
  PROVE  \E f \in [1..Len(l) -> Seq(T)] :
           /\ f[1] = l[1] /\ \A i \in 2..Len(l) : f[i] = f[i - 1] \o l[i]
           /\ FlattenSeq(l) = f[Len(l)]
  <1> DEFINE S == Seq(T)
             k == Len(l)
             cat(x, y) == x \o y
             E(f, n) == [i \in 1..n |-> IF i = 1 THEN l[i] ELSE cat(f[i - 1], l[i])]
             without == {n \in 1..k : ~\E f \in [1..n -> S] : f = E(f, n)}
             m == First(without, 0)
             flat == CHOOSE f : f = E(f, k)
  <1>1. /\ k \in Nat /\ k > 0 /\ \A i \in 1..k : l[i] \in S
        /\ \A x, y \in S : cat(x, y) \in S
    OBVIOUS
  <1>5. FlattenSeq(l) = flat[k]
    BY <1>1 DEF FlattenSeq
  <1> HIDE DEF S, k, cat
  <1>2. without = {}
    <2> SUFFICES ASSUME without # {} PROVE FALSE
      OBVIOUS
    <2>1. m \in without /\ \A n \in without : m <= n
      <3>1. without \in SUBSET Nat
        BY <1>1
      <3> HIDE DEF without
      <3> QED  BY <3>1, FirstIs
    <2>2. m \in 1..k /\ ~\E f \in [1..m -> S] : f = E(f, m)
      BY <2>1
    <2> HIDE DEF m
    <2>3. CASE m = 1
      <3> DEFINE g == [i \in 1..1 |-> l[1]]
      <3>1. g \in [1..m -> S] /\ g = E(g, m)
        BY <1>1, <2>3
      <3> QED  BY <2>2, <3>1
    <2>4. CASE m # 1
      <3>1. m - 1 \in 1..k /\ m - 1 \in 1..(m - 1) /\ ~(m <= m - 1)
        BY <1>1, <2>2, <2>4
      <3>2. PICK f \in [1..(m - 1) -> S] : f = E(f, m - 1)
        BY <2>1, <3>1
      <3> DEFINE x == cat(f[m - 1], l[m])
                 g == [i \in 1..m |-> IF i = m THEN x ELSE f[i]]
      <3>3. x \in S
        BY <1>1, <2>2, <3>1, <3>2
      <3>4. g \in [1..m -> S]
        <4> HIDE DEF x
        <4> QED  BY <2>2, <3>1, <3>2, <3>3
      <3>5. \A i \in 1..m : g[i] = IF i = 1 THEN l[i] ELSE cat(g[i - 1], l[i])
        <4> TAKE i \in 1..m
        <4>1. CASE i = m
          <5>1. g[i - 1] = f[m - 1] /\ g[i] = x
            BY <1>1, <2>2, <2>4, <3>1, <4>1
          <5> HIDE DEF g
          <5> QED  BY <2>4, <4>1, <5>1
        <4>2. CASE i # m
          <5>1. i \in 1..(m - 1) /\ g[i] = f[i]
            BY <2>2, <4>2
          <5>2. f[i] = IF i = 1 THEN l[i] ELSE cat(f[i - 1], l[i])
            BY <3>2, <5>1
          <5>3. i # 1 => g[i - 1] = f[i - 1]
            BY <2>2, <5>1
          <5> HIDE DEF g
          <5> QED  BY <5>1, <5>2, <5>3
        <4> QED  BY <4>1, <4>2
      <3>6. g = E(g, m)
        <4>1. g = [i \in 1..m |-> g[i]]
          OBVIOUS
        <4> HIDE DEF g
        <4> QED  BY <3>5, <4>1
      <3> QED  BY <2>2, <3>4, <3>6
    <2> QED  BY <2>3, <2>4
  <1>3. PICK f \in [1..k -> S] : f = E(f, k)
    <2>1. k \in 1..k /\ k \notin without
      BY <1>1, <1>2
    <2> QED  BY <2>1
  <1>4. flat = E(flat, k)
    BY <1>3
  <1> HIDE DEF flat
  <1>6. \A i \in 1..k : flat[i] = f[i]
    <2> DEFINE other == {i \in 1..k : flat[i] # f[i]}
               i == First(other, 0)
    <2> SUFFICES ASSUME other # {} PROVE FALSE
      OBVIOUS
    <2>1. i \in other /\ \A n \in other : i <= n
      <3>1. other \in SUBSET Nat
        BY <1>1
      <3> HIDE DEF other
      <3> QED  BY <3>1, FirstIs
    <2> HIDE DEF i
    <2>2. CASE i = 1
      BY <1>1, <1>3, <1>4, <2>1, <2>2
    <2>3. CASE i # 1
      <3>1. i - 1 \in 1..k /\ i - 1 \notin other /\ i \in 1..k
        BY <1>1, <2>1, <2>3
      <3>2. flat[i - 1] = f[i - 1]
        BY <3>1
      <3>3. flat[i] = cat(flat[i - 1], l[i]) /\ f[i] = cat(f[i - 1], l[i])
        BY <1>3, <1>4, <2>3, <3>1
      <3> QED  BY <2>1, <3>2, <3>3
    <2> QED  BY <2>2, <2>3
  <1>7. f[1] = l[1] /\ \A i \in 2..k : f[i] = cat(f[i - 1], l[i])
    <2>1. \A i \in 1..k : f[i] = IF i = 1 THEN l[i] ELSE cat(f[i - 1], l[i])
      BY <1>3
    <2>2. 1 \in 1..k /\ \A i \in 2..k : i \in 1..k /\ i # 1
      BY <1>1
    <2> QED  BY <2>1, <2>2
  <1>8. FlattenSeq(l) = f[k]
    BY <1>1, <1>5, <1>6
  <1> QED  BY <1>7, <1>8, Zenon DEF S, k, cat

Steps(f, a, b, e, step) == f = [n \in a..b |-> IF n = a THEN e ELSE step[n][f[n - 1]]]

(* A function that is computed place by place exists.                       *)
LEMMA StepsExist ==
  ASSUME NEW S, NEW a \in Int, NEW b \in Int, NEW e \in S,
         NEW step \in [(a + 1)..b -> [S -> S]]
  PROVE  \E f \in [a..b -> S] : Steps(f, a, b, e, step)
  <1> DEFINE E(f, c) == [n \in a..c |-> IF n = a THEN e ELSE step[n][f[n - 1]]]
             Built(d) == \E f \in [a..(a + d) -> S] : f = E(f, a + d)
             without == {d \in Nat : a + d <= b /\ ~Built(d)}
             m == First(without, 0)
             c == a + m
  <1>1. without = {}
    <2> SUFFICES ASSUME without # {} PROVE FALSE
      OBVIOUS
    <2>1. m \in without /\ \A d \in without : m <= d
      <3>1. without \in SUBSET Nat
        OBVIOUS
      <3> HIDE DEF without
      <3> QED  BY <3>1, FirstIs
    <2> HIDE DEF Built, m
    <2>6. m \in Nat /\ c \in Int /\ c <= b /\ ~Built(m)
      BY <2>1
    <2>3. \A d \in Nat : d < m => Built(d)
      <3> TAKE d \in Nat
      <3> HAVE d < m
      <3>1. d \notin without
        BY <2>1, <2>6
      <3>2. a + d <= b
        BY <2>6
      <3> QED  BY <3>1, <3>2
    <2>2. m \in Nat /\ c \in Int /\ c <= b /\ ~\E f \in [a..c -> S] : f = E(f, c)
      BY <2>6 DEF Built
    <2> HIDE DEF without
    <2>4. CASE m = 0
      <3> DEFINE f == [n \in a..a |-> e]
      <3>1. f \in [a..c -> S] /\ f = E(f, c)
        BY <2>4
      <3> QED  BY <2>2, <3>1
    <2>5. CASE m # 0
      <3>1. m - 1 \in Nat /\ m - 1 < m /\ a + (m - 1) = c - 1
        BY <2>2, <2>5
      <3>2. PICK f \in [a..(c - 1) -> S] : f = E(f, c - 1)
        BY <2>3, <3>1 DEF Built
      <3>7. c - 1 \in a..(c - 1) /\ c # a /\ c \in (a + 1)..b /\ c - 1 < c
        BY <2>2, <2>5
      <3> DEFINE x == step[c][f[c - 1]]
                 g == [n \in a..c |-> IF n = c THEN x ELSE f[n]]
      <3>3. x \in S
        BY <3>2, <3>7
      <3> HIDE DEF c
      <3>4. g \in [a..c -> S]
        <4> HIDE DEF x
        <4> QED  BY <2>2, <3>2, <3>3
      <3>5. \A n \in a..c : g[n] = IF n = a THEN e ELSE step[n][g[n - 1]]
        <4> TAKE n \in a..c
        <4>1. CASE n = c
          <5>1. g[n - 1] = f[c - 1] /\ g[n] = x
            BY <2>2, <3>7, <4>1
          <5> HIDE DEF g
          <5> QED  BY <3>7, <4>1, <5>1
        <4>2. CASE n # c
          <5>1. n \in a..(c - 1) /\ g[n] = f[n]
            BY <2>2, <4>2
          <5>2. f[n] = IF n = a THEN e ELSE step[n][f[n - 1]]
            BY <3>2, <5>1
          <5>3. n # a => g[n - 1] = f[n - 1]
            BY <2>2, <5>1
          <5> HIDE DEF g
          <5> QED  BY <5>1, <5>2, <5>3
        <4> QED  BY <4>1, <4>2
      <3>6. g = E(g, c)
        <4>1. g = [n \in a..c |-> g[n]]
          OBVIOUS
        <4> HIDE DEF g
        <4> QED  BY <3>5, <4>1
      <3> QED  BY <2>2, <3>4, <3>6
    <2> QED  BY <2>4, <2>5
  <1>2. CASE a <= b
    <2>1. b - a \in Nat /\ a + (b - a) = b
      BY <1>2
    <2>2. b - a \notin without
      BY <1>1
    <2>3. \E f \in [a..b -> S] : f = E(f, b)
      BY <2>1, <2>2
    <2> QED  BY <2>3 DEF Steps
  <1>3. CASE ~(a <= b)
    <2> DEFINE f == [n \in a..b |-> e]
    <2>1. a..b = {}
      BY <1>3
    <2>2. f \in [a..b -> S] /\ f = E(f, b)
      BY <2>1
    <2> QED  BY <2>2 DEF Steps
  <1> QED  BY <1>2, <1>3 DEF Steps

(* What is flattened grows from the empty text.                             *)
LEMMA FlattenGrows ==
  ASSUME NEW T, NEW l \in Seq(Seq(T))
  PROVE  \E f \in [0..Len(l) -> Seq(T)] :
           /\ f[0] = <<>> /\ \A i \in 1..Len(l) : f[i] = f[i - 1] \o l[i]
           /\ FlattenSeq(l) = f[Len(l)]
  <1>1. CASE l = <<>>
    <2> DEFINE f == [i \in 0..0 |-> <<>>]
    <2>1. Len(l) = 0 /\ FlattenSeq(l) = <<>>
      BY <1>1 DEF FlattenSeq
    <2>2. f \in [0..Len(l) -> Seq(T)] /\ f[0] = <<>> /\ 1..Len(l) = {}
      BY <2>1
    <2> HIDE DEF f
    <2> QED  BY <2>1, <2>2
  <1>2. CASE l # <<>>
    <2> DEFINE S == Seq(T)
               k == Len(l)
               cat(x, y) == x \o y
    <2>1. PICK f \in [1..k -> S] :
            /\ f[1] = l[1] /\ \A i \in 2..k : f[i] = cat(f[i - 1], l[i])
            /\ FlattenSeq(l) = f[k]
      BY <1>2, FlattenIs
    <2>2. k \in Nat /\ k > 0 /\ <<>> \in S /\ \A i \in 1..k : l[i] \in S
      BY <1>2
    <2>3. \A x \in S : cat(<<>>, x) = x
      BY ConcatEmptySeq
    <2> DEFINE z == <<>>
               g == [i \in 0..k |-> IF i = 0 THEN z ELSE f[i]]
    <2>4. cat(z, l[1]) = l[1] /\ z \in S
      BY <2>2, <2>3
    <2> HIDE DEF S, k, cat, z
    <2>5. g \in [0..k -> S] /\ g[0] = z /\ FlattenSeq(l) = g[k]
      BY <2>1, <2>2, <2>4
    <2>6. \A i \in 1..k : g[i] = cat(g[i - 1], l[i])
      <3> TAKE i \in 1..k
      <3>1. CASE i = 1
        <4>1. g[i] = l[1] /\ g[i - 1] = z
          BY <2>1, <2>2, <3>1
        <4> QED  BY <2>4, <3>1, <4>1
      <3>2. CASE i # 1
        <4>1. i \in 2..k /\ g[i] = f[i] /\ g[i - 1] = f[i - 1]
          BY <2>2, <3>2
        <4> QED  BY <2>1, <4>1
      <3> QED  BY <3>1, <3>2
    <2> HIDE DEF g
    <2> QED  BY <2>5, <2>6, Zenon DEF S, k, cat, z
  <1> QED  BY <1>1, <1>2

(* Where the k parts l lie in the flattened s: part n from behind place     *)
(* q[n - 1] to place q[n].                                                  *)
LiesAt(q, s, l, k, T) ==
  /\ q[0] = 0 /\ \A n \in 1..k : q[n] = q[n - 1] + Len(l[n])
  /\ \A n \in 0..k : q[n] <= q[k]
  /\ s \in Seq(T) /\ Len(s) = q[k]
  /\ \A n \in 1..k : \A i \in 1..Len(l[n]) : s[q[n - 1] + i] = l[n][i]

(* The parts of a flattened text lie behind one another.                    *)
LEMMA FlattenLies ==
  ASSUME NEW T, NEW k \in Nat, NEW l \in [1..k -> Seq(T)]
  PROVE  \E q \in [0..k -> Nat] : LiesAt(q, FlattenSeq(l), l, k, T)
  <1>1. /\ l \in Seq(Seq(T)) /\ Len(l) = k
    OBVIOUS
  <1>2. PICK f \in [0..k -> Seq(T)] :
          /\ f[0] = <<>> /\ \A i \in 1..k : f[i] = f[i - 1] \o l[i]
          /\ FlattenSeq(l) = f[k]
    BY <1>1, FlattenGrows
  <1> DEFINE q == [n \in 0..k |-> Len(f[n])]
  <1>3. /\ q \in [0..k -> Nat] /\ q[0] = 0 /\ \A n \in 0..k : Len(f[n]) = q[n]
        /\ \A n \in 1..k : Len(l[n]) \in Nat
    BY <1>2
  <1> HIDE DEF q
  <1>4. \A n \in 1..k :
          /\ f[n] \in Seq(T) /\ q[n] = q[n - 1] + Len(l[n])
          /\ \A i \in 1..q[n - 1] : f[n][i] = f[n - 1][i]
          /\ \A i \in 1..Len(l[n]) : f[n][q[n - 1] + i] = l[n][i]
    <2> TAKE n \in 1..k
    <2> DEFINE a == f[n - 1]
               b == l[n]
               r == a \o b
               u == q[n - 1]
               v == q[n]
               w == Len(b)
    <2>1. n - 1 \in 0..k /\ n \in 0..k
      OBVIOUS
    <2>2. a \in Seq(T) /\ b \in Seq(T) /\ f[n] = r /\ Len(a) = u /\ Len(r) = v /\ u \in Nat /\ w \in Nat
      BY <1>2, <1>3, <2>1
    <2> HIDE DEF a, b, u, v, w
    <2>3. /\ r \in Seq(T) /\ Len(r) = Len(a) + Len(b)
          /\ \A i \in 1..(Len(a) + Len(b)) : r[i] = IF i <= Len(a) THEN a[i] ELSE b[i - Len(a)]
      BY <2>2, ConcatProperties
    <2> HIDE DEF r
    <2>4. v = u + w /\ \A i \in 1..u : r[i] = a[i]
      BY <2>2, <2>3 DEF w
    <2>5. ASSUME NEW i \in 1..w PROVE r[u + i] = b[i]
      <3>1. u + i \in 1..(u + w) /\ ~(u + i <= u) /\ (u + i) - u = i
        BY <2>2
      <3>2. r[u + i] = b[(u + i) - u]
        BY <2>2, <2>3, <3>1 DEF w
      <3> QED  BY <3>1, <3>2
    <2> QED  BY <2>2, <2>3, <2>4, <2>5 DEF a, b, u, v, w
  <1> DEFINE Laid(n) == /\ \A m \in 0..n : q[m] <= q[n]
                        /\ \A m \in 1..n : \A i \in 1..Len(l[m]) : f[n][q[m - 1] + i] = l[m][i]
  <1>5. Laid(0)
    BY <1>3
  <1>6. ASSUME NEW n \in 1..k, Laid(n - 1) PROVE Laid(n)
    <2>4. n - 1 \in 0..k /\ n \in 0..k
      OBVIOUS
    <2>1. n - 1 \in 0..k /\ n \in 0..k /\ q[n] \in Nat /\ q[n - 1] \in Nat /\ Len(l[n]) \in Nat
      BY <1>3, <2>4
    <2>2. \A m \in 0..n : q[m] <= q[n]
      <3> TAKE m \in 0..n
      <3>1. CASE m = n
        BY <2>1, <3>1
      <3>2. CASE m # n
        <4>1. m \in 0..(n - 1) /\ q[m] \in Nat
          BY <1>3, <3>2
        <4>2. q[m] <= q[n - 1] /\ q[n] = q[n - 1] + Len(l[n])
          BY <1>4, <1>6, <4>1
        <4> DEFINE x == q[m]
                   y == q[n - 1]
                   z == q[n]
                   w == Len(l[n])
        <4>3. x \in Nat /\ y \in Nat /\ w \in Nat /\ x <= y /\ z = y + w
          BY <2>1, <4>1, <4>2
        <4> HIDE DEF x, y, z, w
        <4>4. x <= z
          BY <4>3
        <4> QED  BY <4>4 DEF x, z
      <3> QED  BY <3>1, <3>2
    <2>3. ASSUME NEW m \in 1..n, NEW i \in 1..Len(l[m])
          PROVE  f[n][q[m - 1] + i] = l[m][i]
      <3>1. CASE m = n
        BY <1>4, <3>1
      <3>2. CASE m # n
        <4>1. m \in 1..(n - 1) /\ m \in 0..(n - 1) /\ m \in 1..k /\ m - 1 \in 0..k
          BY <3>2
        <4>2. q[m] <= q[n - 1] /\ f[n - 1][q[m - 1] + i] = l[m][i]
          BY <1>6, <4>1
        <4>3. q[m] = q[m - 1] + Len(l[m])
          BY <1>4, <4>1
        <4> DEFINE x == q[m - 1]
                   y == q[n - 1]
                   z == q[m]
                   w == Len(l[m])
        <4>4. x \in Nat /\ y \in Nat /\ z \in Nat /\ w \in Nat /\ z <= y /\ z = x + w /\ i \in 1..w
          BY <1>3, <2>1, <4>1, <4>2, <4>3
        <4> HIDE DEF x, y, z, w
        <4>5. x + i \in 1..y
          BY <4>4
        <4>6. \A j \in 1..y : f[n][j] = f[n - 1][j]
          BY <1>4 DEF y
        <4> QED  BY <4>2, <4>5, <4>6 DEF x
      <3> QED  BY <3>1, <3>2
    <2> QED  BY <2>2, <2>3
  <1> HIDE DEF Laid
  <1>7. Laid(k)
    <2> DEFINE not == {n \in 0..k : ~Laid(n)}
               m == First(not, 0)
    <2> SUFFICES ASSUME not # {} PROVE FALSE
      <3>1. k \in 0..k
        OBVIOUS
      <3> QED  BY <3>1
    <2>1. m \in not /\ \A n \in not : m <= n
      <3>1. not \in SUBSET Nat
        OBVIOUS
      <3> HIDE DEF not
      <3> QED  BY <3>1, FirstIs
    <2>2. m \in 0..k /\ ~Laid(m)
      BY <2>1
    <2> HIDE DEF m
    <2>3. m # 0
      BY <1>5, <2>2
    <2>4. m \in 1..k /\ m - 1 \in 0..k /\ m - 1 \notin not
      <3>1. m \in 1..k /\ m - 1 \in 0..k /\ ~(m <= m - 1)
        BY <2>2, <2>3
      <3> HIDE DEF not
      <3> QED  BY <2>1, <3>1
    <2>5. Laid(m - 1)
      BY <2>4
    <2> QED  BY <1>6, <2>2, <2>4, <2>5
  <1>8. f[k] \in Seq(T) /\ Len(f[k]) = q[k]
    <2>1. k \in 0..k
      OBVIOUS
    <2> QED  BY <1>2, <1>3, <2>1
  <1>9. LiesAt(q, f[k], l, k, T)
    BY <1>3, <1>4, <1>7, <1>8 DEF Laid, LiesAt
  <1> QED  BY <1>2, <1>3, <1>9

InPart(q, l, k, j) == \E n \in 1..k : \E i \in 1..Len(l[n]) : j = q[n - 1] + i

(* Every place of a flattened text is in one of its parts.                  *)
LEMMA LiesInPart ==
  ASSUME NEW T, NEW k \in Nat, NEW l \in [1..k -> Seq(T)], NEW s, NEW q \in [0..k -> Nat],
         LiesAt(q, s, l, k, T), NEW j \in 1..q[k]
  PROVE  InPart(q, l, k, j)
  <1>1. /\ q[0] = 0 /\ \A n \in 1..k : q[n] = q[n - 1] + Len(l[n])
    BY DEF LiesAt
  <1> DEFINE up == {n \in 0..k : j <= q[n]}
             n == First(up, 0)
  <1>2. n \in up /\ \A m \in up : n <= m
    <2>1. k \in up /\ up \in SUBSET Nat
      OBVIOUS
    <2> HIDE DEF up
    <2> QED  BY <2>1, FirstIs
  <1>3. n \in 0..k /\ j <= q[n] /\ j > 0
    BY <1>2
  <1> HIDE DEF n
  <1>4. n # 0
    BY <1>1, <1>3
  <1>5. n \in 1..k /\ n - 1 \in 0..k /\ ~(n <= n - 1)
    BY <1>3, <1>4
  <1>6. ~(j <= q[n - 1])
    BY <1>2, <1>5
  <1> DEFINE x == q[n - 1]
             y == q[n]
             w == Len(l[n])
  <1>7. x \in Nat /\ y \in Nat /\ y = x + w /\ w \in Nat /\ j <= y /\ ~(j <= x) /\ j \in Nat
    BY <1>1, <1>3, <1>5, <1>6
  <1> HIDE DEF x, y, w
  <1>8. j - x \in 1..w /\ j = x + (j - x)
    BY <1>7
  <1> QED  BY <1>5, <1>8 DEF x, w, InPart

-----------------------------------------------------------------------------
(* Archives.                                                                *)

(* findEocd looks far enough, and not too far.                              *)
LEMMA EocdIsReached == EocdReached
  <1> SUFFICES ASSUME NEW before \in Sizes, NEW comment \in 0..MaxComment
               PROVE  FindEocd(before + EocdSize + comment, {before}) = before
    BY DEF EocdReached
  <1> DEFINE size == before + EocdSize + comment
             reach == EocdSize + MaxComment
  <1>1. /\ before \in Nat /\ comment \in Nat /\ comment <= MaxComment
        /\ EocdSize \in Nat /\ MaxComment \in Nat
    BY InputsOK
  <1>2. Min({size, reach}) <= reach /\ Min({size, reach}) \in Nat
        /\ (Min({size, reach}) = size \/ Min({size, reach}) = reach)
    <2>1. CASE size <= reach
      <3>1. Min({size, reach}) = size
        BY <1>1, <2>1, MinIs
      <3> QED  BY <1>1, <2>1, <3>1
    <2>2. CASE reach <= size
      <3>1. Min({size, reach}) = reach
        BY <1>1, <2>2, MinIs
      <3> QED  BY <1>1, <2>2, <3>1
    <2> QED  BY <1>1, <2>1, <2>2
  <1>3. before \in Searched(size)
    BY <1>1, <1>2 DEF Searched
  <1>4. {-1} \cup (Searched(size) \cap {before}) = {-1, before}
    BY <1>3
  <1>5. Max({-1, before}) = before
    BY <1>1, MaxIs
  <1> QED  BY <1>4, <1>5 DEF FindEocd

(* What extractEntry takes for data lies in the file.                       *)
LEMMA DataLiesInside ==
  ASSUME NEW size \in Nat, NEW at \in Nat, NEW skip \in Nat, NEW c \in Nat, NEW d \in Nat,
         NEW described \in BOOLEAN
  PROVE  LET data == DataOf(size, [at |-> at, skip |-> skip, compressed |-> c,
                                   described |-> described], [compressed |-> d])
         IN  data.from + data.bytes <= size
  <1>1. LocalSize \in Nat
    BY InputsOK
  <1> QED  BY <1>1 DEF DataOf

(* The items of a sequence.                                                 *)
LEMMA SeqItems ==
  ASSUME NEW T, NEW s \in Seq(T)
  PROVE  /\ Len(s) \in Nat /\ DOMAIN s = 1..Len(s) /\ (s # <<>> <=> Len(s) # 0)
         /\ \A n \in 1..Len(s) : s[n] \in T
  OBVIOUS

(* Where the headers of a directory begin: each behind the one before it.   *)
LEMMA DirectoryIs ==
  ASSUME NEW headers \in Seq([name : Seq(Char), rest : Nat]), NEW start \in Nat,
         NEW at, at = DirectoryAt(headers, start)
  PROVE  /\ at \in [0..Len(headers) -> Nat] /\ at[0] = start
         /\ \A n \in 1..Len(headers) :
              at[n] = at[n - 1] + HeaderSize + Len(headers[n].name) + headers[n].rest
         /\ \A n \in 1..Len(headers) : \A m \in 0..(n - 1) : at[m] < at[n]
  <1> DEFINE L == Len(headers)
             size(n) == HeaderSize + Len(headers[n].name) + headers[n].rest
             E(f) == [n \in 0..L |->
                       IF n = 0 THEN start
                       ELSE f[n - 1] + HeaderSize + Len(headers[n].name) + headers[n].rest]
  <1>1. L \in Nat /\ HeaderSize \in Nat \ {0}
        /\ \A n \in 1..L : Len(headers[n].name) \in Nat /\ headers[n].rest \in Nat
    <2>1. L \in Nat /\ \A n \in 1..L : headers[n] \in [name : Seq(Char), rest : Nat]
      BY SeqItems
    <2>2. \A n \in 1..L : headers[n].name \in Seq(Char) /\ headers[n].rest \in Nat
      BY <2>1
    <2>3. HeaderSize \in Nat \ {0}
      BY InputsOK
    <2> QED  BY <2>1, <2>2, <2>3
  <1>2. at = CHOOSE f : f = E(f)
    BY Zenon DEF DirectoryAt
  <1> HIDE DEF L
  <1>3. \E f \in [0..L -> Nat] : f = E(f)
    <2> DEFINE step == [n \in (0 + 1)..L |-> [x \in Nat |->
                          x + HeaderSize + Len(headers[n].name) + headers[n].rest]]
    <2>1. step \in [(0 + 1)..L -> [Nat -> Nat]]
      <3>1. ASSUME NEW n \in (0 + 1)..L, NEW x \in Nat
            PROVE  x + HeaderSize + Len(headers[n].name) + headers[n].rest \in Nat
        <4> DEFINE v == Len(headers[n].name)
                   r == headers[n].rest
        <4>1. v \in Nat /\ r \in Nat
          BY <1>1
        <4> HIDE DEF v, r
        <4>2. x + HeaderSize + v + r \in Nat
          BY <1>1, <4>1
        <4> QED  BY <4>2 DEF v, r
      <3> QED  BY <3>1
    <2>2. \A n \in 1..L : \A x \in Nat :
            step[n][x] = x + HeaderSize + Len(headers[n].name) + headers[n].rest
      OBVIOUS
    <2> HIDE DEF step
    <2>3. PICK f \in [0..L -> Nat] : Steps(f, 0, L, start, step)
      <3>1. 0 \in Int /\ L \in Int /\ start \in Nat
        BY <1>1
      <3> QED  BY <2>1, <3>1, StepsExist
    <2>4. f = [n \in 0..L |-> IF n = 0 THEN start ELSE step[n][f[n - 1]]]
      BY <2>3 DEF Steps
    <2>5. \A n \in 0..L : n # 0 => n \in 1..L /\ f[n - 1] \in Nat
      BY <1>1
    <2>6. \A n \in 0..L : (IF n = 0 THEN start ELSE step[n][f[n - 1]])
                           = IF n = 0 THEN start
                             ELSE f[n - 1] + HeaderSize + Len(headers[n].name) + headers[n].rest
      BY <2>2, <2>5
    <2>7. f = E(f)
      BY <2>4, <2>6
    <2> QED  BY <2>7
  <1>4. at = E(at)
    BY <1>2, <1>3
  <1>5. \A n \in 0..L : at[n] = IF n = 0 THEN start
                                ELSE at[n - 1] + HeaderSize + Len(headers[n].name) + headers[n].rest
    BY <1>4
  <1>6. at \in [0..L -> Nat]
    <2> DEFINE T == {d \in 0..L : at[d] \in Nat}
    <2>1. T \in SUBSET (0..L) /\ 0 \in T
      BY <1>1, <1>5
    <2>2. ASSUME NEW d \in 1..L, d - 1 \in T PROVE d \in T
      <3> DEFINE x == at[d - 1]
                 v == Len(headers[d].name)
                 r == headers[d].rest
      <3>1. d \in 0..L /\ d # 0 /\ x \in Nat /\ v \in Nat /\ r \in Nat
        BY <1>1, <2>2
      <3>2. at[d] = x + HeaderSize + v + r
        BY <1>5, <3>1
      <3> HIDE DEF x, v, r
      <3>3. at[d] \in Nat
        BY <1>1, <3>1, <3>2
      <3> QED  BY <3>1, <3>3
    <2>5. \A d \in 1..L : d - 1 \in T => d \in T
      BY <2>2
    <2> HIDE DEF T
    <2>3. T = 0..L
      BY <1>1, <2>1, <2>5, NoneMissing
    <2>4. at = [n \in 0..L |-> at[n]]
      BY <1>4
    <2> QED  BY <2>3, <2>4 DEF T
  <1>7. \A n \in 1..L : /\ at[n] = at[n - 1] + HeaderSize + Len(headers[n].name) + headers[n].rest
                        /\ at[n - 1] \in Nat /\ at[n] \in Nat /\ at[n - 1] < at[n]
    <2> TAKE n \in 1..L
    <2>1. n \in 0..L /\ n - 1 \in 0..L /\ n # 0
      BY <1>1
    <2>2. at[n] = at[n - 1] + HeaderSize + Len(headers[n].name) + headers[n].rest
      BY <1>5, <2>1
    <2> DEFINE x == at[n - 1]
               y == at[n]
               v == Len(headers[n].name)
               r == headers[n].rest
    <2>3. x \in Nat /\ y \in Nat /\ v \in Nat /\ r \in Nat /\ y = x + HeaderSize + v + r
      BY <1>1, <1>6, <2>1, <2>2
    <2> HIDE DEF x, y, v, r
    <2>4. x < y
      BY <1>1, <2>3
    <2> QED  BY <2>2, <2>3, <2>4 DEF x, y
  <1>8. \A n \in 0..L : \A m \in 0..(n - 1) : at[m] < at[n]
    <2> DEFINE T == {d \in 0..L : \A m \in 0..(d - 1) : at[m] < at[d]}
    <2>1. T \in SUBSET (0..L) /\ 0 \in T
      BY <1>1
    <2>2. ASSUME NEW d \in 1..L, d - 1 \in T PROVE d \in T
      <3>1. d \in 0..L /\ d - 1 \in 0..L
        BY <1>1
      <3>2. ASSUME NEW m \in 0..(d - 1) PROVE at[m] < at[d]
        <4>1. at[d - 1] < at[d] /\ at[d - 1] \in Nat /\ at[d] \in Nat
          BY <1>7
        <4>2. CASE m = d - 1
          BY <4>1, <4>2
        <4>3. CASE m # d - 1
          <5>1. m \in 0..((d - 1) - 1) /\ m \in 0..L
            BY <1>1, <4>3
          <5>2. at[m] < at[d - 1] /\ at[m] \in Nat
            BY <1>6, <2>2, <5>1
          <5> QED  BY <4>1, <5>2
        <4> QED  BY <4>2, <4>3
      <3> QED  BY <3>1, <3>2
    <2>4. \A d \in 1..L : d - 1 \in T => d \in T
      BY <2>2
    <2> HIDE DEF T
    <2>3. T = 0..L
      BY <1>1, <2>1, <2>4, NoneMissing
    <2> QED  BY <2>3 DEF T
  <1>9. at[0] = start /\ \A n \in 1..L : n \in 0..L
    BY <1>1, <1>5
  <1> QED  BY <1>6, <1>7, <1>8, <1>9 DEF L

(* A header and its name end before the rest of the last header begins.     *)
LEMMA NameEnds ==
  ASSUME NEW x \in Nat, NEW z \in Nat, NEW v \in Nat, NEW u \in Nat, NEW r \in Nat,
         NEW t \in Nat, NEW behind \in Nat, NEW fixed \in Nat,
         x + fixed + v + r <= z \/ (x = z /\ v = u)
  PROVE  x + fixed + v <= ((z + fixed + u + t) - t) + behind
  OBVIOUS

(* hasEntry meets the entries of a directory, as many as are counted.       *)
LEMMA EntriesAreFound == EntriesFound
  <1> SUFFICES ASSUME NEW headers \in Directories, NEW start \in Sizes, NEW behind \in Sizes
               PROVE  LET at == DirectoryAt(headers, start)
                          Named(o) == CHOOSE n \in DOMAIN headers : at[n - 1] = o
                          zip == [size |-> (IF headers = <<>> THEN start
                                            ELSE at[Len(headers)] - headers[Len(headers)].rest) + behind,
                                  header |-> [o \in {at[n - 1] : n \in DOMAIN headers} |-> headers[Named(o)]]]
                      IN  \A total \in 0..Len(headers) :
                            EntriesRead(zip, start, total) = {headers[n].name : n \in 1..total}
    BY Zenon DEF EntriesFound
  <1> DEFINE at == DirectoryAt(headers, start)
             L == Len(headers)
             Named(o) == CHOOSE n \in DOMAIN headers : at[n - 1] = o
             sized == (IF headers = <<>> THEN start ELSE at[L] - headers[L].rest) + behind
             header == [o \in {at[n - 1] : n \in DOMAIN headers} |-> headers[Named(o)]]
             zip == [size |-> sized, header |-> header]
  <1>1. /\ headers \in Seq([name : Seq(Char), rest : Nat]) /\ start \in Nat /\ behind \in Nat
        /\ HeaderSize \in Nat \ {0}
    BY InputsOK
  <1>2. /\ at \in [0..L -> Nat] /\ at[0] = start
        /\ \A n \in 1..L : at[n] = at[n - 1] + HeaderSize + Len(headers[n].name) + headers[n].rest
        /\ \A n \in 1..L : \A m \in 0..(n - 1) : at[m] < at[n]
    BY <1>1, DirectoryIs
  <1>3. /\ L \in Nat /\ DOMAIN headers = 1..L /\ (headers # <<>> <=> L # 0)
        /\ \A n \in 1..L : Len(headers[n].name) \in Nat /\ headers[n].rest \in Nat
    <2>1. L \in Nat /\ \A n \in 1..L : headers[n] \in [name : Seq(Char), rest : Nat]
      BY <1>1, SeqItems DEF L
    <2>2. \A n \in 1..L : headers[n].name \in Seq(Char) /\ headers[n].rest \in Nat
      BY <2>1
    <2>3. DOMAIN headers = 1..L /\ (headers # <<>> <=> L # 0)
      BY <1>1, SeqItems DEF L
    <2> QED  BY <2>1, <2>2, <2>3
  <1> HIDE DEF at, L
  <1>4. \A n \in 1..L : at[n - 1] \in DOMAIN header /\ header[at[n - 1]] = headers[n]
    <2> TAKE n \in 1..L
    <2>1. at[n - 1] \in DOMAIN header /\ header[at[n - 1]] = headers[Named(at[n - 1])]
      BY <1>3
    <2>2. Named(at[n - 1]) \in 1..L /\ at[Named(at[n - 1]) - 1] = at[n - 1]
      BY <1>3
    <2> DEFINE k == Named(at[n - 1])
    <2> HIDE DEF k
    <2>3. ASSUME NEW i \in 1..L, NEW j \in 1..L, i < j PROVE at[i - 1] # at[j - 1]
      <3>1. j - 1 \in 1..L /\ i - 1 \in 0..((j - 1) - 1) /\ i - 1 \in 0..L /\ j - 1 \in 0..L
        BY <1>3, <2>3
      <3>2. at[i - 1] < at[j - 1] /\ at[i - 1] \in Nat /\ at[j - 1] \in Nat
        BY <1>2, <3>1
      <3> QED  BY <3>2
    <2>4. k \in 1..L /\ at[k - 1] = at[n - 1]
      BY <2>2 DEF k
    <2>5. k = n
      BY <1>3, <2>3, <2>4
    <2> QED  BY <2>1, <2>5 DEF k
  <1> HIDE DEF header
  <1>5. \A n \in 1..L : at[n - 1] + HeaderSize + Len(headers[n].name) <= sized
    <2> TAKE n \in 1..L
    <2>1. /\ L \in 1..L /\ headers # <<>> /\ n - 1 \in 0..L /\ n \in 0..L /\ L - 1 \in 0..L
          /\ at[n - 1] \in Nat /\ at[n] \in Nat /\ at[L] \in Nat /\ at[L - 1] \in Nat
      BY <1>2, <1>3
    <2> DEFINE x == at[n - 1]
               y == at[n]
               z == at[L - 1]
               e == at[L]
               v == Len(headers[n].name)
               u == Len(headers[L].name)
               r == headers[n].rest
               t == headers[L].rest
    <2>2. /\ {x, y, z, e, v, u, r, t} \subseteq Nat /\ sized = (e - t) + behind
          /\ y = x + HeaderSize + v + r /\ e = z + HeaderSize + u + t
      BY <1>2, <1>3, <2>1
    <2>3. x \in Nat /\ z \in Nat /\ v \in Nat /\ u \in Nat /\ r \in Nat /\ t \in Nat
      BY <2>2
    <2>4. y <= z \/ (x = z /\ v = u)
      <3>1. CASE n = L
        BY <3>1
      <3>2. CASE n = L - 1
        BY <2>1, <3>2
      <3>3. CASE n # L /\ n # L - 1
        <4>1. L - 1 \in 1..L /\ n \in 0..((L - 1) - 1)
          BY <1>3, <3>3
        <4>2. y < z
          BY <1>2, <4>1
        <4> HIDE DEF x, y, z, e, v, u, r, t, sized
        <4> QED  BY <2>2, <4>2
      <3> QED  BY <3>1, <3>2, <3>3
    <2> HIDE DEF x, y, z, e, v, u, r, t, sized
    <2>5. HeaderSize \in Nat
      BY InputsOK
    <2>6. x + HeaderSize + v <= ((z + HeaderSize + u + t) - t) + behind
      <3>1. x + HeaderSize + v + r <= z \/ (x = z /\ v = u)
        BY <2>2, <2>4
      <3> QED  BY <1>1, <2>3, <2>5, <3>1, NameEnds
    <2>7. x + HeaderSize + v <= sized
      BY <2>2, <2>6
    <2> QED  BY <2>7 DEF x, v
  <1> HIDE DEF sized
  <1>6. ASSUME NEW total \in 0..L
        PROVE  EntriesRead(zip, start, total) = {headers[n].name : n \in 1..total}
    <2> DEFINE Readable(o) == /\ o \in DOMAIN zip.header /\ o + HeaderSize <= zip.size
                              /\ o + HeaderSize + Len(zip.header[o].name) <= zip.size
               E(f) == [n \in 0..total |->
                         IF n = 0 THEN start
                         ELSE IF ~Readable(f[n - 1]) THEN f[n - 1]
                         ELSE f[n - 1] + HeaderSize + Len(zip.header[f[n - 1]].name)
                                + zip.header[f[n - 1]].rest]
               walk == CHOOSE f : f = E(f)
    <2>1. EntriesRead(zip, start, total) =
            {zip.header[o].name : o \in {p \in {walk[n - 1] : n \in 1..total} : Readable(p)}}
      BY Zenon DEF EntriesRead
    <2>2. zip.header = header /\ zip.size = sized
      OBVIOUS
    <2> HIDE DEF zip
    <2>3. \A n \in 1..L : Readable(at[n - 1]) /\ zip.header[at[n - 1]] = headers[n]
      <3> TAKE n \in 1..L
      <3>1. n - 1 \in 0..L
        BY <1>3
      <3>2. at[n - 1] \in Nat
        BY <1>2, <3>1
      <3>3. at[n - 1] + HeaderSize + Len(headers[n].name) <= sized /\ sized \in Int
        BY <1>5, <1>1, <1>2, <1>3 DEF sized
      <3> QED  BY <1>1, <1>3, <1>4, <2>2, <3>2, <3>3
    <2> HIDE DEF Readable
    <2>4. \A n \in 1..total : n \in 1..L /\ n - 1 \in 0..total /\ n - 1 \in 0..L
      BY <1>3
    <2>5. \A f : f = E(f) => \A n \in 0..total : f[n] = at[n]
      <3> TAKE f
      <3> HAVE f = E(f)
      <3> DEFINE T == {d \in 0..total : f[d] = at[d]}
      <3>1. T \in SUBSET (0..total) /\ 0 \in T
        BY <1>2, <1>3
      <3>2. ASSUME NEW d \in 1..total, d - 1 \in T PROVE d \in T
        <4>1. f[d - 1] = at[d - 1] /\ d \in 0..total /\ d # 0
          BY <3>2
        <4>2. f[d] = f[d - 1] + HeaderSize + Len(zip.header[f[d - 1]].name)
                      + zip.header[f[d - 1]].rest
          BY <2>3, <2>4, <4>1
        <4>3. f[d] = at[d]
          BY <1>2, <2>3, <2>4, <4>1, <4>2
        <4> QED  BY <4>1, <4>3
      <3>3. \A d \in 1..total : d - 1 \in T => d \in T
        BY <3>2
      <3> HIDE DEF T
      <3>4. T = 0..total
        <4>1. total \in Nat
          BY <1>3
        <4> QED  BY <3>1, <3>3, <4>1, NoneMissing
      <3> QED  BY <3>4 DEF T
    <2>6. \E f : f = E(f)
      <3> DEFINE f == [n \in 0..total |-> at[n]]
      <3>1. \A n \in 0..total : n # 0 => n \in 1..total /\ f[n - 1] = at[n - 1]
        BY <1>3
      <3>2. ASSUME NEW n \in 0..total
            PROVE  f[n] = IF n = 0 THEN start
                          ELSE IF ~Readable(f[n - 1]) THEN f[n - 1]
                          ELSE f[n - 1] + HeaderSize + Len(zip.header[f[n - 1]].name)
                                 + zip.header[f[n - 1]].rest
        <4>1. CASE n = 0
          BY <1>2, <4>1
        <4>2. CASE n # 0
          <5>1. f[n] = at[n]
            OBVIOUS
          <5> HIDE DEF f
          <5> QED  BY <1>2, <2>3, <2>4, <3>1, <4>2, <5>1
        <4> QED  BY <4>1, <4>2
      <3>3. f = [n \in 0..total |-> f[n]]
        OBVIOUS
      <3>4. f = E(f)
        <4> HIDE DEF f
        <4> QED  BY <3>2, <3>3
      <3> QED  BY <3>4
    <2>7. walk = E(walk)
      BY <2>6
    <2> HIDE DEF walk
    <2>8. \A n \in 1..total : walk[n - 1] = at[n - 1] /\ Readable(walk[n - 1])
                              /\ zip.header[walk[n - 1]].name = headers[n].name
      BY <2>3, <2>4, <2>5, <2>7
    <2> QED  BY <2>1, <2>8
  <1> QED  BY <1>6 DEF at, L, sized, header

(* An archive is searched to its end, its entries are found, and no data    *)
(* are taken from beyond it, however many entries it has, however large its *)
(* parts are and whatever its headers say (findEocd, hasEntry,              *)
(* extractEntry).                                                           *)
THEOREM ArchivesSafe == Spec => []ArchivesInside
  <1>1. DataInside
    <2>1. Sizes \subseteq Nat
      BY InputsOK
    <2> QED  BY <2>1, DataLiesInside DEF DataInside
  <1>2. ArchivesInside
    BY <1>1, EocdIsReached, EntriesAreFound DEF ArchivesInside
  <1> QED  BY <1>2, PTL

-----------------------------------------------------------------------------
(* Sealed secrets.                                                          *)

Byte == 0..255
Digit == {Digits[d + 1] : d \in 0..15}

(* A byte is its two digits.                                                *)
LEMMA ByteSplit ==
  \A x \in Byte : x \div 16 \in 0..15 /\ x % 16 \in 0..15 /\ 16 * (x \div 16) + (x % 16) = x
  BY DEF Byte

(* An even number.                                                          *)
LEMMA Halves == \A n \in Nat : (2 * n) % 2 = 0 /\ (2 * n) \div 2 = n
  OBVIOUS

(* A digit is read as the number it was written for.                        *)
LEMMA DigitsRead ==
  ASSUME NEW d \in 0..15
  PROVE  Nibble(Digits[d + 1]) = d
  <1> DEFINE c == Digits[d + 1]
  <1>1. Len(Digits) = 16 /\ \A i, j \in 1..16 : Digits[i] = Digits[j] => i = j
    BY DEF Digits
  <1>2. Contains(Digits, c)
    BY <1>1 DEF Contains
  <1>3. ~Contains(Upper, c)
    BY DEF Contains, Upper, Digits
  <1>4. \A n \in 0..15 : Digits[n + 1] = c => n = d
    BY <1>1
  <1> HIDE DEF c
  <1>5. Nibble(c) = CHOOSE n \in 0..15 : Digits[n + 1] = c
    BY <1>2, <1>3 DEF Nibble
  <1> QED  BY <1>4, <1>5 DEF c

(* Two digits for each byte.                                                *)
LEMMA HexPlaces ==
  ASSUME NEW a \in Seq(Byte)
  PROVE  /\ ToHex(a) \in Seq(Digit)
         /\ Len(ToHex(a)) = 2 * Len(a) /\ DOMAIN ToHex(a) = 1..(2 * Len(a))
         /\ Len(a) \in Nat /\ DOMAIN a = 1..Len(a)
         /\ \A n \in 1..Len(a) : /\ a[n] \in Byte
                                 /\ ToHex(a)[2 * n - 1] = Digits[(a[n] \div 16) + 1]
                                 /\ ToHex(a)[2 * n] = Digits[(a[n] % 16) + 1]
  <1>1. Len(a) \in Nat /\ DOMAIN a = 1..Len(a) /\ \A n \in 1..Len(a) : a[n] \in Byte
    OBVIOUS
  <1>2. Len(ToHex(a)) = 2 * Len(a) /\ DOMAIN ToHex(a) = 1..(2 * Len(a))
    BY <1>1 DEF ToHex
  <1>3. ASSUME NEW n \in 1..Len(a)
        PROVE  /\ ToHex(a)[2 * n - 1] = Digits[(a[n] \div 16) + 1]
               /\ ToHex(a)[2 * n] = Digits[(a[n] % 16) + 1]
    <2>1. /\ 2 * n - 1 \in 1..(2 * Len(a)) /\ 2 * n \in 1..(2 * Len(a))
          /\ ((2 * n - 1) + 1) \div 2 = n /\ (2 * n + 1) \div 2 = n
          /\ (2 * n - 1) % 2 = 1 /\ (2 * n) % 2 # 1
      BY <1>1
    <2> QED  BY <2>1 DEF ToHex
  <1>4. ToHex(a) \in Seq(Digit)
    <2>1. ASSUME NEW n \in 1..(2 * Len(a)) PROVE ToHex(a)[n] \in Digit
      <3> DEFINE x == a[(n + 1) \div 2]
                 k == IF n % 2 = 1 THEN x \div 16 ELSE x % 16
      <3>1. x \in Byte
        <4>1. (n + 1) \div 2 \in 1..Len(a)
          BY <1>1
        <4> QED  BY <1>1, <4>1
      <3>2. k \in 0..15
        BY <3>1, ByteSplit
      <3>3. ToHex(a)[n] = Digits[k + 1]
        BY DEF ToHex
      <3> HIDE DEF k
      <3> QED  BY <3>2, <3>3 DEF Digit
    <2>2. ToHex(a) \in [1..(2 * Len(a)) -> Digit]
      BY <1>1, <1>2, <2>1 DEF ToHex
    <2> QED  BY <1>1, <2>2, SeqDef
  <1> QED  BY <1>1, <1>2, <1>3, <1>4

(* What was written in digits is read back.                                 *)
LEMMA HexBack ==
  ASSUME NEW a \in Seq(Byte)
  PROVE  FromHex(ToHex(a)) = a
  <1> DEFINE s == ToHex(a)
  <1>1. /\ Len(s) = 2 * Len(a) /\ DOMAIN s = 1..(2 * Len(a))
        /\ Len(a) \in Nat /\ DOMAIN a = 1..Len(a)
        /\ \A n \in 1..Len(a) : /\ a[n] \in Byte
                                /\ s[2 * n - 1] = Digits[(a[n] \div 16) + 1]
                                /\ s[2 * n] = Digits[(a[n] % 16) + 1]
    BY HexPlaces
  <1> HIDE DEF s
  <1>2. ASSUME NEW n \in 1..Len(a)
        PROVE  /\ Nibble(s[2 * n - 1]) = a[n] \div 16 /\ Nibble(s[2 * n]) = a[n] % 16
               /\ Nibble(s[2 * n - 1]) >= 0 /\ Nibble(s[2 * n]) >= 0
    <2>1. a[n] \div 16 \in 0..15 /\ a[n] % 16 \in 0..15
      BY <1>1, ByteSplit
    <2>2. Nibble(s[2 * n - 1]) = a[n] \div 16 /\ Nibble(s[2 * n]) = a[n] % 16
      BY <1>1, <2>1, DigitsRead
    <2> QED  BY <2>1, <2>2
  <1>3. Len(s) % 2 = 0 /\ Len(s) \div 2 = Len(a)
    BY <1>1, Halves
  <1>4. \A n \in DOMAIN s : ~(Nibble(s[n]) < 0)
    <2> TAKE n \in DOMAIN s
    <2>1. PICK m \in 1..Len(a) : n = 2 * m - 1 \/ n = 2 * m
      <3>1. (n + 1) \div 2 \in 1..Len(a)
            /\ (n = 2 * ((n + 1) \div 2) - 1 \/ n = 2 * ((n + 1) \div 2))
        BY <1>1
      <3> QED  BY <3>1
    <2>2. Nibble(s[n]) \in 0..15
      <3>1. a[m] \div 16 \in 0..15 /\ a[m] % 16 \in 0..15
        BY <1>1, ByteSplit
      <3> QED  BY <1>2, <2>1, <3>1
    <2> QED  BY <2>2
  <1>5. FromHex(s) = [n \in 1..Len(a) |-> 16 * Nibble(s[2 * n - 1]) + Nibble(s[2 * n])]
    BY <1>3, <1>4 DEF FromHex
  <1>6. \A n \in 1..Len(a) : 16 * Nibble(s[2 * n - 1]) + Nibble(s[2 * n]) = a[n]
    BY <1>1, <1>2, ByteSplit
  <1>7. FromHex(s) = [n \in 1..Len(a) |-> a[n]]
    BY <1>5, <1>6
  <1> QED  BY <1>1, <1>7 DEF s

(* The digits of two parts.                                                 *)
LEMMA HexConcat ==
  ASSUME NEW a \in Seq(Byte), NEW b \in Seq(Byte)
  PROVE  ToHex(a) \o ToHex(b) = ToHex(a \o b)
  <1> DEFINE c == a \o b
             i == Len(a)
             j == Len(b)
  <1>1. /\ c \in Seq(Byte) /\ i \in Nat /\ j \in Nat /\ Len(c) = i + j
        /\ \A n \in 1..i : c[n] = a[n]
        /\ \A n \in 1..j : c[i + n] = b[n]
    OBVIOUS
  <1>2. /\ ToHex(a) \in Seq(Digit) /\ ToHex(b) \in Seq(Digit)
        /\ Len(ToHex(a)) = 2 * i /\ DOMAIN ToHex(a) = 1..(2 * i)
        /\ Len(ToHex(b)) = 2 * j /\ DOMAIN ToHex(b) = 1..(2 * j)
    BY HexPlaces
  <1> DEFINE s == ToHex(a)
             t == ToHex(b)
  <1> HIDE DEF s, t, i, j
  <1>3. s \o t = [n \in 1..(2 * (i + j)) |-> IF n <= 2 * i THEN s[n] ELSE t[n - 2 * i]]
    <2> DEFINE p == s \o t
    <2>1. /\ s \in Seq(Digit) /\ Len(s) = 2 * i /\ t \in Seq(Digit) /\ Len(t) = 2 * j
          /\ i \in Nat /\ j \in Nat
      BY <1>1, <1>2 DEF s, t
    <2>2. /\ p \in Seq(Digit) /\ Len(p) = Len(s) + Len(t)
          /\ \A n \in 1..(Len(s) + Len(t)) : p[n] = IF n <= Len(s) THEN s[n] ELSE t[n - Len(s)]
      BY <2>1, ConcatProperties
    <2> HIDE DEF p
    <2>3. /\ DOMAIN p = 1..(2 * (i + j)) /\ p = [n \in DOMAIN p |-> p[n]]
          /\ \A n \in 1..(2 * (i + j)) : p[n] = IF n <= 2 * i THEN s[n] ELSE t[n - 2 * i]
      BY <2>1, <2>2
    <2> QED  BY <2>3 DEF p
  <1>4. ASSUME NEW n \in 1..(2 * (i + j))
        PROVE  (IF n <= 2 * i THEN s[n] ELSE t[n - 2 * i]) = ToHex(c)[n]
    <2> DEFINE m == (n + 1) \div 2
    <2> HIDE DEF c
    <2>1. m \in 1..(i + j)
      BY <1>1
    <2>2. ToHex(c)[n] = Digits[(IF n % 2 = 1 THEN c[m] \div 16 ELSE c[m] % 16) + 1]
      BY <1>1 DEF ToHex
    <2>3. CASE n <= 2 * i
      <3>1. m \in 1..i /\ n \in 1..(2 * i)
        BY <1>1, <2>3
      <3>2. s[n] = Digits[(IF n % 2 = 1 THEN a[m] \div 16 ELSE a[m] % 16) + 1]
        BY <3>1 DEF ToHex, s, i
      <3> QED  BY <1>1, <2>2, <2>3, <3>1, <3>2
    <2>4. CASE ~(n <= 2 * i)
      <3> DEFINE k == n - 2 * i
                 p == (k + 1) \div 2
      <3>1. k \in 1..(2 * j) /\ p \in 1..j /\ m = i + p /\ k % 2 = n % 2
        BY <1>1, <2>4
      <3>2. t[k] = Digits[(IF k % 2 = 1 THEN b[p] \div 16 ELSE b[p] % 16) + 1]
        BY <3>1 DEF ToHex, t, j
      <3> HIDE DEF k, p, m
      <3>3. c[m] = b[p]
        BY <1>1, <3>1
      <3>4. t[k] = ToHex(c)[n]
        BY <2>2, <3>1, <3>2, <3>3
      <3> QED  BY <2>4, <3>4 DEF k
    <2> QED  BY <2>3, <2>4
  <1>5. ToHex(c) = [n \in 1..(2 * (i + j)) |-> ToHex(c)[n]]
    BY <1>1 DEF ToHex
  <1> HIDE DEF c, s, t, i, j
  <1> QED  BY <1>3, <1>4, <1>5 DEF c, s, t

(* What seal writes, open takes apart: for every length of the three parts, *)
(* the empty password too (SecureCrypto::seal, SecureCrypto::open).         *)
LEMMA SealedOpens ==
  ASSUME NEW iv \in Seq(Byte), Len(iv) = IvLen, NEW cipher \in Seq(Byte),
         NEW tag \in Seq(Byte), Len(tag) = TagLen
  PROVE  OpenedText(SealedText(iv, cipher, tag)) = <<iv, cipher, tag>>
  <1> DEFINE c == Len(cipher)
             rest == cipher \o tag
             a == ToHex(iv)
             b == ToHex(rest)
             s == a \o b
  <1>1. IvLen \in Nat /\ TagLen \in Nat /\ c \in Nat
    BY InputsOK
  <1>2. /\ rest \in Seq(Byte) /\ Len(rest) = c + TagLen
        /\ SubSeq(rest, 1, c) = cipher /\ SubSeq(rest, c + 1, c + TagLen) = tag
    <2>1. /\ rest \in Seq(Byte) /\ Len(rest) = Len(cipher) + Len(tag)
          /\ SubSeq(rest, 1, Len(cipher)) = cipher
          /\ SubSeq(rest, Len(cipher) + 1, Len(cipher) + Len(tag)) = tag
      <3>1. \A x, y \in Seq(Byte) :
              /\ x \o y \in Seq(Byte) /\ Len(x \o y) = Len(x) + Len(y)
              /\ SubSeq(x \o y, 1, Len(x)) = x
              /\ SubSeq(x \o y, Len(x) + 1, Len(x) + Len(y)) = y
        BY ConcatParts
      <3> QED  BY <3>1, Zenon
    <2> QED  BY <2>1
  <1> HIDE DEF rest, c
  <1>3. a \in Seq(Digit) /\ b \in Seq(Digit) /\ Len(a) = IvLen * 2 /\ Len(b) = 2 * (c + TagLen)
    <2>1. a \in Seq(Digit) /\ Len(a) = 2 * Len(iv)
      BY HexPlaces
    <2>2. b \in Seq(Digit) /\ Len(b) = 2 * Len(rest)
      BY <1>2, HexPlaces
    <2> HIDE DEF a, b
    <2> QED  BY <1>1, <1>2, <2>1, <2>2
  <1>4. FromHex(a) = iv /\ FromHex(b) = rest
    BY <1>2, HexBack
  <1> HIDE DEF a, b
  <1>5. /\ Len(s) = IvLen * 2 + 2 * (c + TagLen)
        /\ SubSeq(s, 1, IvLen * 2) = a /\ SubSeq(s, IvLen * 2 + 1, Len(s)) = b
    <2>1. /\ Len(s) = Len(a) + Len(b) /\ SubSeq(s, 1, Len(a)) = a
          /\ SubSeq(s, Len(a) + 1, Len(a) + Len(b)) = b
      <3>1. \A x, y \in Seq(Digit) :
              /\ Len(x \o y) = Len(x) + Len(y) /\ SubSeq(x \o y, 1, Len(x)) = x
              /\ SubSeq(x \o y, Len(x) + 1, Len(x) + Len(y)) = y
        BY ConcatParts
      <3> QED  BY <1>3, <3>1, Zenon
    <2> HIDE DEF s
    <2> QED  BY <1>3, <2>1
  <1>6. SealedText(iv, cipher, tag) = s
    <2> DEFINE x == ToHex(cipher)
               y == ToHex(tag)
    <2>1. x \in Seq(Digit) /\ y \in Seq(Digit)
      BY HexPlaces
    <2>2. x \o y = b
      BY HexConcat DEF b, rest
    <2>4. SealedText(iv, cipher, tag) = (a \o x) \o y
      BY DEF SealedText, a
    <2> HIDE DEF x, y
    <2>3. (a \o x) \o y = a \o (x \o y)
      <3>1. \A u, v, w \in Seq(Digit) : (u \o v) \o w = u \o (v \o w)
        BY ThreeParts
      <3> QED  BY <1>3, <2>1, <3>1, Zenon
    <2> QED  BY <2>2, <2>3, <2>4
  <1> HIDE DEF s
  <1>7. /\ ~(Len(s) < (IvLen + TagLen) * 2) /\ ~(Len(rest) < TagLen)
        /\ Len(rest) - TagLen = c /\ (Len(rest) - TagLen) + 1 = c + 1
    BY <1>1, <1>2, <1>5
  <1>8. OpenedText(s) = <<iv, SubSeq(rest, 1, c), SubSeq(rest, c + 1, Len(rest))>>
    BY <1>4, <1>5, <1>7 DEF OpenedText
  <1> QED  BY <1>2, <1>6, <1>8

(* What was sealed is what is opened, for any lengths and any bytes.        *)
THEOREM SealedRoundTrip == SealRoundTrip
  <1> SUFFICES ASSUME NEW iv \in [1..IvLen -> Bytes], NEW tag \in [1..TagLen -> Bytes],
                      NEW n \in Sizes, NEW cipher \in [1..n -> Bytes]
               PROVE  OpenedText(SealedText(iv, cipher, tag)) = <<iv, cipher, tag>>
    BY DEF SealRoundTrip
  <1>1. n \in Nat /\ IvLen \in Nat /\ TagLen \in Nat /\ Bytes \subseteq Byte
    BY InputsOK DEF Byte
  <1>2. /\ iv \in [1..IvLen -> Byte] /\ tag \in [1..TagLen -> Byte]
        /\ cipher \in [1..n -> Byte]
    BY <1>1
  <1>3. /\ iv \in Seq(Byte) /\ tag \in Seq(Byte) /\ cipher \in Seq(Byte)
        /\ Len(iv) = IvLen /\ Len(tag) = TagLen
    BY <1>1, <1>2
  <1> QED  BY <1>3, SealedOpens

-----------------------------------------------------------------------------
(* Calls and their requests.                                                *)

(* Each part of a batch has its own path (talebookUploadBookBatch).         *)
LEMMA PartsHavePaths == PartsAligned
  <1> SUFFICES ASSUME NEW files \in Batches
               PROVE  /\ Len(RelativePaths(files)) = Len(UploadParts(files))
                      /\ \A n \in DOMAIN UploadParts(files) :
                           RelativePaths(files)[n] \in {UploadParts(files)[n].relative,
                                                        UploadParts(files)[n].name}
    BY DEF PartsAligned
  <1> DEFINE valid == UploadParts(files)
             taken == {f \in File : Valid(f)}
  <1>1. files \in Seq(File)
    BY InputsOK
  <1>2. valid \in Seq(File)
    BY <1>1, OnlyOrder DEF UploadParts
  <1>3. RelativePaths(files) =
          [n \in DOMAIN valid |-> IF valid[n].relative # "" THEN valid[n].relative
                                                            ELSE valid[n].name]
    BY DEF RelativePaths, UploadParts
  <1> HIDE DEF valid
  <1>4. DOMAIN valid = 1..Len(valid) /\ Len(valid) \in Nat
    BY <1>2
  <1>5. Len(RelativePaths(files)) = Len(valid)
    <2> DEFINE g(n) == IF valid[n].relative # "" THEN valid[n].relative ELSE valid[n].name
    <2>1. RelativePaths(files) = [n \in 1..Len(valid) |-> g(n)]
      BY <1>3, <1>4
    <2> HIDE DEF g
    <2> QED  BY <1>4, <2>1
  <1> QED  BY <1>3, <1>5 DEF valid

(* Pages of one length lie behind one another.                              *)
LEMMA PagesInOrder ==
  ASSUME NEW a \in Nat, NEW b \in Nat, a < b, NEW l \in Nat
  PROVE  a * l + l <= b * l
  <1>1. PICK d \in Nat : b = a + 1 + d
    <2>1. b - a - 1 \in Nat /\ b = a + 1 + (b - a - 1)
      OBVIOUS
    <2> QED  BY <2>1
  <1>2. b * l = a * l + l + d * l
    BY <1>1
  <1>3. d * l \in Nat /\ a * l \in Nat
    OBVIOUS
  <1> QED  BY <1>2, <1>3

(* Pages of any size hold every book once (getAllBooks).                    *)
LEMMA PagesHoldBooks == PagesPartition
  <1> SUFFICES ASSUME NEW l \in Limits, NEW book \in 0..(Pages * l - 1)
               PROVE  Cardinality({page \in 1..Pages :
                        book \in Offset(page, l)..(Offset(page, l) + l - 1)}) = 1
    BY DEF PagesPartition
  <1> DEFINE held == {page \in 1..Pages : book \in Offset(page, l)..(Offset(page, l) + l - 1)}
             ends == {n \in Nat : book < n * l + l}
             q == First(ends, 0)
  <1>1. l \in Nat /\ l > 0 /\ Pages \in Nat /\ book \in Nat /\ book < Pages * l
    <2>1. l \in Nat \ {0} /\ Pages \in Nat
      BY InputsOK
    <2>2. Pages * l \in Nat
      BY <2>1
    <2> QED  BY <2>1, <2>2
  <1>2. \A page \in 1..Pages : Offset(page, l) = (page - 1) * l
    BY <1>1 DEF Offset
  <1>3. Pages > 0
    <2>1. Pages = 0 => Pages * l = 0
      BY <1>1
    <2> QED  BY <1>1, <2>1
  <1>4. q \in ends /\ \A n \in ends : q <= n
    <2>1. (Pages - 1) * l + l = Pages * l /\ Pages - 1 \in Nat
      BY <1>1, <1>3
    <2>2. Pages - 1 \in ends
      BY <1>1, <2>1
    <2>3. ends \in SUBSET Nat /\ ends # {}
      BY <2>2
    <2> HIDE DEF ends
    <2> QED  BY <2>3, FirstIs
  <1>5. q \in Nat /\ book < q * l + l
    BY <1>4
  <1> HIDE DEF q
  <1>6. q < Pages
    <2>1. (Pages - 1) * l + l = Pages * l /\ Pages - 1 \in Nat
      BY <1>1, <1>3
    <2>2. q <= Pages - 1
      BY <1>1, <1>4, <2>1
    <2> QED  BY <1>1, <1>5, <2>2
  <1>7. q * l <= book
    <2>1. CASE q = 0
      BY <1>1, <2>1
    <2>2. CASE q # 0
      <3>1. q - 1 \in Nat /\ (q - 1) * l + l = q * l
        BY <1>1, <1>5, <2>2
      <3>2. q - 1 \notin ends
        BY <1>4, <1>5, <3>1
      <3>3. (q - 1) * l \in Nat
        BY <1>1, <3>1
      <3> QED  BY <1>1, <3>1, <3>2, <3>3
    <2> QED  BY <2>1, <2>2
  <1>8. \A page \in 1..Pages : page \in held <=> page = q + 1
    <2> TAKE page \in 1..Pages
    <2> DEFINE a == page - 1
    <2>1. a \in Nat /\ a * l \in Nat /\ q * l \in Nat
      BY <1>1, <1>5
    <2>2. page \in held <=> a * l <= book /\ book < a * l + l
      BY <1>1, <1>2, <2>1
    <2>6. page = a + 1
      BY <1>1
    <2> HIDE DEF held, a
    <2>3. CASE a = q
      BY <1>1, <2>6, <1>5, <1>7, <2>2, <2>3
    <2>4. CASE a < q
      <3>1. a * l + l <= q * l
        BY <1>1, <1>5, <2>1, <2>4, PagesInOrder
      <3> QED  BY <1>1, <1>5, <1>7, <2>1, <2>2, <2>4, <2>6, <3>1
    <2>5. CASE q < a
      <3>1. q * l + l <= a * l
        BY <1>1, <1>5, <2>1, <2>5, PagesInOrder
      <3> QED  BY <1>1, <1>5, <2>1, <2>2, <2>5, <2>6, <3>1
    <2> QED  BY <1>5, <2>1, <2>3, <2>4, <2>5
  <1>9. held = {q + 1}
    <2>1. q + 1 \in 1..Pages /\ held \subseteq 1..Pages
      BY <1>1, <1>5, <1>6
    <2> HIDE DEF held
    <2> QED  BY <1>8, <2>1
  <1> QED  BY <1>9, FS_Singleton

(* A text and slashes behind it, taken off again.                           *)
LEMMA SlashesOff ==
  ASSUME NEW s \in Seq(Char), s # <<>>, s[Len(s)] # "/", NEW k \in Nat
  PROVE  StripSlashes(s \o [n \in 1..k |-> "/"]) = s
  <1> DEFINE z == [n \in 1..k |-> "/"]
             c == s \o z
             S == {0} \cup {n \in DOMAIN c : c[n] # "/"}
  <1>1. z \in Seq(Char) /\ Len(z) = k /\ \A n \in 1..k : z[n] = "/"
    <2>0. "/" \in Char
      BY InputsOK DEF Written
    <2>1. z \in [1..k -> Char] /\ \A n \in 1..k : z[n] = "/"
      BY <2>0
    <2> HIDE DEF z
    <2> QED  BY <2>1
  <1> HIDE DEF z
  <1>2. \A x, y \in Seq(Char) :
          /\ x \o y \in Seq(Char) /\ Len(x \o y) = Len(x) + Len(y)
          /\ SubSeq(x \o y, 1, Len(x)) = x
          /\ \A i \in 1..(Len(x) + Len(y)) : (x \o y)[i] = IF i <= Len(x) THEN x[i] ELSE y[i - Len(x)]
    <2> TAKE x, y \in Seq(Char)
    <2>1. /\ x \o y \in Seq(Char) /\ Len(x \o y) = Len(x) + Len(y)
          /\ SubSeq(x \o y, 1, Len(x)) = x
      BY ConcatParts
    <2>2. \A i \in 1..(Len(x) + Len(y)) : (x \o y)[i] = IF i <= Len(x) THEN x[i] ELSE y[i - Len(x)]
      BY ConcatProperties
    <2> QED  BY <2>1, <2>2
  <1>3. /\ c \in Seq(Char) /\ Len(c) = Len(s) + Len(z) /\ SubSeq(c, 1, Len(s)) = s
        /\ \A i \in 1..(Len(s) + Len(z)) : c[i] = IF i <= Len(s) THEN s[i] ELSE z[i - Len(s)]
    BY <1>1, <1>2, Zenon
  <1> HIDE DEF c
  <1>4. Len(s) \in Nat /\ Len(s) > 0 /\ DOMAIN c = 1..(Len(s) + k)
    BY <1>1, <1>3
  <1>5. Len(s) \in S
    BY <1>1, <1>3, <1>4
  <1>6. \A n \in S : n <= Len(s)
    <2> TAKE n \in S
    <2>1. CASE n > Len(s)
      <3>1. n \in DOMAIN c /\ c[n] # "/"
        BY <1>4, <2>1
      <3>2. n - Len(s) \in 1..k /\ ~(n <= Len(s)) /\ n \in 1..(Len(s) + Len(z))
        BY <1>1, <1>4, <2>1, <3>1
      <3> QED  BY <1>1, <1>3, <3>1, <3>2
    <2>2. n \in Nat
      BY <1>4
    <2> QED  BY <1>4, <2>1, <2>2
  <1>7. S \in SUBSET Int
    BY <1>4
  <1> HIDE DEF S
  <1>8. Max(S) = Len(s)
    BY <1>5, <1>6, <1>7, MaxIs
  <1>9. StripSlashes(c) = SubSeq(c, 1, Max(S))
    BY DEF StripSlashes, S
  <1> QED  BY <1>3, <1>8, <1>9 DEF c, z

(* A server is the same however many slashes end its address and whether a  *)
(* path begins with one (setBaseUrl, resolveUrl).                           *)
LEMMA ServerIsTheSame == SameServer
  <1> SUFFICES ASSUME NEW host \in Hosts, NEW path \in Routes, NEW k \in Sizes,
                      NEW s \in {host, Scheme \o host}, NEW p \in {path, <<"/">> \o path}
               PROVE  ResolveUrl(BaseUrl(s \o [n \in 1..k |-> "/"]), p)
                        = Scheme \o host \o <<"/">> \o path
    BY DEF SameServer
  <1> DEFINE full == Scheme \o host
             slash == <<"/">>
  <1>1. /\ host \in Seq(Char) /\ host # <<>> /\ host[Len(host)] # "/" /\ ~HasScheme(host)
        /\ path \in Seq(Char) /\ (path # <<>> => path[1] # "/") /\ k \in Nat
    BY InputsOK
  <1>2. /\ Scheme \in Seq(Char) /\ Len(Scheme) = 4 /\ slash \in Seq(Char)
        /\ Scheme[2] = ":" /\ Scheme[3] = "/" /\ Scheme[4] = "/"
        /\ Len(slash) = 1 /\ slash[1] = "/" /\ Len(host) \in Nat /\ Len(host) > 0
    <2>0. {"h", ":", "/"} \subseteq Char
      BY InputsOK DEF Written
    <2>1. Len(host) \in Nat /\ Len(host) > 0
      BY <1>1
    <2>2. slash \in Seq(Char) /\ Len(slash) = 1 /\ slash[1] = "/"
      BY <2>0
    <2>3. /\ Scheme \in Seq(Char) /\ Len(Scheme) = 4
          /\ Scheme[2] = ":" /\ Scheme[3] = "/" /\ Scheme[4] = "/"
      BY <2>0 DEF Scheme
    <2> QED  BY <2>1, <2>2, <2>3
  <1>3. \A x, y \in Seq(Char) :
          /\ x \o y \in Seq(Char) /\ Len(x \o y) = Len(x) + Len(y)
          /\ \A i \in 1..(Len(x) + Len(y)) : (x \o y)[i] = IF i <= Len(x) THEN x[i] ELSE y[i - Len(x)]
    BY ConcatProperties
  <1>4. /\ full \in Seq(Char) /\ Len(full) = 4 + Len(host)
        /\ \A i \in 1..(4 + Len(host)) : full[i] = IF i <= 4 THEN Scheme[i] ELSE host[i - 4]
    <2>1. /\ full \in Seq(Char) /\ Len(full) = Len(Scheme) + Len(host)
          /\ \A i \in 1..(Len(Scheme) + Len(host)) :
               full[i] = IF i <= Len(Scheme) THEN Scheme[i] ELSE host[i - Len(Scheme)]
      BY <1>1, <1>2, <1>3, Zenon
    <2> HIDE DEF full
    <2> QED  BY <1>2, <2>1
  <1> HIDE DEF full, slash
  <1>5. /\ full # <<>> /\ full[Len(full)] # "/" /\ full[2] = ":" /\ full[3] = "/" /\ full[4] = "/"
    <2>1. /\ Len(full) \in 1..(4 + Len(host)) /\ ~(Len(full) <= 4) /\ Len(full) - 4 = Len(host)
          /\ {2, 3, 4} \subseteq 1..(4 + Len(host))
      BY <1>2, <1>4
    <2> QED  BY <1>1, <1>2, <1>4, <2>1
  <1>6. HasScheme(full)
    <2>1. 2 \in 1..(Len(full) - 2)
      BY <1>2, <1>4
    <2>2. SubSeq(full, 2, 2 + 2) = <<":", "/", "/">>
      <3> DEFINE u == SubSeq(full, 2, 4)
                 v == <<":", "/", "/">>
      <3>0. ":" \in Char /\ "/" \in Char
        BY InputsOK DEF Written
      <3>1. \A i \in 2..4 : full[i] \in Char
        BY <1>5, <3>0
      <3>2. u \in Seq(Char) /\ Len(u) = 3 /\ \A i \in 1..3 : u[i] = full[i + 1]
        BY <3>1, SubSeqProperties
      <3>3. v \in Seq(Char) /\ Len(v) = 3 /\ v[1] = ":" /\ v[2] = "/" /\ v[3] = "/"
        BY <3>0
      <3> HIDE DEF u, v
      <3>4. \A i \in 1..3 : u[i] = v[i]
        BY <1>5, <3>2, <3>3
      <3>5. u = v
        BY <3>2, <3>3, <3>4, SeqEqual
      <3> QED  BY <3>5 DEF u, v
    <2> QED  BY <2>1, <2>2 DEF HasScheme
  <1>7. BaseUrl(s \o [n \in 1..k |-> "/"]) = full
    <2>1. CASE s = host
      <3>1. StripSlashes(s \o [n \in 1..k |-> "/"]) = host
        BY <1>1, <2>1, SlashesOff
      <3> QED  BY <1>1, <3>1 DEF BaseUrl, full
    <2>2. CASE s = full
      <3>1. StripSlashes(s \o [n \in 1..k |-> "/"]) = full
        BY <1>1, <1>4, <1>5, <2>2, SlashesOff
      <3> QED  BY <1>6, <3>1 DEF BaseUrl
    <2> QED  BY <2>1, <2>2 DEF full
  <1>8. (full \o slash) \o path = full \o (slash \o path)
    <2>1. \A x, y, z \in Seq(Char) : (x \o y) \o z = x \o (y \o z)
      BY ThreeParts
    <2> QED  BY <1>1, <1>2, <1>4, <2>1, Zenon
  <1>9. CASE p = path
    <2>1. At(p, 1) # "/"
      BY <1>1, <1>9 DEF At, NoChar
    <2>2. ResolveUrl(full, p) = full \o slash \o p
      BY <1>5, <2>1 DEF ResolveUrl, slash
    <2> QED  BY <1>7, <1>9, <2>2 DEF full, slash
  <1>10. CASE p = slash \o path
    <2>1. At(p, 1) = "/"
      <3>1. /\ p \in Seq(Char) /\ Len(p) = Len(slash) + Len(path)
            /\ \A i \in 1..(Len(slash) + Len(path)) :
                 p[i] = IF i <= Len(slash) THEN slash[i] ELSE path[i - Len(slash)]
        BY <1>1, <1>2, <1>3, <1>10, Zenon
      <3> QED  BY <1>1, <1>2, <3>1 DEF At
    <2>2. ResolveUrl(full, p) = full \o p
      BY <1>5, <2>1 DEF ResolveUrl
    <2> QED  BY <1>7, <1>8, <1>10, <2>2 DEF full, slash
  <1> QED  BY <1>9, <1>10 DEF slash

(* Where k texts lie in s, the joined text: text n from behind place        *)
(* p[n - 1] to before place p[n], where the separator is.                   *)
JoinedAt(p, s, items, k, T, c) ==
  /\ p[0] = 0 /\ \A n \in 1..k : p[n] = p[n - 1] + Len(items[n]) + 1
  /\ \A n \in 0..k : p[n] <= p[k]
  /\ s \in Seq(T) /\ Len(s) = p[k] - 1
  /\ \A n \in 1..k : \A i \in 1..Len(items[n]) : s[p[n - 1] + i] = items[n][i]
  /\ \A n \in 1..(k - 1) : s[p[n]] = c

(* Joined texts lie behind one another.                                     *)
LEMMA JoinedLies ==
  ASSUME NEW T, NEW k \in Nat, k > 0, NEW items \in [1..k -> Seq(T)], NEW c \in T
  PROVE  \E p \in [0..k -> Nat] : JoinedAt(p, Joined(items, <<c>>), items, k, T, c)
  <1> DEFINE sep == <<c>>
             l == [n \in 1..k |-> IF n = 1 THEN items[n] ELSE sep \o items[n]]
             s == FlattenSeq(l)
  <1>1. Joined(items, sep) = s
    BY DEF Joined
  <1>2. \A n \in 1..k : items[n] \in Seq(T) /\ Len(items[n]) \in Nat
    OBVIOUS
  <1>3. \A n \in 1..k :
          LET b == sep \o items[n]
          IN  /\ b \in Seq(T) /\ Len(b) = 1 + Len(items[n]) /\ b[1] = c
              /\ \A i \in 1..Len(items[n]) : b[1 + i] = items[n][i]
    <2> TAKE n \in 1..k
    <2> DEFINE x == items[n]
               b == sep \o x
    <2>1. sep \in Seq(T) /\ Len(sep) = 1 /\ sep[1] = c /\ x \in Seq(T)
      OBVIOUS
    <2> HIDE DEF sep, x
    <2>2. /\ b \in Seq(T) /\ Len(b) = Len(sep) + Len(x)
          /\ \A i \in 1..(Len(sep) + Len(x)) : b[i] = IF i <= Len(sep) THEN sep[i] ELSE x[i - Len(sep)]
      BY <2>1, ConcatProperties
    <2> HIDE DEF b
    <2>3. Len(b) = 1 + Len(x) /\ Len(x) \in Nat /\ b[1] = c
      BY <2>1, <2>2
    <2>4. ASSUME NEW i \in 1..Len(x) PROVE b[1 + i] = x[i]
      <3>1. 1 + i \in 1..(Len(sep) + Len(x)) /\ ~(1 + i <= Len(sep)) /\ (1 + i) - Len(sep) = i
        BY <2>1, <2>3
      <3>2. b[1 + i] = x[(1 + i) - Len(sep)]
        BY <2>2, <3>1
      <3> QED  BY <3>1, <3>2
    <2> QED  BY <2>2, <2>3, <2>4 DEF b, x
  <1> HIDE DEF sep
  <1>4. l \in [1..k -> Seq(T)] /\ l[1] = items[1] /\ \A n \in 2..k : l[n] = sep \o items[n]
    <2>1. \A n \in 1..k : (IF n = 1 THEN items[n] ELSE sep \o items[n]) \in Seq(T)
      BY <1>2, <1>3
    <2> QED  BY <2>1
  <1> HIDE DEF l
  <1>5. PICK q \in [0..k -> Nat] : LiesAt(q, s, l, k, T)
    BY <1>4, FlattenLies
  <1> HIDE DEF s
  <1>6. /\ q[0] = 0 /\ \A n \in 1..k : q[n] = q[n - 1] + Len(l[n])
        /\ \A n \in 0..k : q[n] <= q[k]
        /\ s \in Seq(T) /\ Len(s) = q[k]
        /\ \A n \in 1..k : \A i \in 1..Len(l[n]) : s[q[n - 1] + i] = l[n][i]
    BY <1>5 DEF LiesAt
  <1>7. \A n \in 2..k : /\ n \in 1..k /\ n - 1 \in 0..k
                        /\ Len(l[n]) = 1 + Len(items[n]) /\ l[n][1] = c
                        /\ \A i \in 1..Len(items[n]) : l[n][1 + i] = items[n][i]
    <2> TAKE n \in 2..k
    <2> DEFINE b == sep \o items[n]
    <2>1. n \in 1..k /\ n - 1 \in 0..k /\ l[n] = b
      BY <1>4
    <2>2. Len(b) = 1 + Len(items[n]) /\ b[1] = c /\ \A i \in 1..Len(items[n]) : b[1 + i] = items[n][i]
      BY <1>3, <2>1
    <2> HIDE DEF b
    <2> QED  BY <2>1, <2>2
  <1> DEFINE p == [n \in 0..k |-> IF n = 0 THEN 0 ELSE q[n] + 1]
  <1>8. /\ p \in [0..k -> Nat] /\ p[0] = 0 /\ \A n \in 1..k : p[n] = q[n] + 1 /\ q[n] \in Nat
        /\ k \in 1..k
    BY <1>6
  <1> HIDE DEF p
  <1>9. \A n \in 1..k : p[n] = p[n - 1] + Len(items[n]) + 1
    <2> TAKE n \in 1..k
    <2>1. CASE n = 1
      BY <1>2, <1>4, <1>6, <1>8, <2>1
    <2>2. CASE n # 1
      <3>1. n \in 2..k /\ n - 1 \in 1..k
        BY <2>2
      <3> DEFINE x == q[n]
                 y == q[n - 1]
                 z == Len(items[n])
      <3>2. x = y + (1 + z) /\ p[n] = x + 1 /\ p[n - 1] = y + 1 /\ x \in Nat /\ y \in Nat /\ z \in Nat
        BY <1>2, <1>6, <1>7, <1>8, <3>1
      <3> HIDE DEF x, y, z
      <3>3. p[n] = p[n - 1] + z + 1
        BY <3>2
      <3> QED  BY <3>3 DEF z
    <2> QED  BY <2>1, <2>2
  <1>10. \A n \in 0..k : p[n] <= p[k]
    <2> TAKE n \in 0..k
    <2>1. CASE n = 0
      BY <1>8, <2>1
    <2>2. CASE n # 0
      <3>1. n \in 1..k /\ q[n] <= q[k]
        BY <1>6, <2>2
      <3> QED  BY <1>8, <3>1
    <2> QED  BY <2>1, <2>2
  <1>11. s \in Seq(T) /\ Len(s) = p[k] - 1
    BY <1>6, <1>8
  <1>12. ASSUME NEW n \in 1..k, NEW i \in 1..Len(items[n])
         PROVE  s[p[n - 1] + i] = items[n][i]
    <2>1. CASE n = 1
      BY <1>4, <1>6, <1>8, <2>1
    <2>2. CASE n # 1
      <3>1. n \in 2..k /\ n - 1 \in 1..k
        BY <2>2
      <3> DEFINE y == q[n - 1]
                 z == Len(items[n])
      <3>2. p[n - 1] = y + 1 /\ y \in Nat /\ z \in Nat /\ i \in 1..z
            /\ \A j \in 1..(1 + z) : s[y + j] = l[n][j]
        BY <1>2, <1>6, <1>7, <1>8, <3>1
      <3>3. l[n][1 + i] = items[n][i]
        BY <1>7, <3>1
      <3> HIDE DEF y, z
      <3>4. 1 + i \in 1..(1 + z) /\ p[n - 1] + i = y + (1 + i)
        BY <3>2
      <3> QED  BY <3>2, <3>3, <3>4
    <2> QED  BY <2>1, <2>2
  <1>13. ASSUME NEW n \in 1..(k - 1) PROVE s[p[n]] = c
    <2>1. n + 1 \in 2..k /\ (n + 1) - 1 = n /\ n \in 1..k
      OBVIOUS
    <2>2. 1 \in 1..Len(l[n + 1]) /\ l[n + 1][1] = c
      <3>1. Len(l[n + 1]) = 1 + Len(items[n + 1]) /\ Len(items[n + 1]) \in Nat /\ l[n + 1][1] = c
        BY <1>2, <1>7, <2>1
      <3> QED  BY <3>1
    <2>3. s[q[n] + 1] = l[n + 1][1]
      <3>1. n + 1 \in 1..k
        BY <2>1
      <3>2. s[q[(n + 1) - 1] + 1] = l[n + 1][1]
        BY <1>6, <3>1, <2>2
      <3> QED  BY <2>1, <3>2
    <2> QED  BY <1>8, <2>1, <2>2, <2>3
  <1>14. JoinedAt(p, s, items, k, T, c)
    BY <1>8, <1>9, <1>10, <1>11, <1>12, <1>13 DEF JoinedAt
  <1> QED  BY <1>1, <1>8, <1>14 DEF sep

(* The next bar.                                                            *)
LEMMA NextBarIs ==
  ASSUME NEW s \in Seq(Char), NEW p \in Nat, NEW q \in Nat, p < q, q <= Len(s) + 1,
         \A i \in 1..Len(s) : p < i /\ i < q => s[i] # Bar,
         q <= Len(s) => s[q] = Bar
  PROVE  NextBar(s, p) = q
  <1> DEFINE S == {n \in DOMAIN s : n > p /\ s[n] = Bar}
  <1>1. Len(s) \in Nat /\ DOMAIN s = 1..Len(s)
    OBVIOUS
  <1>2. CASE q <= Len(s)
    <2>1. q \in S /\ S \in SUBSET Int /\ \A n \in S : q <= n
      BY <1>1, <1>2
    <2> HIDE DEF S
    <2>2. Min(S) = q
      BY <2>1, MinIs
    <2> QED  BY <2>1, <2>2 DEF NextBar, First, S
  <1>3. CASE ~(q <= Len(s))
    <2>1. S = {} /\ q = Len(s) + 1
      BY <1>1, <1>3
    <2> QED  BY <2>1 DEF NextBar, First
  <1> QED  BY <1>2, <1>3

(* The fields of k joined texts, of which only the one that a call takes    *)
(* last may hold bars, are these texts.                                     *)
LEMMA FieldsOfJoined ==
  ASSUME NEW call, NEW k \in 1..5, NEW most \in 1..5, NEW least \in 0..k,
         Arity(call) = <<least, most>>, k = most \/ (k = 1 /\ most = 2),
         NEW items \in [1..k -> Seq(Char)],
         \A n \in 1..k : n # most => \A i \in 1..Len(items[n]) : items[n][i] # Bar
  PROVE  SubSeq(Fields(call, Joined(items, <<Bar>>)), 1, k) = items
  <1> DEFINE s == Joined(items, <<Bar>>)
             first == NextBar(s, 0)
             second == NextBar(s, first)
             third == NextBar(s, second)
             fourth == NextBar(s, third)
             bars == <<first, second, third, fourth>>
             start(n) == IF n = 1 THEN 0 ELSE bars[n - 1]
             end(n) == IF n = most THEN Len(s) + 1 ELSE bars[n]
             fields == [n \in 1..most |-> SubSeq(s, start(n) + 1, end(n) - 1)]
  <1>1. Bar \in Char
    BY InputsOK DEF Written
  <1>0. k \in Nat /\ k > 0
    OBVIOUS
  <1>12. PICK p \in [0..k -> Nat] : JoinedAt(p, s, items, k, Char, Bar)
    BY <1>0, <1>1, JoinedLies
  <1>2. /\ p[0] = 0 /\ \A n \in 1..k : p[n] = p[n - 1] + Len(items[n]) + 1
        /\ \A n \in 0..k : p[n] <= p[k]
        /\ s \in Seq(Char) /\ Len(s) = p[k] - 1
        /\ \A n \in 1..k : \A i \in 1..Len(items[n]) : s[p[n - 1] + i] = items[n][i]
        /\ \A n \in 1..(k - 1) : s[p[n]] = Bar
    BY <1>12 DEF JoinedAt
  <1>3. /\ Arity(call)[1] = least /\ Arity(call)[2] = most
        /\ Fields(call, s) = IF most = 0 \/ (least > 1 /\ start(least) > Len(s)) THEN <<>> ELSE fields
    BY DEF Fields
  <1> HIDE DEF s
  <1>4. \A n \in 1..k : /\ p[n] \in Nat /\ p[n - 1] \in Nat /\ Len(items[n]) \in Nat
                         /\ p[n - 1] < p[n] /\ p[n] <= Len(s) + 1 /\ Len(s) \in Nat
    <2> TAKE n \in 1..k
    <2> DEFINE x == p[n]
               y == p[n - 1]
               z == Len(items[n])
               e == p[k]
    <2>1. /\ x \in Nat /\ y \in Nat /\ z \in Nat /\ e \in Nat /\ x = y + z + 1 /\ x <= e
          /\ Len(s) = e - 1
      <3>1. n \in 0..k /\ n - 1 \in 0..k /\ k \in 0..k /\ items[n] \in Seq(Char)
        OBVIOUS
      <3>2. x \in Nat /\ y \in Nat /\ e \in Nat /\ z \in Nat
        BY <3>1
      <3> QED  BY <1>2, <3>1, <3>2
    <2> HIDE DEF x, y, z, e
    <2>2. y < x /\ x <= Len(s) + 1 /\ Len(s) \in Nat
      BY <2>1
    <2> QED  BY <2>1, <2>2 DEF x, y, z
  <1>5. \A n \in 1..k : n # most => NextBar(s, p[n - 1]) = p[n]
    <2> SUFFICES ASSUME NEW n \in 1..k, n # most PROVE NextBar(s, p[n - 1]) = p[n]
      OBVIOUS
    <2> DEFINE x == p[n]
               y == p[n - 1]
               z == Len(items[n])
    <2>1. x \in Nat /\ y \in Nat /\ z \in Nat /\ y < x /\ x <= Len(s) + 1 /\ x = y + z + 1
      BY <1>2, <1>4
    <2>2. \A i \in 1..z : s[y + i] = items[n][i] /\ items[n][i] # Bar
      BY <1>2
    <2>3. x <= Len(s) => s[x] = Bar
      <3>1. CASE n = k
        <4>1. Len(s) = x - 1 /\ Len(s) \in Nat
          BY <1>2, <1>4, <3>1
        <4> HIDE DEF x
        <4> QED  BY <2>1, <4>1
      <3>2. CASE n # k
        <4>1. n \in 1..(k - 1)
          BY <3>2
        <4> QED  BY <1>2, <4>1
      <3> QED  BY <3>1, <3>2
    <2> HIDE DEF x, y, z
    <2>4. \A i \in 1..Len(s) : y < i /\ i < x => s[i] # Bar
      <3> SUFFICES ASSUME NEW i \in 1..Len(s), y < i, i < x PROVE s[i] # Bar
        OBVIOUS
      <3>1. i - y \in 1..z /\ y + (i - y) = i
        BY <2>1
      <3> QED  BY <2>2, <3>1
    <2>5. s \in Seq(Char)
      BY <1>2
    <2>6. NextBar(s, y) = x
      BY <2>1, <2>3, <2>4, <2>5, NextBarIs
    <2> QED  BY <2>6 DEF x, y
  <1>6. \A n \in 1..k : n # most => bars[n] = p[n]
    <2>1. 1 # most => first = p[1]
      <3>1. 1 \in 1..k /\ 1 - 1 = 0
        OBVIOUS
      <3> HIDE DEF first
      <3>2. 1 # most => NextBar(s, 0) = p[1]
        BY <1>2, <1>5, <3>1
      <3> QED  BY <3>2 DEF first
    <2>2. 2 \in 1..k /\ 2 # most => second = p[2]
      <3> HAVE 2 \in 1..k /\ 2 # most
      <3>1. 1 # most /\ 2 - 1 = 1
        OBVIOUS
      <3>2. NextBar(s, p[1]) = p[2]
        BY <1>5, <3>1
      <3> QED  BY <2>1, <3>1, <3>2
    <2>3. 3 \in 1..k /\ 3 # most => third = p[3]
      <3> HAVE 3 \in 1..k /\ 3 # most
      <3>1. 2 \in 1..k /\ 2 # most /\ 3 - 1 = 2
        OBVIOUS
      <3>2. NextBar(s, p[2]) = p[3]
        BY <1>5, <3>1
      <3> QED  BY <2>2, <3>1, <3>2
    <2>4. 4 \in 1..k /\ 4 # most => fourth = p[4]
      <3> HAVE 4 \in 1..k /\ 4 # most
      <3>1. 3 \in 1..k /\ 3 # most /\ 4 - 1 = 3
        OBVIOUS
      <3>2. NextBar(s, p[3]) = p[4]
        BY <1>5, <3>1
      <3> QED  BY <2>3, <3>1, <3>2
    <2> HIDE DEF first, second, third, fourth
    <2>5. bars[1] = first /\ bars[2] = second /\ bars[3] = third /\ bars[4] = fourth
      OBVIOUS
    <2> HIDE DEF bars
    <2> TAKE n \in 1..k
    <2> HAVE n # most
    <2>6. n \in {1, 2, 3, 4}
      OBVIOUS
    <2> QED  BY <2>1, <2>2, <2>3, <2>4, <2>5, <2>6
  <1> HIDE DEF bars
  <1>7. \A n \in 1..k : start(n) = p[n - 1] /\ end(n) = p[n]
    <2> TAKE n \in 1..k
    <2>1. start(n) = p[n - 1]
      <3>1. CASE n = 1
        BY <1>2, <3>1
      <3>2. CASE n # 1
        <4>1. n - 1 \in 1..k /\ n - 1 # most
          BY <3>2
        <4> QED  BY <1>6, <3>2, <4>1
      <3> QED  BY <3>1, <3>2
    <2>2. end(n) = p[n]
      <3>1. CASE n = most
        <4> DEFINE e == p[k]
        <4>1. k = most /\ Len(s) = e - 1 /\ e \in Nat
          BY <1>2, <3>1
        <4> HIDE DEF e
        <4>2. Len(s) + 1 = e
          BY <4>1
        <4> QED  BY <3>1, <4>1, <4>2 DEF e
      <3>2. CASE n # most
        BY <1>6, <3>2
      <3> QED  BY <3>1, <3>2
    <2> QED  BY <2>1, <2>2
  <1> HIDE DEF start, end
  <1>8. Fields(call, s) = fields
    <2>1. ASSUME least > 1 PROVE ~(start(least) > Len(s))
      <3> DEFINE x == p[least]
                 y == p[least - 1]
      <3>1. least \in 1..k
        BY <2>1
      <3>2. start(least) = y /\ x \in Nat /\ y \in Nat /\ y < x /\ x <= Len(s) + 1 /\ Len(s) \in Nat
        BY <1>4, <1>7, <3>1
      <3> HIDE DEF x, y
      <3> QED  BY <3>2
    <2> QED  BY <1>3, <2>1
  <1>9. ASSUME NEW n \in 1..k
        PROVE  SubSeq(s, start(n) + 1, end(n) - 1) = items[n]
    <2> DEFINE x == p[n]
               y == p[n - 1]
               z == Len(items[n])
               u == SubSeq(s, y + 1, x - 1)
    <2>1. /\ x \in Nat /\ y \in Nat /\ z \in Nat /\ x <= Len(s) + 1 /\ x = y + z + 1
          /\ start(n) = y /\ end(n) = x /\ \A i \in 1..z : s[y + i] = items[n][i]
      BY <1>2, <1>4, <1>7
    <2> HIDE DEF x, y, z
    <2>2. \A i \in (y + 1)..(x - 1) : s[i] \in Char
      <3> TAKE i \in (y + 1)..(x - 1)
      <3>1. s \in Seq(Char) /\ Len(s) \in Nat
        BY <1>2
      <3>2. i \in 1..Len(s)
        BY <2>1, <3>1
      <3> QED  BY <3>1, <3>2
    <2>3. /\ u \in Seq(Char) /\ Len(u) = z /\ \A i \in 1..z : u[i] = s[y + i]
      <3>1. /\ u \in Seq(Char)
            /\ Len(u) = IF y + 1 <= x - 1 THEN (x - 1) - (y + 1) + 1 ELSE 0
            /\ \A i \in 1..((x - 1) - (y + 1) + 1) : u[i] = s[(y + 1) + i - 1]
        <4>1. y + 1 \in Int /\ x - 1 \in Int
          BY <2>1
        <4> QED  BY <2>2, <4>1, SubSeqProperties
      <3> HIDE DEF u
      <3>2. (x - 1) - (y + 1) + 1 = z /\ \A i \in 1..z : (y + 1) + i - 1 = y + i
        BY <2>1
      <3>3. Len(u) = z
        BY <2>1, <3>1
      <3> QED  BY <3>1, <3>2, <3>3
    <2> HIDE DEF u
    <2>4. u = items[n]
      <3>1. items[n] \in Seq(Char) /\ Len(items[n]) = Len(u)
        BY <2>3 DEF z
      <3>2. \A i \in 1..Len(u) : u[i] = items[n][i]
        BY <2>1, <2>3
      <3> QED  BY <2>3, <3>1, <3>2, SeqEqual
    <2> QED  BY <2>1, <2>4 DEF u
  <1> DEFINE v == SubSeq(fields, 1, k)
  <1>10. /\ v \in Seq(Seq(Char)) /\ Len(v) = k /\ \A n \in 1..k : v[n] = items[n]
    <2>1. \A n \in 1..k : fields[n] = items[n]
      BY <1>9
    <2> HIDE DEF fields
    <2>2. \A n \in 1..k : fields[n] \in Seq(Char)
      BY <2>1
    <2>3. /\ v \in Seq(Seq(Char)) /\ Len(v) = IF 1 <= k THEN k - 1 + 1 ELSE 0
          /\ \A n \in 1..(k - 1 + 1) : v[n] = fields[1 + n - 1]
      BY <2>2, SubSeqProperties
    <2> HIDE DEF v
    <2>4. 1 <= k /\ k - 1 + 1 = k /\ \A n \in 1..k : 1 + n - 1 = n
      OBVIOUS
    <2>5. Len(v) = k
      BY <2>3, <2>4
    <2>6. \A n \in 1..k : v[n] = fields[n]
      BY <2>3, <2>4
    <2> QED  BY <2>1, <2>3, <2>5, <2>6
  <1> HIDE DEF v
  <1>11. v = items
    <2>1. DOMAIN v = 1..k /\ v = [n \in DOMAIN v |-> v[n]]
      BY <1>10
    <2>2. items = [n \in 1..k |-> items[n]]
      OBVIOUS
    <2> QED  BY <1>10, <2>1, <2>2
  <1> QED  BY <1>8, <1>11 DEF s, v

(* What each call takes.                                                    *)
LEMMA Arities ==
  ASSUME NEW call \in TalebookCall \cup StoreCall \cup AdminCall
  PROVE  /\ Arity(call) \in {<<0, 0>>, <<1, 1>>, <<2, 2>>, <<3, 3>>, <<1, 2>>, <<4, 5>>, <<2, 3>>}
         /\ Arity(call) = <<1, 2>> <=> call = "TalebookGet"
  <1>1. CASE call \in TalebookCall
    <2>1. /\ TalebookArity(call) \in {<<1, 1>>, <<2, 2>>, <<3, 3>>, <<1, 2>>, <<4, 5>>, <<2, 3>>}
          /\ TalebookArity(call) = <<1, 2>> <=> call = "TalebookGet"
      BY <1>1 DEF TalebookCall, TalebookArity
    <2>2. call \notin StoreCall
      BY <1>1 DEF TalebookCall, StoreCall
    <2>3. Arity(call) = TalebookArity(call)
      BY <1>1, <2>2 DEF Arity
    <2> QED  BY <2>1, <2>3
  <1>2. CASE call \in StoreCall
    <2>1. StoreArity(call) \in {<<0, 0>>, <<1, 1>>, <<2, 2>>}
      BY DEF StoreArity
    <2>2. call \notin TalebookCall /\ call # "TalebookGet"
      BY <1>2 DEF TalebookCall, StoreCall
    <2> QED  BY <1>2, <2>1, <2>2 DEF Arity
  <1>3. CASE call \in AdminCall
    <2>1. AdminArity(call) \in {<<0, 0>>, <<1, 1>>, <<2, 2>>, <<3, 3>>}
      BY <1>3 DEF AdminArity, AdminCall
    <2>2. call \notin TalebookCall \cup StoreCall /\ call # "TalebookGet"
      BY <1>3 DEF TalebookCall, StoreCall, AdminCall
    <2> QED  BY <2>1, <2>2 DEF Arity
  <1> QED  BY <1>1, <1>2, <1>3

(* What an administration call sends.                                       *)
LEMMA AdminSends ==
  ASSUME NEW call \in AdminCall
  PROVE  Len(AdminRequest(call).sends) = Arity(call)[2]
  <1>1. Arity(call) = AdminArity(call)
    BY DEF Arity, TalebookCall, StoreCall, AdminCall
  <1>2. CASE AdminArity(call) = <<0, 0>>
    <2>1. AdminRequest(call).sends = <<>>
      BY <1>2 DEF AdminArity, AdminRequest, Request, AdminCall
    <2> QED  BY <1>1, <1>2, <2>1
  <1>3. CASE AdminArity(call) = <<1, 1>>
    <2>1. AdminRequest(call).sends \in {<<"book_ids">>, <<"hashlist">>, <<"id">>}
      BY <1>3 DEF AdminArity, AdminRequest, Request, AdminCall
    <2> QED  BY <1>1, <1>3, <2>1
  <1>4. CASE AdminArity(call) = <<2, 2>>
    <2>1. AdminRequest(call).sends \in {<<"id", "action">>, <<"filelist", "force">>, <<"page", "page_size">>}
      BY <1>4 DEF AdminArity, AdminRequest, Request, AdminCall
    <2> QED  BY <1>1, <1>4, <2>1
  <1>5. CASE AdminArity(call) = <<3, 3>>
    <2>1. AdminRequest(call).sends \in {<<"status", "page", "page_size">>, <<"page", "num", "filter">>,
                                        <<"id", "action", "reply">>}
      BY <1>5 DEF AdminArity, AdminRequest, Request, AdminCall
    <2> QED  BY <1>1, <1>5, <2>1
  <1>6. AdminArity(call) \in {<<0, 0>>, <<1, 1>>, <<2, 2>>, <<3, 3>>}
    BY DEF AdminArity, AdminCall
  <1> QED  BY <1>2, <1>3, <1>4, <1>5, <1>6

(* What NativeCore.ets leaves of a field, and that no bar is left in a      *)
(* field that it cleans.                                                    *)
LEMMA CleanFields ==
  ASSUME NEW call, NEW n, NEW f \in Seq(Char)
  PROVE  /\ CleanField(call, n, f) \in Seq(Char) /\ Len(CleanField(call, n, f)) = Len(f)
         /\ Cleaned(call, n) \/ ~Contains(f, Bar)
              => \A i \in 1..Len(f) : CleanField(call, n, f)[i] # Bar
  <1> DEFINE bar == CASE <<call, n>> \in NamesCleaned -> "_"
                      [] <<call, n>> \in FieldsCleaned -> " "
                      [] OTHER -> Bar
             g == [m \in DOMAIN f |-> IF f[m] = Bar THEN bar ELSE f[m]]
  <1>1. /\ bar \in {"_", " ", Bar} /\ {"_", " ", Bar} \subseteq Char
        /\ Cleaned(call, n) => bar # Bar
    <2>1. {"_", " ", Bar} \subseteq Char
      BY InputsOK DEF Written
    <2>2. bar \in {"_", " ", Bar}
      OBVIOUS
    <2>3. ASSUME Cleaned(call, n) PROVE bar # Bar
      <3>1. ~(<<call, n>> \in NamesCleaned /\ <<call, n>> \in FieldsCleaned)
        BY DEF NamesCleaned, FieldsCleaned
      <3>2. <<call, n>> \in NamesCleaned \/ <<call, n>> \in FieldsCleaned
        BY <2>3 DEF Cleaned
      <3>3. bar = "_" \/ bar = " "
        BY <3>1, <3>2
      <3> QED  BY <3>3 DEF Bar
    <2> QED  BY <2>1, <2>2, <2>3
  <1>2. CleanField(call, n, f) = g
    BY DEF CleanField
  <1> HIDE DEF bar
  <1>3. Len(f) \in Nat /\ DOMAIN f = 1..Len(f) /\ \A i \in 1..Len(f) : f[i] \in Char
    OBVIOUS
  <1>4. g \in [1..Len(f) -> Char] /\ \A i \in 1..Len(f) : g[i] = IF f[i] = Bar THEN bar ELSE f[i]
    BY <1>1, <1>3
  <1> HIDE DEF g
  <1>5. g \in Seq(Char) /\ Len(g) = Len(f)
    BY <1>3, <1>4
  <1>6. Cleaned(call, n) \/ ~Contains(f, Bar) => \A i \in 1..Len(f) : g[i] # Bar
    BY <1>1, <1>4 DEF Contains
  <1> QED  BY <1>2, <1>5, <1>6

(* Every call gets the fields that ArkTS gave it, as long as only the last  *)
(* one that it takes holds bars that NativeCore does not replace, and an    *)
(* administration call sends as many, for fields of any length              *)
(* (NativeCore.ets, napi_init.cpp, api_service.cpp).                        *)
LEMMA FieldsDoArrive == FieldsArrive
  <1> SUFFICES ASSUME NEW call \in TalebookCall \cup StoreCall \cup AdminCall,
                      NEW fields \in [1..Given(call) -> FieldTexts],
                      \A n \in 1..Given(call) :
                        n = Arity(call)[2] \/ Cleaned(call, n) \/ ~Contains(fields[n], Bar)
               PROVE  SubSeq(Fields(call, Input(call, fields)), 1, Given(call))
                        = [n \in 1..Given(call) |-> CleanField(call, n, fields[n])]
    BY AdminSends DEF FieldsArrive
  <1> DEFINE k == Given(call)
             least == Arity(call)[1]
             most == Arity(call)[2]
             items == [n \in 1..k |-> CleanField(call, n, fields[n])]
  <1>1. /\ Arity(call) \in {<<0, 0>>, <<1, 1>>, <<2, 2>>, <<3, 3>>, <<1, 2>>, <<4, 5>>, <<2, 3>>}
        /\ Arity(call) = <<1, 2>> <=> call = "TalebookGet"
    BY Arities
  <1>2. /\ Arity(call) = <<least, most>> /\ most \in 0..5 /\ least \in 0..most
        /\ (most = 0 /\ k = 0) \/ (most > 0 /\ k = most) \/ (k = 1 /\ least = 1 /\ most = 2)
    BY <1>1 DEF Given
  <1>3. fields \in [1..k -> Seq(Char)]
    <2>1. FieldTexts \subseteq Seq(Char)
      BY InputsOK
    <2> QED  BY <2>1
  <1>4. items \in [1..k -> Seq(Char)]
        /\ \A n \in 1..k : n # most => \A i \in 1..Len(items[n]) : items[n][i] # Bar
    <2>1. ASSUME NEW n \in 1..k
          PROVE  /\ CleanField(call, n, fields[n]) \in Seq(Char)
                 /\ n # most => \A i \in 1..Len(CleanField(call, n, fields[n])) :
                                  CleanField(call, n, fields[n])[i] # Bar
      BY <1>3, CleanFields
    <2> HIDE DEF k, most
    <2> QED  BY <2>1
  <1>5. Input(call, fields) = Joined(items, <<Bar>>)
    <2>1. DOMAIN fields = 1..k
      OBVIOUS
    <2> QED  BY <2>1, Zenon DEF Input
  <1>6. CASE k = 0
    <2>1. most = 0
      BY <1>2, <1>6
    <2>2. Fields(call, Input(call, fields)) = <<>>
      BY <2>1 DEF Fields
    <2>3. SubSeq(<<>>, 1, 0) = <<>>
      OBVIOUS
    <2>4. items = <<>>
      BY <1>6
    <2> QED  BY <1>6, <2>2, <2>3, <2>4
  <1>7. CASE k # 0
    <2>1. /\ k \in 1..5 /\ most \in 1..5 /\ least \in 0..k
          /\ k = most \/ (k = 1 /\ most = 2)
      BY <1>2, <1>7
    <2>2. Arity(call) = <<least, most>>
      BY <1>2
    <2> HIDE DEF k, least, most, items
    <2>3. SubSeq(Fields(call, Joined(items, <<Bar>>)), 1, k) = items
      BY <1>4, <2>1, <2>2, FieldsOfJoined
    <2> QED  BY <1>5, <2>3 DEF items, k
  <1> QED  BY <1>6, <1>7

(* What ArkTS asks for is what the server is asked for, for fields, files,  *)
(* pages and addresses of every length.                                     *)
THEOREM CallsSafe == Spec => []CallsArrive
  <1>1. CallsArrive
    BY FieldsDoArrive, PartsHavePaths, PagesHoldBooks, ServerIsTheSame DEF CallsArrive
  <1> QED  BY <1>1, PTL

-----------------------------------------------------------------------------
(* JSON: texts that are escaped, and how they are read from place to place. *)

(* What one character is written as.                                        *)
LEMMA EscapedIs ==
  ASSUME NEW c \in Char
  PROVE  /\ Escaped(c) \in Seq(Char)
         /\ \/ /\ c \in {Quote, Back, Line} /\ Len(Escaped(c)) = 2 /\ Escaped(c)[1] = Back
               /\ Escaped(c)[2] = IF c = Line THEN "n" ELSE c
            \/ c \notin {Quote, Back, Line} /\ Len(Escaped(c)) = 1 /\ Escaped(c)[1] = c
  <1> DEFINE n == "n"
  <1>1. /\ {Quote, Back, Line, n} \subseteq Char /\ Quote # Back /\ Quote # Line /\ Back # Line
    BY InputsOK DEF Written, Quote, Back, Line
  <1>2. c = Quote => Escaped(c) = <<Back, Quote>>
    BY <1>1 DEF Escaped
  <1>3. c = Back => Escaped(c) = <<Back, Back>>
    BY <1>1 DEF Escaped
  <1>4. c = Line => Escaped(c) = <<Back, n>>
    BY <1>1 DEF Escaped
  <1>5. c \notin {Quote, Back, Line} => Escaped(c) = <<c>>
    BY DEF Escaped
  <1> HIDE DEF n
  <1>6. \A x, y \in Char : /\ <<x, y>> \in Seq(Char) /\ Len(<<x, y>>) = 2
                           /\ <<x, y>>[1] = x /\ <<x, y>>[2] = y
    OBVIOUS
  <1>7. \A x \in Char : <<x>> \in Seq(Char) /\ Len(<<x>>) = 1 /\ <<x>>[1] = x
    OBVIOUS
  <1>8. CASE c \in {Quote, Back, Line}
    <2>1. Escaped(c) = <<Back, IF c = Line THEN n ELSE c>>
      BY <1>1, <1>2, <1>3, <1>4, <1>8
    <2> QED  BY <1>1, <1>6, <1>8, <2>1 DEF n
  <1>9. CASE c \notin {Quote, Back, Line}
    BY <1>5, <1>7, <1>9
  <1> QED  BY <1>8, <1>9

(* A text and one more element.                                             *)
LEMMA OneMore ==
  ASSUME NEW T, NEW a \in Seq(T), NEW c \in T
  PROVE  /\ a \o <<c>> \in Seq(T) /\ Len(a \o <<c>>) = Len(a) + 1
         /\ (a \o <<c>>)[Len(a) + 1] = c
         /\ \A i \in 1..Len(a) : (a \o <<c>>)[i] = a[i]
  <1> DEFINE z == <<c>>
             r == a \o z
  <1>1. z \in Seq(T) /\ Len(z) = 1 /\ z[1] = c /\ Len(a) \in Nat
    OBVIOUS
  <1> HIDE DEF z
  <1>2. /\ r \in Seq(T) /\ Len(r) = Len(a) + Len(z)
        /\ \A i \in 1..(Len(a) + Len(z)) : r[i] = IF i <= Len(a) THEN a[i] ELSE z[i - Len(a)]
    BY <1>1, ConcatProperties
  <1> HIDE DEF r
  <1>3. /\ Len(a) + 1 \in 1..(Len(a) + Len(z)) /\ ~(Len(a) + 1 <= Len(a)) /\ (Len(a) + 1) - Len(a) = 1
    BY <1>1
  <1>4. r[Len(a) + 1] = c
    BY <1>1, <1>2, <1>3
  <1> QED  BY <1>1, <1>2, <1>4 DEF r, z

\* What parseJsonStringValue reads, if M are the places behind a backslash
\* that count.
StringBy(s, p, M) ==
  LET close == First({n \in (p + 1)..Len(s) : s[n] = Quote /\ n \notin M}, 0)
      char(n) == CASE n \notin M /\ s[n] = Back -> <<>>
                   [] n \in M /\ s[n] = "n" -> <<Line>>
                   [] OTHER -> <<s[n]>>
  IN  IF At(s, p) # Quote \/ close = 0 THEN NoString(s)
      ELSE [ok |-> TRUE, next |-> close + 1,
            value |-> FlattenSeq([k \in 1..(close - p - 1) |-> char(p + k)])]

\* The places behind a backslash that counts, in s from p.
MarksOf(M, s, p) ==
  /\ M \subseteq p..Len(s)
  /\ \A n \in p..Len(s) : n \in M <=> n > p + 1 /\ s[n - 1] = Back /\ n - 1 \notin M

(* Whether a backslash counts depends on whether the one before it does.    *)
LEMMA MarksExist ==
  ASSUME NEW s \in Seq(Char), NEW p \in Nat
  PROVE  \E M : MarksOf(M, s, p) /\ ParseString(s, p) = StringBy(s, p, M)
  <1> DEFINE L == Len(s)
             Esc(f) == [n \in p..L |-> n > p + 1 /\ s[n - 1] = Back /\ ~f[n - 1]]
             esc == CHOOSE f : f = Esc(f)
             closes == {n \in (p + 1)..L : s[n] = Quote /\ ~esc[n]}
             close == First(closes, 0)
             char(n) == CASE ~esc[n] /\ s[n] = Back -> <<>>
                          [] esc[n] /\ s[n] = "n" -> <<Line>>
                          [] OTHER -> <<s[n]>>
             chars == [k \in 1..(close - p - 1) |-> char(p + k)]
  <1>1. ParseString(s, p) =
          IF At(s, p) # Quote \/ close = 0 THEN NoString(s)
          ELSE [ok |-> TRUE, next |-> close + 1, value |-> FlattenSeq(chars)]
    BY Zenon DEF ParseString
  <1>2. L \in Nat
    OBVIOUS
  <1> HIDE DEF L
  <1>3. \E f : f = Esc(f)
    <2> DEFINE step == [n \in (p + 1)..L |-> [x \in {0, 1} |->
                          IF n > p + 1 /\ s[n - 1] = Back /\ x = 0 THEN 1 ELSE 0]]
               S == {0, 1}
               e == 0
    <2>1. step \in [(p + 1)..L -> [S -> S]] /\ p \in Int /\ L \in Int /\ e \in S
      BY <1>2
    <2>5. \A n \in (p + 1)..L : \A x \in S :
            step[n][x] = IF n > p + 1 /\ s[n - 1] = Back /\ x = 0 THEN 1 ELSE 0
      OBVIOUS
    <2> HIDE DEF step, S, e
    <2>7. PICK f \in [p..L -> S] : Steps(f, p, L, e, step)
      BY <2>1, StepsExist
    <2>2. f \in [p..L -> S] /\ f = [n \in p..L |-> IF n = p THEN e ELSE step[n][f[n - 1]]]
      BY <2>7 DEF Steps
    <2>3. \A n \in p..L : f[n] = 1 <=> n > p + 1 /\ s[n - 1] = Back /\ f[n - 1] # 1
      <3> TAKE n \in p..L
      <3>1. CASE n = p
        BY <2>2, <3>1 DEF e
      <3>2. CASE n # p
        <4>1. n \in (p + 1)..L /\ n - 1 \in p..L
          BY <1>2, <3>2
        <4>2. f[n] = step[n][f[n - 1]] /\ f[n - 1] \in S
          BY <2>2, <3>2, <4>1
        <4>3. f[n] = IF n > p + 1 /\ s[n - 1] = Back /\ f[n - 1] = 0 THEN 1 ELSE 0
          BY <2>5, <4>1, <4>2
        <4> QED  BY <4>2, <4>3 DEF S
      <3> QED  BY <3>1, <3>2
    <2> DEFINE g == [n \in p..L |-> f[n] = 1]
    <2>4. \A n \in p..L : (f[n] = 1) = (n > p + 1 /\ s[n - 1] = Back /\ ~g[n - 1])
      <3> TAKE n \in p..L
      <3>1. CASE n > p + 1
        <4>1. n - 1 \in p..L
          BY <1>2, <3>1
        <4>2. g[n - 1] = (f[n - 1] = 1)
          BY <4>1
        <4> HIDE DEF g
        <4>3. f[n] = 1 <=> s[n - 1] = Back /\ ~g[n - 1]
          BY <2>3, <3>1, <4>2
        <4> QED  BY <3>1, <4>3, Zenon
      <3>2. CASE ~(n > p + 1)
        BY <2>3, <3>2, Zenon
      <3> QED  BY <3>1, <3>2
    <2>6. g = Esc(g)
      BY <2>4
    <2> QED  BY <2>6
  <1>4. esc = Esc(esc)
    BY <1>3, Zenon
  <1>5. \A n \in p..L : esc[n] <=> n > p + 1 /\ s[n - 1] = Back /\ ~esc[n - 1]
    <2> HIDE DEF esc
    <2> QED  BY <1>4, Zenon
  <1> HIDE DEF esc
  <1> DEFINE M == {n \in p..L : esc[n]}
  <1>6. \A n \in p..L : n \in M <=> esc[n]
    OBVIOUS
  <1>7. MarksOf(M, s, p)
    <2>1. M \subseteq p..L
      OBVIOUS
    <2> HIDE DEF M
    <2>2. ASSUME NEW n \in p..L PROVE n \in M <=> n > p + 1 /\ s[n - 1] = Back /\ n - 1 \notin M
      <3>1. CASE n > p + 1
        <4>1. n - 1 \in p..L
          BY <1>2, <3>1
        <4> QED  BY <1>5, <1>6, <3>1, <4>1, Zenon
      <3>2. CASE ~(n > p + 1)
        BY <1>5, <1>6, <3>2, Zenon
      <3> QED  BY <3>1, <3>2
    <2> QED  BY <2>1, <2>2 DEF MarksOf, L
  <1> HIDE DEF M
  <1> DEFINE char2(n) == CASE n \notin M /\ s[n] = Back -> <<>>
                           [] n \in M /\ s[n] = "n" -> <<Line>>
                           [] OTHER -> <<s[n]>>
             chars2 == [k \in 1..(close - p - 1) |-> char2(p + k)]
  <1>8. closes = {n \in (p + 1)..L : s[n] = Quote /\ n \notin M}
    <2>1. \A n \in (p + 1)..L : n \in p..L
      BY <1>2
    <2> QED  BY <1>6, <2>1, Zenon
  <1>9. CASE closes = {}
    <2>1. close = 0
      BY <1>9 DEF First
    <2>2. ParseString(s, p) = NoString(s)
      BY <1>1, <2>1
    <2>3. StringBy(s, p, M) = NoString(s)
      BY <1>8, <2>1 DEF StringBy, L
    <2> QED  BY <1>7, <2>2, <2>3
  <1>10. CASE closes # {}
    <2>1. close \in closes
      <3>1. closes \in SUBSET Nat
        BY <1>2
      <3> HIDE DEF closes
      <3> QED  BY <1>10, <3>1, FirstIs
    <2>2. close \in (p + 1)..L
      BY <2>1
    <2>5. close = First({n \in (p + 1)..L : s[n] = Quote /\ n \notin M}, 0)
      BY <1>8
    <2> HIDE DEF close
    <2>3. ASSUME NEW k \in 1..(close - p - 1) PROVE char(p + k) = char2(p + k)
      <3>1. p + k \in p..L
        BY <1>2, <2>2
      <3>2. p + k \in M <=> esc[p + k]
        BY <1>6, <3>1
      <3> QED  BY <3>2, Zenon
    <2>4. chars = chars2
      BY <2>3, Zenon
    <2>6. StringBy(s, p, M) =
            IF At(s, p) # Quote \/ close = 0 THEN NoString(s)
            ELSE [ok |-> TRUE, next |-> close + 1, value |-> FlattenSeq(chars2)]
      BY <2>5, Zenon DEF StringBy, L
    <2> QED  BY <1>1, <1>7, <2>4, <2>6, Zenon DEF close
  <1> QED  BY <1>9, <1>10

\* The text x lies in s behind place o.
Here(s, o, x) == o + Len(x) <= Len(s) /\ \A i \in 1..Len(x) : s[o + i] = x[i]

(* The characters of a quoted text.                                         *)
LEMMA QuotedIs ==
  ASSUME NEW t \in Seq(Char), Escape(t) \in Seq(Char)
  PROVE  /\ Quoted(t) \in Seq(Char) /\ Len(Quoted(t)) = Len(Escape(t)) + 2
         /\ Quoted(t)[1] = Quote /\ Quoted(t)[Len(Escape(t)) + 2] = Quote
         /\ \A i \in 1..Len(Escape(t)) : Quoted(t)[1 + i] = Escape(t)[i]
  <1> DEFINE a == <<Quote>>
             b == Escape(t)
             ab == a \o b
             c == ab \o a
             l == Len(b)
  <1>1. a \in Seq(Char) /\ Len(a) = 1 /\ a[1] = Quote /\ b \in Seq(Char) /\ l \in Nat
    <2>1. Quote \in Char
      BY InputsOK DEF Written
    <2>2. b \in Seq(Char) /\ l \in Nat
      OBVIOUS
    <2> HIDE DEF b, l
    <2> QED  BY <2>1, <2>2
  <1>2. Quoted(t) = c
    BY DEF Quoted
  <1>3. \A x, y \in Seq(Char) :
          /\ x \o y \in Seq(Char) /\ Len(x \o y) = Len(x) + Len(y)
          /\ \A i \in 1..(Len(x) + Len(y)) : (x \o y)[i] = IF i <= Len(x) THEN x[i] ELSE y[i - Len(x)]
    BY ConcatProperties
  <1>4. Quote \in Char
    BY InputsOK DEF Written
  <1>5. /\ c \in Seq(Char) /\ Len(c) = Len(ab) + 1 /\ c[Len(ab) + 1] = Quote
        /\ \A i \in 1..Len(ab) : c[i] = ab[i]
    <2>1. ab \in Seq(Char)
      BY <1>1, <1>3
    <2> HIDE DEF ab
    <2> QED  BY <1>4, <2>1, OneMore
  <1> HIDE DEF a, b, c
  <1>6. /\ ab \in Seq(Char) /\ Len(ab) = 1 + l
        /\ \A i \in 1..(1 + l) : ab[i] = IF i <= 1 THEN a[i] ELSE b[i - 1]
    <2>1. /\ ab \in Seq(Char) /\ Len(ab) = Len(a) + Len(b)
          /\ \A i \in 1..(Len(a) + Len(b)) : ab[i] = IF i <= Len(a) THEN a[i] ELSE b[i - Len(a)]
      BY <1>1, <1>3
    <2> HIDE DEF ab
    <2> QED  BY <1>1, <2>1
  <1> HIDE DEF ab, l
  <1>7. ab[1] = Quote /\ \A i \in 1..l : ab[1 + i] = b[i]
    <2>1. ab[1] = Quote
      BY <1>1, <1>6
    <2>2. ASSUME NEW i \in 1..l PROVE ab[1 + i] = b[i]
      <3>1. 1 + i \in 1..(1 + l) /\ ~(1 + i <= 1) /\ (1 + i) - 1 = i
        BY <1>1
      <3> QED  BY <1>6, <3>1
    <2> QED  BY <2>1, <2>2
  <1>8. Len(c) = l + 2 /\ c[1] = Quote /\ c[l + 2] = Quote
    BY <1>1, <1>5, <1>6, <1>7
  <1>9. ASSUME NEW i \in 1..l PROVE c[1 + i] = b[i]
    <2>1. 1 + i \in 1..(1 + l)
      BY <1>1
    <2> QED  BY <1>5, <1>6, <1>7, <2>1
  <1> QED  BY <1>2, <1>5, <1>8, <1>9 DEF l, b

(* How an escaped text lies: its pieces, and what they are.                 *)
EscapedAt(q, e, t) ==
  /\ e \in [1..Len(t) -> Seq(Char)] /\ q \in [0..Len(t) -> Nat]
  /\ LiesAt(q, Escape(t), e, Len(t), Char)
  /\ \A n \in 1..Len(t) :
       \/ /\ t[n] \in {Quote, Back, Line} /\ Len(e[n]) = 2 /\ e[n][1] = Back
          /\ e[n][2] = IF t[n] = Line THEN "n" ELSE t[n]
       \/ t[n] \notin {Quote, Back, Line} /\ Len(e[n]) = 1 /\ e[n][1] = t[n]

(* Every text is escaped that way.                                          *)
LEMMA EscapedLies ==
  ASSUME NEW t \in Seq(Char)
  PROVE  \E q, e : EscapedAt(q, e, t)
  <1> DEFINE k == Len(t)
             e == [n \in 1..k |-> Escaped(t[n])]
  <1>1. /\ k \in Nat /\ \A n \in 1..k : t[n] \in Char
        /\ Escape(t) = FlattenSeq(e)
    <2>1. DOMAIN t = 1..k
      OBVIOUS
    <2> QED  BY <2>1 DEF Escape
  <1>2. \A n \in 1..k :
          /\ e[n] \in Seq(Char) /\ e[n] = Escaped(t[n])
          /\ \/ /\ t[n] \in {Quote, Back, Line} /\ Len(e[n]) = 2 /\ e[n][1] = Back
                /\ e[n][2] = IF t[n] = Line THEN "n" ELSE t[n]
             \/ t[n] \notin {Quote, Back, Line} /\ Len(e[n]) = 1 /\ e[n][1] = t[n]
    BY <1>1, EscapedIs
  <1>3. e \in [1..k -> Seq(Char)]
    BY <1>2
  <1> HIDE DEF e, k
  <1>4. PICK q \in [0..k -> Nat] : LiesAt(q, Escape(t), e, k, Char)
    BY <1>1, <1>3, FlattenLies
  <1>5. EscapedAt(q, e, t)
    BY <1>2, <1>3, <1>4 DEF EscapedAt, k
  <1> QED  BY <1>5

(* A quoted text is read back where it lies.                                *)
THEOREM StringRead ==
  ASSUME NEW t \in Seq(Char), NEW s \in Seq(Char), NEW o \in Nat, Here(s, o, Quoted(t))
  PROVE  /\ Quoted(t) \in Seq(Char)
         /\ ParseString(s, o + 1) = [ok |-> TRUE, next |-> o + Len(Quoted(t)) + 1, value |-> t]
  <1> DEFINE k == Len(t)
             L == Len(Escape(t))
             w == Len(s)
             p == o + 1
  <1>1. PICK q, e : EscapedAt(q, e, t)
    BY EscapedLies
  <1>2. /\ k \in Nat /\ w \in Nat /\ p \in Nat /\ q[0] = 0 /\ q \in [0..k -> Nat]
        /\ \A n \in 1..k : q[n] = q[n - 1] + Len(e[n])
        /\ \A n \in 0..k : q[n] <= L
        /\ L = q[k] /\ L \in Nat
        /\ \A n \in 1..k : \A i \in 1..Len(e[n]) : Escape(t)[q[n - 1] + i] = e[n][i]
    <2>1. k \in Nat /\ w \in Nat /\ p \in Nat
      OBVIOUS
    <2>2. q \in [0..k -> Nat] /\ LiesAt(q, Escape(t), e, k, Char)
      BY <1>1 DEF EscapedAt
    <2>3. k \in 0..k
      BY <2>1
    <2>4. q[k] \in Nat
      BY <2>2, <2>3
    <2> HIDE DEF k, w, p
    <2> QED  BY <2>1, <2>2, <2>4 DEF LiesAt
  <1>3. \A n \in 1..k : t[n] \in Char /\ Len(e[n]) \in {1, 2} /\
          \/ /\ t[n] \in {Quote, Back, Line} /\ Len(e[n]) = 2 /\ e[n][1] = Back
             /\ e[n][2] = IF t[n] = Line THEN "n" ELSE t[n]
          \/ t[n] \notin {Quote, Back, Line} /\ Len(e[n]) = 1 /\ e[n][1] = t[n]
    <2>1. \A n \in 1..k : t[n] \in Char
      OBVIOUS
    <2> QED  BY <1>1, <2>1 DEF EscapedAt
  <1>4. /\ p + L + 1 <= w /\ s[p] = Quote /\ s[p + L + 1] = Quote
        /\ \A i \in 1..L : s[p + i] = Escape(t)[i]
        /\ Len(Quoted(t)) = L + 2 /\ Quoted(t) \in Seq(Char)
    <2>1. Escape(t) \in Seq(Char)
      BY <1>1 DEF EscapedAt, LiesAt
    <2>2. /\ Quoted(t) \in Seq(Char) /\ Len(Quoted(t)) = L + 2
          /\ Quoted(t)[1] = Quote /\ Quoted(t)[L + 2] = Quote
          /\ \A i \in 1..L : Quoted(t)[1 + i] = Escape(t)[i]
      BY <2>1, QuotedIs
    <2> HIDE DEF L
    <2>3. o + (L + 2) <= w /\ \A i \in 1..(L + 2) : s[o + i] = Quoted(t)[i]
      BY <2>2 DEF Here
    <2> HIDE DEF w
    <2>4. 1 \in 1..(L + 2) /\ L + 2 \in 1..(L + 2) /\ p + L + 1 <= w /\ p + L + 1 = o + (L + 2)
      BY <1>2, <2>3
    <2>5. \A i \in 1..L : 1 + i \in 1..(L + 2) /\ p + i = o + (1 + i)
      BY <1>2
    <2> HIDE DEF p
    <2>6. s[p] = Quote /\ s[p + L + 1] = Quote
      BY <2>2, <2>3, <2>4 DEF p
    <2> QED  BY <2>2, <2>3, <2>4, <2>5, <2>6
  <1> HIDE DEF k, L, w
  <1>5. PICK M : MarksOf(M, s, p) /\ ParseString(s, p) = StringBy(s, p, M)
    <2> HIDE DEF p
    <2> QED  BY <1>2, MarksExist
  <1>6. \A n \in p..w : n \in M <=> n > p + 1 /\ s[n - 1] = Back /\ n - 1 \notin M
    BY <1>5 DEF MarksOf, w
  <1> HIDE DEF p
  <1> DEFINE at(n) == p + q[n - 1]
             is(n) == Len(e[n])
  <1>7. \A n \in 1..k :
          /\ at(n) \in Nat /\ at(n) >= p /\ at(n) + is(n) <= p + L /\ is(n) \in {1, 2}
          /\ p + q[n] = at(n) + is(n) /\ q[n] \in Nat /\ q[n - 1] \in Nat
          /\ s[at(n) + 1] = e[n][1] /\ (is(n) = 2 => s[at(n) + 2] = e[n][2])
    <2> TAKE n \in 1..k
    <2> DEFINE x == q[n - 1]
               y == q[n]
               l == Len(e[n])
    <2>1. x \in Nat /\ y \in Nat /\ y <= L /\ y = x + l /\ l \in {1, 2}
      <3>1. n - 1 \in 0..k /\ n \in 0..k
        BY <1>2
      <3> QED  BY <1>2, <1>3, <3>1
    <2>2. \A i \in 1..l : Escape(t)[x + i] = e[n][i]
      BY <1>2
    <2> HIDE DEF x, y, l
    <2>3. ASSUME NEW i \in 1..l PROVE s[p + x + i] = e[n][i]
      <3>1. x + i \in 1..L /\ p + x + i = p + (x + i)
        BY <1>2, <2>1
      <3> QED  BY <1>4, <2>2, <3>1
    <2>4. s[p + x + 1] = e[n][1] /\ (l = 2 => s[p + x + 2] = e[n][2])
      BY <2>1, <2>3
    <2>5. /\ p + x \in Nat /\ p + x >= p /\ p + x + l <= p + L /\ p + y = p + x + l
      BY <1>2, <2>1
    <2> QED  BY <2>1, <2>4, <2>5 DEF x, y, l
  <1> HIDE DEF at, is
  <1>8. Quote # Back /\ Quote # Line /\ Back # Line /\ Quote # "n" /\ Back # "n" /\ Line # "n"
    BY DEF Quote, Back, Line
  <1>9. \A n \in 1..k : at(n) + 1 \in p..w /\ at(n) + 2 \in p..w /\ at(n) + is(n) + 1 \in p..w
                        /\ at(n) + 1 > p /\ at(n) + 2 > p + 1
    <2> TAKE n \in 1..k
    <2> DEFINE x == at(n)
               l == is(n)
    <2>1. x \in Nat /\ x >= p /\ l \in {1, 2} /\ x + l <= p + L
      BY <1>7
    <2>2. p \in Nat /\ L \in Nat /\ w \in Nat /\ p + L + 1 <= w
      BY <1>2, <1>4
    <2> HIDE DEF x, l
    <2>3. x + 1 \in p..w /\ x + 2 \in p..w /\ x + l + 1 \in p..w /\ x + 1 > p /\ x + 2 > p + 1
      BY <2>1, <2>2
    <2> QED  BY <2>3 DEF x, l
  <1>10. \A i \in 0..k : p + q[i] + 1 \notin M
    <2> DEFINE S == {i \in 0..k : p + q[i] + 1 \notin M}
    <2>1. 0 \in S
      <3>1. p + 0 + 1 \in p..w /\ ~(p + 0 + 1 > p + 1)
        BY <1>2, <1>4
      <3> QED  BY <1>2, <1>6, <3>1
    <2>2. ASSUME NEW n \in 1..k, n - 1 \in S PROVE n \in S
      <3>1. at(n) + 1 \notin M
        BY <2>2 DEF at
      <3>2. at(n) + is(n) + 1 \notin M
        <4>1. CASE is(n) = 1
          <5>1. s[at(n) + 1] # Back
            BY <1>3, <1>7, <4>1 DEF is
          <5>2. at(n) + is(n) + 1 = at(n) + 2 /\ (at(n) + 2) - 1 = at(n) + 1
            BY <1>7, <4>1
          <5> QED  BY <1>6, <1>9, <5>1, <5>2
        <4>2. CASE is(n) = 2
          <5>1. s[at(n) + 1] = Back
            BY <1>3, <1>7, <4>2 DEF is
          <5>2. at(n) + is(n) + 1 = at(n) + 3 /\ (at(n) + 2) - 1 = at(n) + 1 /\ (at(n) + 3) - 1 = at(n) + 2
            BY <1>7, <4>2
          <5>3. at(n) + 2 \in M
            BY <1>6, <1>9, <3>1, <5>1, <5>2
          <5> QED  BY <1>6, <1>9, <5>2, <5>3
        <4> QED  BY <1>7, <4>1, <4>2
      <3> QED  BY <1>7, <3>2
    <2>3. S \in SUBSET (0..k)
      OBVIOUS
    <2> HIDE DEF S
    <2>4. S = 0..k
      BY <1>2, <2>1, <2>2, <2>3, NoneMissing
    <2> QED  BY <2>4 DEF S
  <1>11. \A n \in 1..k : at(n) + 1 \notin M /\ (is(n) = 2 => at(n) + 2 \in M)
    <2> TAKE n \in 1..k
    <2>1. at(n) + 1 \notin M
      <3>1. n - 1 \in 0..k
        BY <1>2
      <3> QED  BY <1>10, <3>1 DEF at
    <2>2. is(n) = 2 => s[at(n) + 1] = Back /\ (at(n) + 2) - 1 = at(n) + 1
      BY <1>3, <1>7 DEF is
    <2> QED  BY <1>6, <1>9, <2>1, <2>2
  <1> DEFINE closes == {n \in (p + 1)..w : s[n] = Quote /\ n \notin M}
             close == p + L + 1
  <1>12. First(closes, 0) = close
    <2>1. close \in closes
      <3>1. k \in 0..k /\ close \in (p + 1)..w
        BY <1>2, <1>4
      <3> QED  BY <1>2, <1>4, <1>10, <3>1
    <2>2. ASSUME NEW n \in closes PROVE close <= n
      <3> SUFFICES ASSUME ~(close <= n) PROVE FALSE
        OBVIOUS
      <3>1. n \in (p + 1)..w /\ s[n] = Quote /\ n \notin M
        OBVIOUS
      <3>2. n - p \in 1..L
        BY <1>2, <3>1
      <3>3. PICK m \in 1..k : \E i \in 1..Len(e[m]) : n - p = q[m - 1] + i
        <4>1. /\ e \in [1..k -> Seq(Char)] /\ q \in [0..k -> Nat] /\ LiesAt(q, Escape(t), e, k, Char)
          BY <1>1 DEF EscapedAt, k
        <4>2. n - p \in 1..q[k]
          BY <1>2, <3>2
        <4> DEFINE d == n - p
        <4> HIDE DEF d, closes
        <4>3. d \in 1..q[k]
          BY <4>2 DEF d
        <4>4. InPart(q, e, k, d)
          BY <1>2, <4>1, <4>3, LiesInPart
        <4> QED  BY <4>4 DEF InPart, d
      <3>4. n = at(m) + 1 \/ (is(m) = 2 /\ n = at(m) + 2)
        <4> DEFINE x == q[m - 1]
        <4>1. is(m) \in {1, 2} /\ x \in Nat
          BY <1>7
        <4>2. PICK i \in 1..is(m) : n - p = x + i
          BY <3>3 DEF is
        <4> HIDE DEF x
        <4>3. n = p + x + i /\ (i = 1 \/ (i = 2 /\ is(m) = 2))
          BY <1>2, <3>1, <4>1, <4>2
        <4> QED  BY <4>3 DEF at, x
      <3>5. CASE n = at(m) + 1
        BY <1>3, <1>7, <1>8, <3>1, <3>5 DEF is
      <3>6. CASE is(m) = 2 /\ n = at(m) + 2
        BY <1>11, <3>1, <3>6
      <3> QED  BY <3>4, <3>5, <3>6
    <2>3. closes \in SUBSET Int /\ closes # {}
      BY <2>1
    <2> HIDE DEF closes, close
    <2> QED  BY <2>1, <2>2, <2>3, MinIs DEF First
  <1> DEFINE char(n) == CASE n \notin M /\ s[n] = Back -> <<>>
                          [] n \in M /\ s[n] = "n" -> <<Line>>
                          [] OTHER -> <<s[n]>>
             chars == [j \in 1..(close - p - 1) |-> char(p + j)]
  <1>13. ParseString(s, p) = [ok |-> TRUE, next |-> close + 1, value |-> FlattenSeq(chars)]
    <2>1. At(s, p) = Quote /\ close # 0
      <3>1. p \in DOMAIN s
        <4>1. o \in Nat /\ p \in 1..w
          BY <1>2, <1>4 DEF p
        <4> QED  BY <4>1 DEF w
      <3> QED  BY <1>2, <1>4, <3>1 DEF At
    <2> DEFINE c == First(closes, 0)
    <2>2. StringBy(s, p, M) =
            IF At(s, p) # Quote \/ c = 0 THEN NoString(s)
            ELSE [ok |-> TRUE, next |-> c + 1,
                  value |-> FlattenSeq([j \in 1..(c - p - 1) |-> char(p + j)])]
      BY Zenon DEF StringBy, w
    <2>3. c = close
      BY <1>12
    <2> HIDE DEF c, close
    <2> QED  BY <1>5, <2>1, <2>2, <2>3
  <1>14. close - p - 1 = L
    BY <1>2
  <1>15. \A j \in 1..L : /\ chars[j] = char(p + j) /\ p + j \in 1..w /\ s[p + j] \in Char
                         /\ chars[j] \in Seq(Char)
    <2> TAKE j \in 1..L
    <2>1. p + j \in 1..w /\ chars[j] = char(p + j)
      <3>1. p + j \in 1..w
        BY <1>2, <1>4
      <3> HIDE DEF char, close
      <3> QED  BY <1>14, <3>1
    <2>2. s[p + j] \in Char /\ Line \in Char
      <3>1. Line \in Char
        BY InputsOK DEF Written
      <3> QED  BY <2>1, <3>1 DEF w
    <2>3. chars[j] \in {<<>>, <<Line>>, <<s[p + j]>>}
      BY <2>1
    <2> HIDE DEF chars
    <2> QED  BY <2>1, <2>2, <2>3
  <1>16. chars \in Seq(Seq(Char)) /\ Len(chars) = L
    <2>1. chars \in [1..L -> Seq(Char)]
      BY <1>14, <1>15
    <2> DEFINE S == Seq(Char)
    <2> HIDE DEF chars, S
    <2>3. chars \in [1..L -> S]
      BY <2>1 DEF S
    <2>2. chars \in Seq(S) /\ Len(chars) = L
      <3>1. L \in Nat
        BY <1>2
      <3> QED  BY <2>3, <3>1
    <2> QED  BY <2>2 DEF S
  <1>17. \A n \in 1..k : \/ /\ is(n) = 1 /\ chars[q[n - 1] + 1] = <<t[n]>>
                         \/ /\ is(n) = 2 /\ chars[q[n - 1] + 1] = <<>> /\ chars[q[n - 1] + 2] = <<t[n]>>
    <2> TAKE n \in 1..k
    <2>1. \A i \in 1..is(n) : chars[q[n - 1] + i] = char(at(n) + i)
      <3> TAKE i \in 1..is(n)
      <3> DEFINE x == q[n - 1]
      <3>1. x + i \in 1..L /\ p + (x + i) = at(n) + i
        <4>1. x \in Nat /\ is(n) \in {1, 2} /\ at(n) = p + x /\ at(n) + is(n) <= p + L
          BY <1>7 DEF at
        <4> HIDE DEF x
        <4> QED  BY <1>2, <4>1
      <3> HIDE DEF x, chars, char
      <3>2. chars[x + i] = char(p + (x + i))
        BY <1>15, <3>1
      <3> QED  BY <3>1, <3>2 DEF x
    <2>2. is(n) \in {1, 2}
      BY <1>7
    <2> HIDE DEF chars
    <2>3. CASE is(n) = 1
      <3>1. s[at(n) + 1] = t[n] /\ t[n] # Back /\ at(n) + 1 \notin M
        BY <1>3, <1>7, <1>11, <2>3 DEF is
      <3>2. char(at(n) + 1) = <<t[n]>>
        BY <3>1
      <3> HIDE DEF char
      <3> QED  BY <2>1, <2>3, <3>2
    <2>4. CASE is(n) = 2
      <3>1. s[at(n) + 1] = Back /\ at(n) + 1 \notin M /\ at(n) + 2 \in M
        BY <1>3, <1>7, <1>11, <2>4 DEF is
      <3>2. char(at(n) + 1) = <<>>
        BY <3>1
      <3>3. s[at(n) + 2] = (IF t[n] = Line THEN "n" ELSE t[n]) /\ t[n] \in {Quote, Back, Line}
        BY <1>3, <1>7, <2>4 DEF is
      <3>4. char(at(n) + 2) = <<t[n]>>
        <4>1. CASE t[n] = Line
          BY <3>1, <3>3, <4>1
        <4>2. CASE t[n] # Line
          BY <1>8, <3>1, <3>3, <4>2
        <4> QED  BY <4>1, <4>2
      <3> HIDE DEF char
      <3> QED  BY <2>1, <2>4, <3>2, <3>4
    <2> QED  BY <2>2, <2>3, <2>4
  <1> HIDE DEF chars
  <1>18. PICK g \in [0..L -> Seq(Char)] :
           /\ g[0] = <<>> /\ \A i \in 1..L : g[i] = g[i - 1] \o chars[i]
           /\ FlattenSeq(chars) = g[L]
    BY <1>16, FlattenGrows
  <1>19. \A n \in 1..k : g[q[n]] = g[q[n - 1]] \o <<t[n]>> /\ g[q[n - 1]] \in Seq(Char)
    <2> TAKE n \in 1..k
    <2> DEFINE x == q[n - 1]
               y == q[n]
    <2>1. x \in Nat /\ y \in Nat /\ y = x + is(n) /\ is(n) \in {1, 2} /\ y <= L
      <3>1. n - 1 \in 0..k /\ n \in 0..k
        BY <1>2
      <3>2. y = x + is(n)
        BY <1>2 DEF is
      <3> QED  BY <1>2, <1>7, <3>1, <3>2
    <2>2. \/ /\ is(n) = 1 /\ chars[x + 1] = <<t[n]>>
          \/ /\ is(n) = 2 /\ chars[x + 1] = <<>> /\ chars[x + 2] = <<t[n]>>
      BY <1>17
    <2> HIDE DEF x, y
    <2>3. x \in 0..L /\ x + 1 \in 1..L /\ (x + 1) - 1 = x /\ g[x] \in Seq(Char)
      <3> DEFINE l == is(n)
      <3>1. x \in Nat /\ y \in Nat /\ y = x + l /\ l \in {1, 2} /\ y <= L
        BY <2>1
      <3> HIDE DEF l
      <3>2. x \in 0..L /\ x + 1 \in 1..L /\ (x + 1) - 1 = x
        BY <1>2, <3>1
      <3> QED  BY <1>18, <3>2
    <2>4. g[x + 1] = g[x] \o chars[x + 1]
      BY <1>18, <2>3
    <2>5. CASE is(n) = 1
      <3>1. y = x + 1 /\ chars[x + 1] = <<t[n]>>
        BY <2>1, <2>2, <2>5
      <3> QED  BY <2>3, <2>4, <3>1, Zenon DEF x, y
    <2>6. CASE is(n) = 2
      <3>1. y = x + 2 /\ x + 2 \in 1..L /\ (x + 2) - 1 = x + 1 /\ chars[x + 1] = <<>> /\ chars[x + 2] = <<t[n]>>
        BY <1>2, <2>1, <2>2, <2>6
      <3>2. g[x + 2] = g[x + 1] \o chars[x + 2]
        BY <1>18, <3>1
      <3>3. g[x + 1] = g[x]
        BY <2>3, <2>4, <3>1, ConcatEmptySeq
      <3> QED  BY <2>3, <3>1, <3>2, <3>3, Zenon DEF x, y
    <2> QED  BY <2>1, <2>5, <2>6
  <1> DEFINE C(i) == Len(g[q[i]]) = i /\ \A j \in 1..i : g[q[i]][j] = t[j]
  <1>20. C(k)
    <2> DEFINE S == {i \in 0..k : C(i)}
    <2>1. 0 \in S
      <3>1. g[q[0]] = <<>> /\ 0 \in 0..k
        BY <1>2, <1>18
      <3> QED  BY <3>1
    <2>2. ASSUME NEW n \in 1..k, n - 1 \in S PROVE n \in S
      <3> DEFINE a == g[q[n - 1]]
                 b == g[q[n]]
      <3>1. a \in Seq(Char) /\ b = a \o <<t[n]>> /\ t[n] \in Char
        BY <1>3, <1>19
      <3>2. Len(a) = n - 1 /\ \A j \in 1..(n - 1) : a[j] = t[j]
        BY <2>2
      <3> HIDE DEF a, b
      <3>3. /\ Len(b) = Len(a) + 1 /\ b[Len(a) + 1] = t[n]
            /\ \A i \in 1..Len(a) : b[i] = a[i]
        BY <3>1, OneMore
      <3>4. Len(b) = n /\ b[n] = t[n] /\ \A j \in 1..n : b[j] = t[j]
        BY <3>2, <3>3
      <3> QED  BY <3>4 DEF b
    <2>3. S \in SUBSET (0..k)
      OBVIOUS
    <2> HIDE DEF S
    <2>4. S = 0..k
      BY <1>2, <2>1, <2>2, <2>3, NoneMissing
    <2>5. k \in 0..k
      BY <1>2
    <2> QED  BY <2>4, <2>5 DEF S
  <1>21. FlattenSeq(chars) = t
    <2>1. L \in 0..L
      BY <1>2
    <2> DEFINE r == g[L]
    <2>2. r \in Seq(Char) /\ Len(r) = Len(t) /\ \A j \in 1..Len(r) : r[j] = t[j]
      BY <1>2, <1>18, <1>20, <2>1 DEF k
    <2> HIDE DEF r
    <2>3. r = t
      BY <2>2, SeqEqual
    <2> QED  BY <1>18, <2>3 DEF r
  <1>22. close + 1 = o + (L + 2) + 1
    BY <1>2 DEF p
  <1> QED  BY <1>4, <1>13, <1>21, <1>22 DEF p

(* Parts of a text that lies in s lie in s.                                 *)
LEMMA HereParts ==
  ASSUME NEW s \in Seq(Char), NEW x \in Seq(Char), NEW y \in Seq(Char), NEW o \in Nat,
         Here(s, o, x \o y)
  PROVE  Here(s, o, x) /\ Here(s, o + Len(x), y) /\ o + Len(x) \in Nat
  <1> DEFINE z == x \o y
             a == Len(x)
             b == Len(y)
  <1>1. /\ Len(z) = Len(x) + Len(y)
        /\ \A i \in 1..(Len(x) + Len(y)) : z[i] = IF i <= Len(x) THEN x[i] ELSE y[i - Len(x)]
    BY ConcatProperties
  <1>2. a \in Nat /\ b \in Nat /\ Len(s) \in Nat
    OBVIOUS
  <1>3. Here(s, o, z)
    OBVIOUS
  <1> HIDE DEF z
  <1>4. /\ o + Len(z) <= Len(s) /\ \A i \in 1..Len(z) : s[o + i] = z[i]
    BY <1>3 DEF Here
  <1>5. /\ o + (a + b) <= Len(s) /\ \A i \in 1..(a + b) : s[o + i] = IF i <= a THEN x[i] ELSE y[i - a]
    BY <1>1, <1>4 DEF a, b
  <1> HIDE DEF a, b
  <1>6. o + a <= Len(s) /\ \A i \in 1..a : s[o + i] = x[i]
    BY <1>2, <1>5
  <1>7. (o + a) + b <= Len(s)
    BY <1>2, <1>5
  <1>8. ASSUME NEW i \in 1..b PROVE s[(o + a) + i] = y[i]
    <2>1. a + i \in 1..(a + b) /\ ~(a + i <= a) /\ (a + i) - a = i /\ o + (a + i) = (o + a) + i
      BY <1>2
    <2>2. s[o + (a + i)] = y[(a + i) - a]
      BY <1>5, <2>1
    <2> QED  BY <2>1, <2>2
  <1> QED  BY <1>2, <1>6, <1>7, <1>8 DEF Here, a, b

(* What lies in s is a part of s.                                           *)
LEMMA HereSub ==
  ASSUME NEW s \in Seq(Char), NEW x \in Seq(Char), NEW o \in Nat, Here(s, o, x)
  PROVE  SubSeq(s, o + 1, o + Len(x)) = x
  <1> DEFINE a == Len(x)
             r == SubSeq(s, o + 1, o + a)
  <1>1. a \in Nat /\ Len(s) \in Nat /\ o + a <= Len(s) /\ \A i \in 1..a : s[o + i] = x[i]
    BY DEF Here
  <1>2. \A i \in (o + 1)..(o + a) : s[i] \in Char
    <2> HIDE DEF a
    <2>1. \A i \in 1..Len(s) : s[i] \in Char
      OBVIOUS
    <2> QED  BY <1>1, <2>1
  <1> HIDE DEF a
  <1>3. r \in Seq(Char) /\ Len(r) = a /\ \A i \in 1..a : r[i] = s[o + i]
    <2>1. o + 1 \in Int /\ o + a \in Int
      BY <1>1
    <2>2. /\ r \in Seq(Char)
          /\ Len(r) = IF o + 1 <= o + a THEN (o + a) - (o + 1) + 1 ELSE 0
          /\ \A i \in 1..((o + a) - (o + 1) + 1) : r[i] = s[(o + 1) + i - 1]
      BY <1>2, <2>1, SubSeqProperties
    <2> HIDE DEF r
    <2>3. Len(r) = a
      BY <1>1, <2>2
    <2>4. ASSUME NEW i \in 1..a PROVE r[i] = s[o + i]
      <3>1. i \in 1..((o + a) - (o + 1) + 1) /\ (o + 1) + i - 1 = o + i
        BY <1>1
      <3> QED  BY <2>2, <3>1
    <2> QED  BY <2>2, <2>3, <2>4
  <1> HIDE DEF r
  <1>4. Len(r) = Len(x) /\ \A i \in 1..Len(r) : r[i] = x[i]
    BY <1>1, <1>3 DEF a
  <1> QED  BY <1>3, <1>4, SeqEqual DEF r, a

(* One character that lies in s.                                            *)
LEMMA HereOne ==
  ASSUME NEW s \in Seq(Char), NEW c \in Char, NEW o \in Nat, Here(s, o, <<c>>)
  PROVE  o + 1 \in 1..Len(s) /\ s[o + 1] = c /\ At(s, o + 1) = c
  <1>1. Len(<<c>>) = 1 /\ <<c>>[1] = c /\ DOMAIN s = 1..Len(s) /\ Len(s) \in Nat
    OBVIOUS
  <1>2. o + 1 \in 1..Len(s) /\ s[o + 1] = c
    BY <1>1 DEF Here
  <1> QED  BY <1>1, <1>2 DEF At

(* All of s lies in s.                                                      *)
LEMMA HereAll ==
  ASSUME NEW s \in Seq(Char)
  PROVE  Here(s, 0, s)
  BY DEF Here

(* A string that is read ends behind its beginning, within the text.        *)
LEMMA StringBounds ==
  ASSUME NEW s \in Seq(Char), NEW p \in 1..(Len(s) + 1)
  PROVE  /\ ParseString(s, p).value \in Seq(Char)
         /\ ParseString(s, p).next \in p..(Len(s) + 1)
         /\ p <= Len(s) => ParseString(s, p).next > p
         /\ ParseString(s, p).ok => ParseString(s, p).next > p + 1
  <1>1. PICK M : MarksOf(M, s, p) /\ ParseString(s, p) = StringBy(s, p, M)
    BY MarksExist
  <1> DEFINE w == Len(s)
             closes == {n \in (p + 1)..w : s[n] = Quote /\ n \notin M}
             close == First(closes, 0)
             char(n) == CASE n \notin M /\ s[n] = Back -> <<>>
                          [] n \in M /\ s[n] = "n" -> <<Line>>
                          [] OTHER -> <<s[n]>>
             chars == [j \in 1..(close - p - 1) |-> char(p + j)]
             r == ParseString(s, p)
  <1>2. r = IF At(s, p) # Quote \/ close = 0 THEN NoString(s)
            ELSE [ok |-> TRUE, next |-> close + 1, value |-> FlattenSeq(chars)]
    BY <1>1, Zenon DEF StringBy
  <1>3. w \in Nat /\ p \in 1..(w + 1) /\ p \in Nat
    OBVIOUS
  <1>4. NoString(s) = [ok |-> FALSE, value |-> <<>>, next |-> w + 1]
    BY DEF NoString
  <1>8. <<>> \in Seq(Char) /\ Line \in Char /\ \A n \in 1..w : s[n] \in Char
    <2>1. Line \in Char
      BY InputsOK DEF Written
    <2>2. \A n \in 1..w : s[n] \in Char
      OBVIOUS
    <2> QED  BY <2>1, <2>2
  <1> HIDE DEF w, r
  <1>5. CASE At(s, p) # Quote \/ close = 0
    <2>1. r = [ok |-> FALSE, value |-> <<>>, next |-> w + 1]
      BY <1>2, <1>4, <1>5
    <2>2. w + 1 \in p..(w + 1) /\ (p <= w => w + 1 > p)
      BY <1>3
    <2> QED  BY <1>8, <2>1, <2>2 DEF r, w
  <1>6. CASE ~(At(s, p) # Quote \/ close = 0)
    <2>1. r = [ok |-> TRUE, next |-> close + 1, value |-> FlattenSeq(chars)]
      BY <1>2, <1>6
    <2>2. close \in (p + 1)..w
      <3>1. closes # {}
        BY <1>6 DEF First
      <3>2. closes \in SUBSET Nat
        BY <1>3
      <3>3. close \in closes
        <4> HIDE DEF closes
        <4> QED  BY <3>1, <3>2, FirstIs
      <3> QED  BY <3>3
    <2> DEFINE n == close - p - 1
    <2> HIDE DEF close
    <2>3. n \in Nat /\ \A j \in 1..n : p + j \in 1..w
      BY <1>3, <2>2
    <2>4. \A j \in 1..n : char(p + j) \in Seq(Char)
      <3> TAKE j \in 1..n
      <3>1. char(p + j) \in {<<>>, <<Line>>, <<s[p + j]>>}
        OBVIOUS
      <3> DEFINE x == s[p + j]
      <3>2. x \in Char
        BY <1>8, <2>3
      <3> HIDE DEF char, x
      <3> DEFINE v == char(p + j)
      <3>3. v \in {<<>>, <<Line>>, <<x>>}
        BY <3>1 DEF x
      <3> HIDE DEF v
      <3>4. \A y \in Char : <<y>> \in Seq(Char)
        OBVIOUS
      <3>5. v \in Seq(Char)
        BY <1>8, <3>2, <3>3, <3>4
      <3> QED  BY <3>5 DEF v
    <2>5. FlattenSeq(chars) \in Seq(Char)
      <3> DEFINE S == Seq(Char)
      <3>1. chars = [j \in 1..n |-> char(p + j)]
        OBVIOUS
      <3> HIDE DEF chars, char, n, S
      <3>2. chars \in [1..n -> S]
        BY <2>4, <3>1 DEF S
      <3>3. chars \in Seq(S) /\ Len(chars) = n
        BY <2>3, <3>2
      <3>4. chars \in Seq(Seq(Char))
        BY <3>3 DEF S
      <3>5. PICK f \in [0..Len(chars) -> Seq(Char)] : FlattenSeq(chars) = f[Len(chars)]
        BY <3>4, FlattenGrows
      <3>6. n \in 0..n
        BY <2>3
      <3> QED  BY <3>3, <3>5, <3>6
    <2> HIDE DEF chars
    <2>6. close + 1 \in p..(w + 1) /\ close + 1 > p + 1 /\ close + 1 > p
      BY <1>3, <2>2
    <2> QED  BY <2>1, <2>5, <2>6 DEF r, w
  <1> QED  BY <1>5, <1>6

\* The function f on the places to b, computed from the back.
FromBack(f, b, e, stop, step, next) ==
  f = [p \in 1..b |-> IF p \in stop THEN e ELSE step[p][f[next[p]]]]

(* A function that is computed from the back exists.                        *)
LEMMA WalkExists ==
  ASSUME NEW S, NEW b \in Nat, NEW e \in S, NEW stop, NEW next,
         \A p \in 1..b : p \notin stop => next[p] \in (p + 1)..b,
         NEW step \in [1..b -> [S -> S]]
  PROVE  \E f \in [1..b -> S] : FromBack(f, b, e, stop, step, next)
  <1> DEFINE E(f, c) == [p \in c..b |-> IF p \in stop THEN e ELSE step[p][f[next[p]]]]
             Built(c) == \E f \in [c..b -> S] : f = E(f, c)
             T == {d \in 0..b : Built(b + 1 - d)}
  <1>1. 0 \in T
    <2>1. b + 1 - 0 = b + 1 /\ (b + 1)..b = {} /\ 0 \in 0..b
      OBVIOUS
    <2> DEFINE f == [p \in (b + 1)..b |-> e]
    <2>2. f \in [(b + 1)..b -> S] /\ f = E(f, b + 1)
      BY <2>1
    <2> QED  BY <2>1, <2>2
  <1>2. ASSUME NEW d \in 1..b, d - 1 \in T PROVE d \in T
    <2> DEFINE c == b + 1 - d
    <2>1. c \in 1..b /\ b + 1 - (d - 1) = c + 1 /\ d \in 0..b
      OBVIOUS
    <2>2. PICK f \in [(c + 1)..b -> S] : f = E(f, c + 1)
      BY <1>2, <2>1
    <2> DEFINE x == IF c \in stop THEN e ELSE step[c][f[next[c]]]
               g == [p \in c..b |-> IF p = c THEN x ELSE f[p]]
    <2>5. \A p \in c..b : p \notin stop => next[p] \in (p + 1)..b /\ next[p] \in (c + 1)..b
      <3> HIDE DEF c
      <3> TAKE p \in c..b
      <3> HAVE p \notin stop
      <3>1. p \in 1..b
        BY <2>1
      <3>2. next[p] \in (p + 1)..b
        BY <3>1
      <3> DEFINE y == next[p]
      <3> HIDE DEF y
      <3>3. y \in (p + 1)..b
        BY <3>2 DEF y
      <3>4. y \in (c + 1)..b
        BY <2>1, <3>3
      <3> QED  BY <3>3, <3>4 DEF y
    <2> HIDE DEF c
    <2>3. x \in S
      <3>1. CASE c \in stop
        BY <3>1
      <3>2. CASE c \notin stop
        <4>1. next[c] \in (c + 1)..b
          BY <2>1, <2>5, <3>2
        <4>2. f[next[c]] \in S
          BY <2>2, <4>1
        <4> QED  BY <2>1, <3>2, <4>2
      <3> QED  BY <3>1, <3>2
    <2>4. g \in [c..b -> S]
      <3> HIDE DEF x
      <3>1. \A p \in c..b : p # c => p \in (c + 1)..b
        BY <2>1
      <3> QED  BY <2>2, <2>3, <3>1
    <2>6. \A p \in c..b : g[p] = IF p \in stop THEN e ELSE step[p][g[next[p]]]
      <3> TAKE p \in c..b
      <3>1. p \notin stop => next[p] \in c..b /\ next[p] # c /\ g[next[p]] = f[next[p]]
        <4> DEFINE y == next[p]
        <4>1. p \notin stop => y \in (c + 1)..b
          BY <2>5
        <4> HIDE DEF y, x
        <4>2. p \notin stop => y \in c..b /\ y # c
          BY <2>1, <4>1
        <4>3. p \notin stop => g[y] = f[y]
          BY <4>2
        <4> QED  BY <4>2, <4>3 DEF y
      <3>2. CASE p = c
        <4>1. g[p] = x
          BY <3>2
        <4> HIDE DEF g
        <4> QED  BY <3>1, <3>2, <4>1
      <3>3. CASE p # c
        <4>1. p \in (c + 1)..b /\ g[p] = f[p]
          BY <2>1, <3>3
        <4>2. f[p] = IF p \in stop THEN e ELSE step[p][f[next[p]]]
          BY <2>2, <4>1
        <4> HIDE DEF g
        <4> QED  BY <3>1, <4>1, <4>2
      <3> QED  BY <3>2, <3>3
    <2>7. g = E(g, c)
      <3>1. g = [p \in c..b |-> g[p]]
        OBVIOUS
      <3> HIDE DEF g
      <3> QED  BY <2>6, <3>1
    <2>8. Built(c)
      <3> HIDE DEF g
      <3> QED  BY <2>4, <2>7
    <2> QED  BY <2>1, <2>8 DEF c
  <1>3. T \in SUBSET (0..b)
    OBVIOUS
  <1> HIDE DEF T
  <1>4. b \in T
    <2>1. T = 0..b
      BY <1>1, <1>2, <1>3, NoneMissing
    <2> QED  BY <2>1
  <1>5. Built(1)
    <2>1. b + 1 - b = 1
      OBVIOUS
    <2>2. Built(b + 1 - b)
      BY <1>4 DEF T
    <2> HIDE DEF Built
    <2> QED  BY <2>1, <2>2
  <1> QED  BY <1>5 DEF FromBack

\* The parts of jsonParseArray, and its walk from item to item.
ItemEnd(s, p) ==
  CASE s[p] = Quote -> ParseString(s, p).next - 1
    [] s[p] = "{" -> ObjectEnd(s, p)
    [] OTHER -> WordEnd(s, p, "]")

Item(s, p) ==
  CASE s[p] # Quote -> <<SubSeq(s, p, ItemEnd(s, p))>>
    [] s[p] = Quote /\ ParseString(s, p).ok -> <<Quoted(ParseString(s, p).value)>>
    [] OTHER -> <<>>

ItemNext(s, p) == SkipComma(s, ItemEnd(s, p) + 1)

NoItem(s, p) == At(s, p) \in {"]", NoChar}

ItemsAt(f, s) ==
  \A p \in 1..(Len(s) + 1) :
    f[p] = IF NoItem(s, p) THEN <<>> ELSE Item(s, p) \o f[ItemNext(s, p)]

\* The parts of jsonParseObject, and its walk from member to member.
MemberFrom(s, p) == ParseString(s, p).next + 1

MemberEnd(s, p) ==
  IF At(s, MemberFrom(s, p)) = Quote THEN ParseString(s, MemberFrom(s, p)).next - 1
  ELSE WordEnd(s, MemberFrom(s, p), "}")

Member(s, p) ==
  CASE ~(At(s, MemberFrom(s, p)) = Quote) ->
         <<<<ParseString(s, p).value, SubSeq(s, MemberFrom(s, p), MemberEnd(s, p))>>>>
    [] At(s, MemberFrom(s, p)) = Quote /\ ParseString(s, MemberFrom(s, p)).ok ->
         <<<<ParseString(s, p).value, ParseString(s, MemberFrom(s, p)).value>>>>
    [] OTHER -> <<>>

MemberNext(s, p) == SkipComma(s, MemberEnd(s, p) + 1)

NoMember(s, p) == ~ParseString(s, p).ok \/ At(s, ParseString(s, p).next) # ":"

MembersAt(f, s) ==
  \A p \in 1..(Len(s) + 1) :
    f[p] = IF NoMember(s, p) THEN <<>> ELSE Member(s, p) \o f[MemberNext(s, p)]

\* Characters under names: the provers do not take them all as they are.
Comma == ","
Colon == ":"
OpenBrace == "{"
ShutBrace == "}"
OpenBracket == "["
ShutBracket == "]"

(* What is at a place.                                                      *)
LEMMA AtIs ==
  ASSUME NEW s \in Seq(Char), NEW p \in Nat
  PROVE  /\ p \in 1..Len(s) => At(s, p) = s[p]
         /\ p \notin 1..Len(s) => At(s, p) = NoChar
  <1>1. DOMAIN s = 1..Len(s)
    OBVIOUS
  <1> QED  BY <1>1 DEF At

(* The first number of a set, or another one.                               *)
LEMMA FirstIn ==
  ASSUME NEW S \in SUBSET Nat, NEW d
  PROVE  First(S, d) \in S \cup {d}
  <1>1. CASE S = {}
    BY <1>1 DEF First
  <1>2. CASE S # {}
    BY <1>2, FirstIs
  <1> QED  BY <1>1, <1>2

(* A comma is skipped within the text.                                      *)
LEMMA SkipStays ==
  ASSUME NEW s \in Seq(Char), NEW x \in 1..(Len(s) + 1)
  PROVE  /\ SkipComma(s, x) \in x..(Len(s) + 1)
         /\ x <= Len(s) /\ s[x] = Comma => SkipComma(s, x) = x + 1
         /\ At(s, x) # Comma => SkipComma(s, x) = x
  <1> DEFINE w == Len(s)
             r == SkipComma(s, x)
  <1>1. w \in Nat /\ x \in 1..(w + 1) /\ x \in Nat
    OBVIOUS
  <1>2. (x \in 1..w => At(s, x) = s[x]) /\ (x \notin 1..w => At(s, x) # Comma)
    <2>1. NoChar # Comma
      BY Zenon DEF NoChar, Comma
    <2> QED  BY <1>1, <2>1, AtIs
  <1>3. r = IF At(s, x) = Comma THEN x + 1 ELSE x
    BY Zenon DEF SkipComma, Comma
  <1> HIDE DEF w, r
  <1>4. /\ r \in x..(w + 1) /\ (x <= w /\ s[x] = Comma => r = x + 1)
        /\ (At(s, x) # Comma => r = x)
    <2>1. CASE At(s, x) = Comma
      <3>1. x \in 1..w /\ r = x + 1
        BY <1>2, <1>3, <2>1
      <3> QED  BY <1>1, <2>1, <3>1
    <2>2. CASE At(s, x) # Comma
      <3>1. x \in x..(w + 1)
        BY <1>1
      <3>2. x <= w => x \in 1..w
        BY <1>1
      <3>3. r = x
        BY <1>3, <2>2
      <3> QED  BY <1>2, <2>2, <3>1, <3>2, <3>3
    <2> QED  BY <2>1, <2>2
  <1> QED  BY <1>4 DEF w, r

(* A word ends within the text.                                             *)
LEMMA WordStays ==
  ASSUME NEW s \in Seq(Char), NEW p \in 1..(Len(s) + 1), NEW c
  PROVE  /\ WordEnd(s, p, c) \in Int /\ WordEnd(s, p, c) + 1 \in p..(Len(s) + 1)
         /\ p <= Len(s) /\ s[p] \notin {",", c} => WordEnd(s, p, c) + 1 # p
  <1> DEFINE S == {n \in p..Len(s) : s[n] \in {",", c}}
             f == First(S, Len(s) + 1)
             w == Len(s)
  <1>1. w \in Nat /\ p \in 1..(w + 1) /\ p \in Nat /\ S \in SUBSET (p..w)
    <2>1. w \in Nat /\ p \in 1..(w + 1)
      OBVIOUS
    <2>2. S \in SUBSET (p..w)
      OBVIOUS
    <2> HIDE DEF w, S
    <2> QED  BY <2>1, <2>2
  <1>2. f \in S \cup {w + 1}
    <2>1. S \in SUBSET Nat
      <3> HIDE DEF S, w
      <3> QED  BY <1>1
    <2> HIDE DEF S
    <2> QED  BY <2>1, FirstIn
  <1>3. p \in S => s[p] \in {",", c}
    OBVIOUS
  <1>4. WordEnd(s, p, c) = f - 1
    BY DEF WordEnd
  <1> HIDE DEF S, f, w
  <1>5. f \in p..(w + 1) /\ f \in Int
    BY <1>1, <1>2
  <1>6. (f - 1) + 1 = f
    BY <1>5
  <1>7. p <= w /\ s[p] \notin {",", c} => f # p
    <2>1. p <= w => w + 1 # p
      BY <1>1
    <2> QED  BY <1>2, <1>3, <2>1
  <1>8. f - 1 \in Int
    BY <1>5
  <1> QED  BY <1>4, <1>5, <1>6, <1>7, <1>8 DEF w

(* An object ends within the text.                                          *)
LEMMA ObjectStays ==
  ASSUME NEW s \in Seq(Char), NEW p \in 1..Len(s)
  PROVE  ObjectEnd(s, p) \in p..Len(s)
  <1> DEFINE D(f) == [n \in (p - 1)..Len(s) |->
                       IF n < p THEN 0
                       ELSE f[n - 1] + (CASE s[n] = "{" -> 1 [] s[n] = "}" -> -1 [] OTHER -> 0)]
             depth == CHOOSE f : f = D(f)
             S == {n \in p..Len(s) : depth[n] = 0}
  <1>1. ObjectEnd(s, p) = First(S, Len(s))
    BY Zenon DEF ObjectEnd
  <1> HIDE DEF depth
  <1>2. S \in SUBSET (p..Len(s)) /\ Len(s) \in p..Len(s)
    OBVIOUS
  <1>3. S \in SUBSET Nat
    BY <1>2
  <1> HIDE DEF S
  <1>4. First(S, Len(s)) \in S \cup {Len(s)}
    BY <1>3, FirstIn
  <1> QED  BY <1>1, <1>2, <1>4

(* Parts of a text are texts.                                               *)
LEMMA SubText ==
  ASSUME NEW s \in Seq(Char), NEW m \in Int, NEW n \in Int, m > 0, n <= Len(s)
  PROVE  SubSeq(s, m, n) \in Seq(Char)
  <1>1. \A i \in m..n : s[i] \in Char
    OBVIOUS
  <1> QED  BY <1>1, SubSeqProperties

(* A quoted text is a text.                                                 *)
LEMMA QuotedText ==
  ASSUME NEW t \in Seq(Char)
  PROVE  Quoted(t) \in Seq(Char)
  <1>1. Escape(t) \in Seq(Char)
    BY EscapedLies DEF EscapedAt, LiesAt
  <1> QED  BY <1>1, QuotedIs

(* jsonParseArray goes forward, within the text.                            *)
LEMMA ItemStays ==
  ASSUME NEW s \in Seq(Char), NEW p \in 1..Len(s), s[p] # "]"
  PROVE  /\ ItemNext(s, p) \in (p + 1)..(Len(s) + 1)
         /\ Item(s, p) \in Seq(Seq(Char))
  <1> DEFINE w == Len(s)
             e == ItemEnd(s, p)
             r == ParseString(s, p)
             n == ItemNext(s, p)
             v == Item(s, p)
  <1>1. w \in Nat /\ p \in Nat /\ p >= 1 /\ p <= w /\ p \in 1..(w + 1)
    OBVIOUS
  <1>2. r.value \in Seq(Char) /\ r.next \in p..(w + 1) /\ r.next > p
    BY <1>1, StringBounds
  <1>3. n = SkipComma(s, e + 1)
    BY DEF ItemNext
  <1>4. \A x \in 1..(w + 1) : /\ SkipComma(s, x) \in x..(w + 1)
                              /\ x <= w /\ s[x] = Comma => SkipComma(s, x) = x + 1
    BY SkipStays
  <1>5. \A y \in Seq(Char) : <<y>> \in Seq(Seq(Char))
    <2> DEFINE S == Seq(Char)
    <2> HIDE DEF S
    <2>1. \A y \in S : <<y>> \in Seq(S)
      OBVIOUS
    <2> QED  BY <2>1 DEF S
  <1>6. \A y \in 1..(w + 1) : y > p => SkipComma(s, y) \in (p + 1)..(w + 1)
    <2> TAKE y \in 1..(w + 1)
    <2> HAVE y > p
    <2> DEFINE z == SkipComma(s, y)
    <2>1. z \in y..(w + 1)
      BY <1>4
    <2> HIDE DEF z, w
    <2>2. z \in (p + 1)..(w + 1)
      BY <1>1, <2>1
    <2> QED  BY <2>2 DEF z
  <1>7. \A y \in Int : y <= w => <<SubSeq(s, p, y)>> \in Seq(Seq(Char))
    BY <1>1, <1>5, SubText
  <1>8. CASE s[p] = Quote
    <2>1. e = r.next - 1
      BY <1>8 DEF ItemEnd, Quote
    <2>2. e + 1 \in 1..(w + 1) /\ e + 1 > p
      BY <1>1, <1>2, <2>1
    <2>3. v \in {<<>>, <<Quoted(r.value)>>}
      BY <1>8 DEF Item
    <2>5. Quoted(r.value) \in Seq(Char)
      BY <1>2, QuotedText
    <2>6. <<Quoted(r.value)>> \in Seq(Seq(Char)) /\ <<>> \in Seq(Seq(Char))
      BY <1>5, <2>5
    <2>4. v \in Seq(Seq(Char))
      <3> HIDE DEF v
      <3> QED  BY <2>3, <2>6
    <2> QED  BY <1>3, <1>6, <2>2, <2>4
  <1>9. CASE s[p] # Quote
    <2>1. v = <<SubSeq(s, p, e)>>
      BY <1>9 DEF Item
    <2>2. CASE s[p] = "{"
      <3>1. e = ObjectEnd(s, p)
        BY <2>2 DEF ItemEnd, Quote
      <3>2. e \in p..w
        BY <3>1, ObjectStays
      <3>3. e + 1 \in 1..(w + 1) /\ e + 1 > p /\ e \in Int /\ e <= w
        BY <1>1, <3>2
      <3> HIDE DEF e
      <3> QED  BY <1>3, <1>6, <1>7, <2>1, <3>3
    <2>3. CASE s[p] # "{"
      <3>1. e = WordEnd(s, p, "]")
        BY <1>9, <2>3 DEF ItemEnd
      <3>2. e \in Int /\ e + 1 \in p..(w + 1) /\ (s[p] # Comma => e + 1 # p)
        <4>1. /\ WordEnd(s, p, "]") \in Int /\ WordEnd(s, p, "]") + 1 \in p..(w + 1)
              /\ s[p] \notin {",", "]"} => WordEnd(s, p, "]") + 1 # p
          BY <1>1, WordStays
        <4> QED  BY <3>1, <4>1 DEF Comma
      <3> HIDE DEF e, n, v, w
      <3>6. e \in Int /\ e + 1 \in p..(w + 1)
        BY <3>2
      <3>3. e <= w /\ e + 1 \in 1..(w + 1)
        BY <1>1, <3>6
      <3>4. n \in (p + 1)..(w + 1)
        <4>1. CASE e + 1 = p
          BY <1>1, <1>3, <1>4, <3>2, <4>1
        <4>2. CASE e + 1 # p
          <5>1. e + 1 > p
            BY <1>1, <3>6, <4>2
          <5> QED  BY <1>3, <1>6, <3>3, <5>1
        <4> QED  BY <4>1, <4>2
      <3>5. v \in Seq(Seq(Char))
        BY <1>7, <2>1, <3>2, <3>3
      <3> QED  BY <3>4, <3>5 DEF n, v, w
    <2> QED  BY <2>2, <2>3
  <1> QED  BY <1>8, <1>9

(* The places and the texts of a member are within the text.                *)
LEMMA MemberStays ==
  ASSUME NEW s \in Seq(Char), NEW p \in 1..(Len(s) + 1), ~NoMember(s, p)
  PROVE  /\ MemberNext(s, p) \in (p + 1)..(Len(s) + 1)
         /\ Member(s, p) \in Seq(Seq(Char) \X Seq(Char))
  <1> DEFINE w == Len(s)
             name == ParseString(s, p)
             from == MemberFrom(s, p)
             e == MemberEnd(s, p)
             n == MemberNext(s, p)
             v == Member(s, p)
             S == Seq(Char)
             colon == ":"
  <1>1. w \in Nat /\ p \in Nat /\ p >= 1 /\ p <= w + 1
    OBVIOUS
  <1>2. name.value \in S /\ name.next \in p..(w + 1) /\ name.next > p + 1
    <2>1. name.ok
      BY DEF NoMember
    <2> QED  BY <2>1, StringBounds
  <1>3. name.next \in 1..w
    <2>1. At(s, name.next) = colon /\ colon # NoChar
      <3>1. At(s, name.next) = colon
        BY DEF NoMember
      <3>2. colon # NoChar
        BY Zenon DEF NoChar
      <3> QED  BY <3>1, <3>2
    <2> DEFINE y == name.next
    <2>2. y \in Nat /\ At(s, y) # NoChar
      BY <1>1, <1>2, <2>1
    <2> HIDE DEF y
    <2>3. y \in 1..w
      BY <2>2, AtIs
    <2> QED  BY <2>3 DEF y
  <1>4. from = name.next + 1
    BY DEF MemberFrom
  <1>5. n = SkipComma(s, e + 1)
    BY DEF MemberNext
  <1>6. \A x \in 1..(w + 1) : SkipComma(s, x) \in x..(w + 1)
    BY SkipStays
  <1>7. \A x, y \in S : <<<<x, y>>>> \in Seq(S \X S)
    <2> HIDE DEF S
    <2>1. \A z \in S \X S : <<z>> \in Seq(S \X S)
      OBVIOUS
    <2> QED  BY <2>1
  <1>8. \A y \in Int : y <= w => SubSeq(s, from, y) \in S
    <2>1. from \in Int /\ from > 0
      BY <1>3, <1>4
    <2> HIDE DEF from
    <2> QED  BY <2>1, SubText
  <1> HIDE DEF w, name, from
  <1>9. from \in 1..(w + 1) /\ from > p /\ from \in Nat
    BY <1>1, <1>2, <1>3, <1>4
  <1>10. e \in Int /\ e + 1 \in from..(w + 1) /\ v \in Seq(S \X S)
    <2> DEFINE r == ParseString(s, from)
    <2>1. CASE At(s, from) = Quote
      <3>1. e = r.next - 1
        BY <2>1 DEF MemberEnd, from
      <3>2. r.value \in S /\ r.next \in from..(w + 1)
        BY <1>9, StringBounds DEF w
      <3>3. v \in {<<>>, <<<<name.value, r.value>>>>}
        BY <2>1 DEF Member, name, from
      <3>4. <<>> \in Seq(S \X S) /\ <<<<name.value, r.value>>>> \in Seq(S \X S)
        BY <1>2, <1>7, <3>2
      <3>5. v \in Seq(S \X S)
        <4> HIDE DEF v, r, S
        <4> QED  BY <3>3, <3>4
      <3> HIDE DEF r, v, e
      <3>6. e \in Int /\ e + 1 \in from..(w + 1)
        BY <1>9, <3>1, <3>2
      <3> QED  BY <3>5, <3>6
    <2>2. CASE At(s, from) # Quote
      <3> DEFINE brace == "}"
      <3>1. e = WordEnd(s, from, brace)
        BY <2>2, Zenon DEF MemberEnd, from
      <3> HIDE DEF brace
      <3>2. e \in Int /\ e + 1 \in from..(w + 1)
        <4>1. /\ WordEnd(s, from, brace) \in Int
              /\ WordEnd(s, from, brace) + 1 \in from..(w + 1)
          BY <1>9, WordStays DEF w
        <4> QED  BY <3>1, <4>1
      <3>3. v = <<<<name.value, SubSeq(s, from, e)>>>>
        BY <2>2, Zenon DEF Member, name, from
      <3> HIDE DEF e, v, S
      <3>4. e <= w
        BY <1>1, <1>9, <3>2
      <3>5. SubSeq(s, from, e) \in S
        BY <1>8, <3>2, <3>4
      <3>6. v \in Seq(S \X S)
        BY <1>2, <1>7, <3>3, <3>5
      <3> QED  BY <3>2, <3>6
    <2> QED  BY <2>1, <2>2
  <1> HIDE DEF e, n, v
  <1>11. n \in (p + 1)..(w + 1)
    <2>1. e + 1 \in 1..(w + 1) /\ e + 1 > p
      BY <1>1, <1>9, <1>10
    <2>2. n \in (e + 1)..(w + 1)
      BY <1>5, <1>6, <2>1
    <2> QED  BY <1>1, <1>10, <2>1, <2>2
  <1> QED  BY <1>10, <1>11 DEF n, v, w, S

\* The same for a walk that collects parts.
Walk(f, b, stop, part, next) ==
  f = [p \in 1..b |-> IF p \in stop THEN <<>> ELSE part[p] \o f[next[p]]]

(* FromBack through a text exist.                                              *)
LEMMA TextWalk ==
  ASSUME NEW T, NEW b \in Nat, NEW stop, NEW next, NEW part,
         \A p \in 1..b : p \notin stop => next[p] \in (p + 1)..b /\ part[p] \in Seq(T)
  PROVE  \E f : Walk(f, b, stop, part, next)
  <1> DEFINE S == Seq(T)
             cat(x, y) == x \o y
             z == <<>>
             step == [p \in 1..b |-> [x \in S |-> IF p \in stop THEN x ELSE cat(part[p], x)]]
  <1>1. z \in S /\ \A x, y \in S : cat(x, y) \in S
    OBVIOUS
  <1>2. \A p \in 1..b : p \notin stop => next[p] \in (p + 1)..b /\ part[p] \in S
    OBVIOUS
  <1> HIDE DEF S, cat, z
  <1>3. step \in [1..b -> [S -> S]]
    <2>1. \A p \in 1..b : \A x \in S : (IF p \in stop THEN x ELSE cat(part[p], x)) \in S
      BY <1>1, <1>2
    <2> QED  BY <2>1
  <1>4. \A p \in 1..b : \A x \in S : p \notin stop => step[p][x] = cat(part[p], x)
    OBVIOUS
  <1> HIDE DEF step
  <1>8. PICK f \in [1..b -> S] : FromBack(f, b, z, stop, step, next)
    BY <1>1, <1>2, <1>3, WalkExists
  <1>5. f \in [1..b -> S] /\ f = [p \in 1..b |-> IF p \in stop THEN z ELSE step[p][f[next[p]]]]
    BY <1>8 DEF FromBack
  <1>6. \A p \in 1..b : p \notin stop => step[p][f[next[p]]] = cat(part[p], f[next[p]])
    <2> TAKE p \in 1..b
    <2> HAVE p \notin stop
    <2> DEFINE y == next[p]
    <2>1. y \in (p + 1)..b
      BY <1>2
    <2> HIDE DEF y
    <2>2. y \in 1..b
      BY <2>1
    <2>3. f[y] \in S
      BY <1>5, <2>2
    <2> QED  BY <1>4, <2>3 DEF y
  <1>7. f = [p \in 1..b |-> IF p \in stop THEN z ELSE cat(part[p], f[next[p]])]
    BY <1>5, <1>6
  <1> QED  BY <1>7, Zenon DEF z, cat, Walk

(* jsonParseArray walks from item to item.                                  *)
LEMMA ArrayWalk ==
  ASSUME NEW s \in Seq(Char), At(s, 1) = OpenBracket
  PROVE  \E f : ItemsAt(f, s) /\ ParseArray(s) = f[2]
  <1> DEFINE b == Len(s) + 1
             F(f) == [p \in 1..b |-> IF NoItem(s, p) THEN <<>> ELSE Item(s, p) \o f[ItemNext(s, p)]]
             fix == CHOOSE f : f = F(f)
             stop == {p \in 1..b : NoItem(s, p)}
             next == [p \in 1..b |-> ItemNext(s, p)]
             part == [p \in 1..b |-> Item(s, p)]
  <1>1. ParseArray(s) = fix[2]
    BY Zenon DEF ParseArray, Item, ItemEnd, ItemNext, NoItem, OpenBracket
  <1>2. \A p \in 1..b : p \notin stop => next[p] \in (p + 1)..b /\ part[p] \in Seq(Seq(Char))
    <2> TAKE p \in 1..b
    <2> HAVE p \notin stop
    <2> DEFINE end == "]"
    <2>1. At(s, p) # end /\ At(s, p) # NoChar
      BY Zenon DEF NoItem
    <2> HIDE DEF end
    <2>2. p \in 1..Len(s)
      BY <2>1, AtIs
    <2>3. s[p] # end
      BY <2>1, <2>2, AtIs
    <2>4. ItemNext(s, p) \in (p + 1)..b /\ Item(s, p) \in Seq(Seq(Char))
      BY <2>2, <2>3, ItemStays DEF end
    <2> QED  BY <2>4
  <1>3. b \in Nat
    OBVIOUS
  <1>4. \E f : Walk(f, b, stop, part, next)
    <2> DEFINE T == Seq(Char)
    <2> HIDE DEF b, stop, next, part, T
    <2>1. \A p \in 1..b : p \notin stop => next[p] \in (p + 1)..b /\ part[p] \in Seq(T)
      BY <1>2 DEF T
    <2> QED  BY <1>3, <2>1, TextWalk
  <1>5. PICK f : Walk(f, b, stop, part, next)
    BY <1>4
  <1>6. f = F(f)
    BY <1>5, Zenon DEF Walk
  <1>7. fix = F(fix)
    BY <1>6, Zenon
  <1>8. ItemsAt(fix, s)
    <2> HIDE DEF fix
    <2> QED  BY <1>7, Zenon DEF ItemsAt
  <1> QED  BY <1>1, <1>8

(* jsonParseObject walks from member to member.                             *)
LEMMA ObjectWalk ==
  ASSUME NEW s \in Seq(Char), At(s, 1) = OpenBrace
  PROVE  \E f : MembersAt(f, s) /\ ParseObject(s) = f[2]
  <1> DEFINE b == Len(s) + 1
             F(f) == [p \in 1..b |-> IF NoMember(s, p) THEN <<>> ELSE Member(s, p) \o f[MemberNext(s, p)]]
             fix == CHOOSE f : f = F(f)
             stop == {p \in 1..b : NoMember(s, p)}
             next == [p \in 1..b |-> MemberNext(s, p)]
             part == [p \in 1..b |-> Member(s, p)]
  <1>1. ParseObject(s) = fix[2]
    BY Zenon DEF ParseObject, Member, MemberEnd, MemberFrom, MemberNext, NoMember, OpenBrace
  <1>2. \A p \in 1..b : p \notin stop =>
          next[p] \in (p + 1)..b /\ part[p] \in Seq(Seq(Char) \X Seq(Char))
    BY MemberStays
  <1>3. b \in Nat
    OBVIOUS
  <1>4. \E f : Walk(f, b, stop, part, next)
    <2> DEFINE T == Seq(Char) \X Seq(Char)
    <2> HIDE DEF b, stop, next, part, T
    <2>1. \A p \in 1..b : p \notin stop => next[p] \in (p + 1)..b /\ part[p] \in Seq(T)
      BY <1>2 DEF T
    <2> QED  BY <1>3, <2>1, TextWalk
  <1>5. PICK f : Walk(f, b, stop, part, next)
    BY <1>4
  <1>6. f = F(f)
    BY <1>5, Zenon DEF Walk
  <1>7. fix = F(fix)
    BY <1>6, Zenon
  <1>8. MembersAt(fix, s)
    <2> HIDE DEF fix
    <2> QED  BY <1>7, Zenon DEF MembersAt
  <1> QED  BY <1>1, <1>8

\* How deep in braces each place of a text is, and texts that come back to
\* where they began: without leaving it, or not before their end.
Turn(c) == CASE c = "{" -> 1 [] c = "}" -> -1 [] OTHER -> 0

Depths(d, m) ==
  /\ d \in [0..Len(m) -> Int] /\ d[0] = 0 /\ d[Len(m)] = 0
  /\ \A n \in 1..Len(m) : d[n] = d[n - 1] + Turn(m[n])

Level(m) == m \in Seq(Char) /\ \E d : Depths(d, m) /\ \A n \in 0..Len(m) : d[n] >= 0

Closed(m) ==
  /\ m \in Seq(Char) /\ Len(m) > 0 /\ m[1] = OpenBrace
  /\ \E d : Depths(d, m) /\ \A n \in 1..(Len(m) - 1) : d[n] > 0

(* What each character does to the depth.                                   *)
LEMMA TurnIs ==
  /\ Turn(OpenBrace) = 1 /\ Turn(ShutBrace) = -1 /\ OpenBrace # ShutBrace
  /\ \A c : Turn(c) \in Int /\ (c \notin {OpenBrace, ShutBrace} => Turn(c) = 0)
  <1>1. OpenBrace # ShutBrace
    BY Zenon DEF OpenBrace, ShutBrace
  <1>2. \A c : Turn(c) = CASE c = OpenBrace -> 1 [] c = ShutBrace -> -1 [] OTHER -> 0
    BY Zenon DEF Turn, OpenBrace, ShutBrace
  <1> QED  BY <1>1, <1>2

(* A text without braces.                                                   *)
LEMMA LevelPlain ==
  ASSUME NEW m \in Seq(Char), \A i \in 1..Len(m) : m[i] \notin {OpenBrace, ShutBrace}
  PROVE  Level(m)
  <1> DEFINE d == [n \in 0..Len(m) |-> 0]
  <1>1. Len(m) \in Nat
    OBVIOUS
  <1>2. \A n \in 1..Len(m) : Turn(m[n]) = 0
    BY TurnIs
  <1>3. Depths(d, m)
    <2>1. d \in [0..Len(m) -> Int] /\ d[0] = 0 /\ d[Len(m)] = 0
      BY <1>1
    <2>2. \A n \in 1..Len(m) : d[n] = 0 /\ d[n - 1] = 0
      BY <1>1
    <2> HIDE DEF d
    <2> QED  BY <1>2, <2>1, <2>2 DEF Depths
  <1> QED  BY <1>3 DEF Level

(* One level text behind another.                                           *)
LEMMA LevelJoin ==
  ASSUME NEW x, NEW y, Level(x), Level(y)
  PROVE  Level(x \o y)
  <1>1. PICK f : Depths(f, x) /\ \A n \in 0..Len(x) : f[n] >= 0
    BY DEF Level
  <1>2. PICK g : Depths(g, y) /\ \A n \in 0..Len(y) : g[n] >= 0
    BY DEF Level
  <1>3. x \in Seq(Char) /\ y \in Seq(Char)
    BY DEF Level
  <1> DEFINE z == x \o y
             a == Len(x)
             b == Len(y)
             d == [n \in 0..(a + b) |-> IF n <= a THEN f[n] ELSE g[n - a]]
  <1>4. /\ z \in Seq(Char) /\ Len(z) = a + b
        /\ \A i \in 1..(a + b) : z[i] = IF i <= a THEN x[i] ELSE y[i - a]
    BY <1>3, ConcatProperties
  <1>5. /\ a \in Nat /\ b \in Nat
        /\ f \in [0..a -> Int] /\ f[0] = 0 /\ f[a] = 0 /\ \A n \in 1..a : f[n] = f[n - 1] + Turn(x[n])
        /\ g \in [0..b -> Int] /\ g[0] = 0 /\ g[b] = 0 /\ \A n \in 1..b : g[n] = g[n - 1] + Turn(y[n])
        /\ \A n \in 0..a : f[n] >= 0
        /\ \A n \in 0..b : g[n] >= 0
    BY <1>1, <1>2, <1>3 DEF Depths
  <1> HIDE DEF z, a, b
  <1>6. d \in [0..(a + b) -> Int] /\ \A n \in 0..(a + b) : d[n] >= 0
    <2>1. \A n \in 0..(a + b) : ~(n <= a) => n - a \in 0..b
      BY <1>5
    <2>2. \A n \in 0..(a + b) : n <= a => n \in 0..a
      BY <1>5
    <2>3. \A n \in 0..(a + b) : /\ (IF n <= a THEN f[n] ELSE g[n - a]) \in Int
                                /\ (IF n <= a THEN f[n] ELSE g[n - a]) >= 0
      BY <1>5, <2>1, <2>2
    <2> QED  BY <2>3
  <1>7. d[0] = 0 /\ d[a + b] = 0
    <2>1. 0 \in 0..(a + b) /\ 0 <= a /\ a + b \in 0..(a + b) /\ (a + b <= a => b = 0 /\ a + b = a) /\ (a + b) - a = b
      BY <1>5
    <2> QED  BY <1>5, <2>1
  <1>8. \A n \in 1..(a + b) : d[n] = d[n - 1] + Turn(z[n])
    <2> TAKE n \in 1..(a + b)
    <2>1. n \in 0..(a + b) /\ n - 1 \in 0..(a + b)
      BY <1>5
    <2>2. CASE n <= a
      <3>1. n \in 1..a /\ n - 1 <= a
        BY <1>5, <2>2
      <3>2. d[n] = f[n] /\ d[n - 1] = f[n - 1] /\ z[n] = x[n]
        BY <1>4, <2>1, <2>2, <3>1
      <3> HIDE DEF d
      <3> QED  BY <1>5, <3>1, <3>2
    <2>3. CASE ~(n <= a)
      <3>1. n - a \in 1..b /\ (n - 1) - a = (n - a) - 1
        BY <1>5, <2>3
      <3>2. d[n] = g[n - a] /\ z[n] = y[n - a]
        BY <1>4, <2>1, <2>3
      <3>3. d[n - 1] = g[(n - a) - 1]
        <4>1. CASE n - 1 <= a
          <5>1. n - 1 = a /\ (n - a) - 1 = 0
            BY <1>5, <2>3, <4>1
          <5> QED  BY <1>5, <2>1, <4>1, <5>1
        <4>2. CASE ~(n - 1 <= a)
          BY <2>1, <3>1, <4>2
        <4> QED  BY <4>1, <4>2
      <3> HIDE DEF d
      <3>4. g[n - a] = g[(n - a) - 1] + Turn(y[n - a])
        BY <1>5, <3>1
      <3> QED  BY <3>2, <3>3, <3>4
    <2> QED  BY <2>2, <2>3
  <1>9. Depths(d, z) /\ \A n \in 0..Len(z) : d[n] >= 0
    <2> HIDE DEF d
    <2> QED  BY <1>4, <1>6, <1>7, <1>8 DEF Depths
  <1> QED  BY <1>4, <1>9 DEF Level, z

(* A level text in braces.                                                  *)
LEMMA LevelWrap ==
  ASSUME NEW m, Level(m)
  PROVE  Closed(<<OpenBrace>> \o m \o <<ShutBrace>>)
  <1> DEFINE u == <<OpenBrace>>
             v == <<ShutBrace>>
             um == u \o m
             r == um \o v
             k == Len(m)
  <1>1. PICK f : Depths(f, m) /\ \A n \in 0..k : f[n] >= 0
    BY DEF Level
  <1>2. m \in Seq(Char) /\ k \in Nat
    BY DEF Level
  <1>3. OpenBrace \in Char /\ ShutBrace \in Char
    BY InputsOK, Zenon DEF Written, OpenBrace, ShutBrace
  <1>4. u \in Seq(Char) /\ Len(u) = 1 /\ u[1] = OpenBrace
    BY <1>3
  <1> HIDE DEF u
  <1>5. /\ um \in Seq(Char) /\ Len(um) = 1 + k
        /\ \A i \in 1..(1 + k) : um[i] = IF i <= 1 THEN u[i] ELSE m[i - 1]
    <2>1. /\ um \in Seq(Char) /\ Len(um) = Len(u) + Len(m)
          /\ \A i \in 1..(Len(u) + Len(m)) : um[i] = IF i <= Len(u) THEN u[i] ELSE m[i - Len(u)]
      BY <1>2, <1>4, ConcatProperties
    <2> HIDE DEF um
    <2> QED  BY <1>2, <1>4, <2>1
  <1> HIDE DEF um
  <1>6. /\ r \in Seq(Char) /\ Len(r) = Len(um) + 1 /\ r[Len(um) + 1] = ShutBrace
        /\ \A i \in 1..Len(um) : r[i] = um[i]
    BY <1>3, <1>5, OneMore
  <1> HIDE DEF r
  <1>7. /\ k \in Nat
        /\ f \in [0..k -> Int] /\ f[0] = 0 /\ f[k] = 0 /\ \A n \in 1..k : f[n] = f[n - 1] + Turn(m[n])
        /\ \A n \in 0..k : f[n] >= 0
    BY <1>1, <1>2 DEF Depths
  <1> HIDE DEF k
  <1>8. /\ Len(r) = k + 2 /\ r[k + 2] = ShutBrace /\ r[1] = OpenBrace
        /\ \A i \in 1..k : r[1 + i] = m[i]
    <2>1. (1 + k) + 1 = k + 2 /\ 1 \in 1..(1 + k)
      BY <1>2
    <2>2. ASSUME NEW i \in 1..k PROVE r[1 + i] = m[i]
      <3>1. 1 + i \in 1..(1 + k) /\ ~(1 + i <= 1) /\ (1 + i) - 1 = i
        BY <1>2
      <3> QED  BY <1>5, <1>6, <3>1
    <2> QED  BY <1>4, <1>5, <1>6, <2>1, <2>2
  <1> DEFINE d == [n \in 0..(k + 2) |-> IF n \in 1..(k + 1) THEN f[n - 1] + 1 ELSE 0]
  <1>9. d \in [0..(k + 2) -> Int] /\ \A n \in 1..(k + 1) : d[n] = f[n - 1] + 1 /\ f[n - 1] \in Int /\ d[n] > 0
    <2>1. \A n \in 1..(k + 1) : n - 1 \in 0..k /\ n \in 0..(k + 2)
      BY <1>7
    <2>2. \A n \in 1..(k + 1) : f[n - 1] \in Int /\ f[n - 1] + 1 \in Int /\ f[n - 1] + 1 > 0
      BY <1>7, <2>1
    <2>3. \A n \in 0..(k + 2) : (IF n \in 1..(k + 1) THEN f[n - 1] + 1 ELSE 0) \in Int
      BY <2>2
    <2> QED  BY <2>1, <2>2, <2>3
  <1>10. d[0] = 0 /\ d[k + 2] = 0
    BY <1>7
  <1> HIDE DEF d
  <1>11. \A n \in 1..(k + 2) : d[n] = d[n - 1] + Turn(r[n])
    <2> TAKE n \in 1..(k + 2)
    <2>1. CASE n = 1
      <3>1. 1 \in 1..(k + 1) /\ n - 1 = 0
        BY <1>7, <2>1
      <3> QED  BY <1>7, <1>8, <1>9, <1>10, <2>1, <3>1, TurnIs
    <2>2. CASE n = k + 2
      <3>1. k + 1 \in 1..(k + 1) /\ n - 1 = k + 1 /\ (k + 1) - 1 = k
        BY <1>7, <2>2
      <3>2. d[n - 1] = 1
        BY <1>7, <1>9, <3>1
      <3> QED  BY <1>8, <1>10, <2>2, <3>2, TurnIs
    <2>3. CASE n # 1 /\ n # k + 2
      <3>1. n - 1 \in 1..k /\ n \in 1..(k + 1) /\ n - 1 \in 1..(k + 1) /\ 1 + (n - 1) = n
        BY <1>7, <2>3
      <3>2. d[n] = f[n - 1] + 1 /\ d[n - 1] = f[(n - 1) - 1] + 1 /\ r[n] = m[n - 1]
        BY <1>8, <1>9, <3>1
      <3>3. f[n - 1] = f[(n - 1) - 1] + Turn(m[n - 1]) /\ f[(n - 1) - 1] \in Int
        BY <1>7, <1>9, <3>1
      <3>4. Turn(m[n - 1]) \in Int
        BY TurnIs
      <3> DEFINE X == f[n - 1]
                 Y == f[(n - 1) - 1]
                 Z == Turn(m[n - 1])
      <3>5. X = Y + Z /\ Y \in Int /\ Z \in Int
        BY <3>3, <3>4
      <3> HIDE DEF X, Y, Z
      <3>6. X + 1 = (Y + 1) + Z
        BY <3>5
      <3> QED  BY <3>2, <3>6 DEF X, Y, Z
    <2> QED  BY <2>1, <2>2, <2>3
  <1>12. Depths(d, r) /\ \A n \in 1..(Len(r) - 1) : d[n] > 0
    <2>1. (k + 2) - 1 = k + 1
      BY <1>7
    <2> QED  BY <1>8, <1>9, <1>10, <1>11, <2>1 DEF Depths
  <1>13. Len(r) > 0
    BY <1>7, <1>8
  <1> QED  BY <1>6, <1>8, <1>12, <1>13 DEF Closed, r, um, u

(* The braces of jsonParseArray find the end of a record.                   *)
LEMMA ObjectEndIs ==
  ASSUME NEW s \in Seq(Char), NEW r, NEW o \in Nat, Closed(r), Here(s, o, r)
  PROVE  ObjectEnd(s, o + 1) = o + Len(r)
  <1> DEFINE p == o + 1
             w == Len(s)
             k == Len(r)
             D(f) == [n \in (p - 1)..w |->
                       IF n < p THEN 0
                       ELSE f[n - 1] + (CASE s[n] = "{" -> 1 [] s[n] = "}" -> -1 [] OTHER -> 0)]
             depth == CHOOSE f : f = D(f)
             S == {n \in p..w : depth[n] = 0}
  <1>1. ObjectEnd(s, p) = First(S, w)
    BY Zenon DEF ObjectEnd
  <1>2. w \in Nat /\ k \in Nat /\ k > 0 /\ o + k <= w /\ \A i \in 1..k : s[o + i] = r[i]
    BY DEF Closed, Here
  <1>3. PICK d : Depths(d, r) /\ \A n \in 1..(k - 1) : d[n] > 0
    BY DEF Closed
  <1>4. /\ d \in [0..k -> Int] /\ d[0] = 0 /\ d[k] = 0
        /\ \A n \in 1..k : d[n] = d[n - 1] + Turn(r[n])
        /\ \A n \in 1..(k - 1) : d[n] > 0
    BY <1>3 DEF Depths
  <1> HIDE DEF w, k
  <1>5. \E f : f = D(f)
    <2> DEFINE step == [n \in (o + 1)..w |-> [x \in Int |-> x + Turn(s[n])]]
               e == 0
               T == Int
    <2>1. step \in [(o + 1)..w -> [T -> T]] /\ \A n \in (o + 1)..w : \A x \in T : step[n][x] = x + Turn(s[n])
      <3>1. \A n \in (o + 1)..w : Turn(s[n]) \in Int
        BY TurnIs
      <3> QED  BY <3>1
    <2>2. e \in T /\ o \in Int /\ w \in Int
      BY <1>2
    <2> HIDE DEF step, e, T
    <2>3. PICK f \in [o..w -> T] : Steps(f, o, w, e, step)
      BY <2>1, <2>2, StepsExist
    <2>4. \A n \in (p - 1)..w : f[n] = IF n < p THEN 0 ELSE f[n - 1] + Turn(s[n])
      <3>1. \A n \in o..w : f[n] = IF n = o THEN e ELSE step[n][f[n - 1]]
        BY <2>3 DEF Steps
      <3> TAKE n \in (p - 1)..w
      <3>2. n \in o..w /\ (n < p <=> n = o)
        BY <1>2
      <3>3. CASE n = o
        BY <3>1, <3>2, <3>3 DEF e
      <3>4. CASE n # o
        <4>1. n \in (o + 1)..w /\ n - 1 \in o..w
          BY <1>2, <3>2, <3>4
        <4>2. f[n - 1] \in T
          BY <4>1
        <4>3. f[n] = f[n - 1] + Turn(s[n])
          BY <2>1, <3>1, <3>2, <3>4, <4>1, <4>2
        <4> QED  BY <3>2, <3>4, <4>3
      <3> QED  BY <3>3, <3>4
    <2>5. DOMAIN f = (p - 1)..w /\ f = [n \in DOMAIN f |-> f[n]]
      <3>1. p - 1 = o
        OBVIOUS
      <3> QED  BY <3>1
    <2>6. f = [n \in (p - 1)..w |-> IF n < p THEN 0 ELSE f[n - 1] + Turn(s[n])]
      BY <2>4, <2>5
    <2>7. f = D(f)
      BY <2>6, Zenon DEF Turn
    <2> QED  BY <2>7, Zenon
  <1>6. depth = D(depth)
    BY <1>5, Zenon
  <1>7. \A n \in (p - 1)..w : depth[n] = IF n < p THEN 0 ELSE depth[n - 1] + Turn(s[n])
    <2> HIDE DEF depth
    <2> QED  BY <1>6, Zenon DEF Turn
  <1> HIDE DEF depth
  <1>8. \A i \in 0..k : depth[o + i] = d[i]
    <2> DEFINE L == {i \in 0..k : depth[o + i] = d[i]}
    <2>1. 0 \in L
      <3>1. o + 0 \in (p - 1)..w /\ o + 0 < p /\ 0 \in 0..k
        BY <1>2
      <3> QED  BY <1>4, <1>7, <3>1
    <2>2. ASSUME NEW n \in 1..k, n - 1 \in L PROVE n \in L
      <3>1. /\ o + n \in (p - 1)..w /\ ~(o + n < p) /\ (o + n) - 1 = o + (n - 1)
            /\ n \in 0..k
        BY <1>2
      <3>2. depth[o + n] = depth[o + (n - 1)] + Turn(s[o + n])
        BY <1>7, <3>1
      <3>3. depth[o + (n - 1)] = d[n - 1] /\ s[o + n] = r[n]
        BY <1>2, <2>2
      <3> QED  BY <1>4, <3>1, <3>2, <3>3
    <2>3. L \in SUBSET (0..k)
      OBVIOUS
    <2> HIDE DEF L
    <2>4. L = 0..k
      BY <1>2, <2>1, <2>2, <2>3, NoneMissing
    <2> QED  BY <2>4 DEF L
  <1>9. First(S, w) = o + k
    <2>1. o + k \in S
      <3>1. k \in 0..k /\ o + k \in p..w
        BY <1>2
      <3> QED  BY <1>4, <1>8, <3>1
    <2>2. ASSUME NEW n \in S PROVE o + k <= n
      <3> SUFFICES ASSUME ~(o + k <= n) PROVE FALSE
        OBVIOUS
      <3>1. n \in p..w /\ depth[n] = 0
        OBVIOUS
      <3>2. n - o \in 1..(k - 1) /\ n - o \in 0..k /\ o + (n - o) = n
        BY <1>2, <3>1
      <3>3. depth[n] = d[n - o] /\ d[n - o] > 0
        BY <1>4, <1>8, <3>2
      <3>4. d[n - o] = 0
        BY <3>1, <3>3
      <3> QED  BY <3>3, <3>4
    <2>3. S \in SUBSET Int /\ S # {}
      BY <2>1
    <2> HIDE DEF S
    <2> QED  BY <2>1, <2>2, <2>3, MinIs DEF First
  <1> QED  BY <1>1, <1>9 DEF k

(* A record of an array is read, and the place behind it.                   *)
LEMMA RecordRead ==
  ASSUME NEW s \in Seq(Char), NEW r, NEW o \in Nat, Closed(r), Here(s, o, r)
  PROVE  /\ o + 1 \in 1..Len(s) /\ ~NoItem(s, o + 1)
         /\ Item(s, o + 1) = <<r>> /\ ItemNext(s, o + 1) = SkipComma(s, o + Len(r) + 1)
  <1> DEFINE k == Len(r)
             p == o + 1
  <1>1. /\ r \in Seq(Char) /\ k \in Nat /\ k > 0 /\ r[1] = OpenBrace /\ Len(s) \in Nat
        /\ o + k <= Len(s) /\ \A i \in 1..k : s[o + i] = r[i]
    BY DEF Closed, Here
  <1>2. p \in 1..Len(s) /\ s[p] = OpenBrace
    <2>1. 1 \in 1..k /\ o + 1 \in 1..Len(s)
      BY <1>1
    <2> QED  BY <1>1, <2>1
  <1>3. ~NoItem(s, p)
    <2>1. At(s, p) = OpenBrace
      BY <1>2, AtIs
    <2> QED  BY <2>1, Zenon DEF NoItem, OpenBrace, NoChar
  <1>4. s[p] # Quote /\ s[p] = "{"
    BY <1>2, Zenon DEF Quote, OpenBrace
  <1>5. ItemEnd(s, p) = ObjectEnd(s, p)
    BY <1>4, Zenon DEF ItemEnd
  <1>6. ObjectEnd(s, p) = o + k
    BY ObjectEndIs
  <1>7. SubSeq(s, p, o + k) = r
    BY <1>1, HereSub
  <1>8. Item(s, p) = <<r>>
    BY <1>4, <1>5, <1>6, <1>7, Zenon DEF Item
  <1>9. ItemNext(s, p) = SkipComma(s, o + k + 1)
    BY <1>5, <1>6 DEF ItemNext
  <1> QED  BY <1>2, <1>3, <1>8, <1>9

(* A text and one element before it.                                        *)
LEMMA OneBefore ==
  ASSUME NEW T, NEW a \in Seq(T), NEW c \in T
  PROVE  /\ <<c>> \o a \in Seq(T) /\ Len(<<c>> \o a) = Len(a) + 1
         /\ (<<c>> \o a)[1] = c
         /\ \A i \in 1..Len(a) : (<<c>> \o a)[i + 1] = a[i]
  <1> DEFINE z == <<c>>
             r == z \o a
             k == Len(a)
  <1>1. z \in Seq(T) /\ Len(z) = 1 /\ z[1] = c /\ k \in Nat
    OBVIOUS
  <1> HIDE DEF z
  <1>2. /\ r \in Seq(T) /\ Len(r) = Len(z) + Len(a)
        /\ \A i \in 1..(Len(z) + Len(a)) : r[i] = IF i <= Len(z) THEN z[i] ELSE a[i - Len(z)]
    BY <1>1, ConcatProperties
  <1> HIDE DEF r
  <1>3. Len(r) = k + 1 /\ r[1] = c
    BY <1>1, <1>2
  <1>4. ASSUME NEW i \in 1..k PROVE r[i + 1] = a[i]
    <2>1. i + 1 \in 1..(Len(z) + Len(a)) /\ ~(i + 1 <= Len(z)) /\ (i + 1) - Len(z) = i
      BY <1>1
    <2> QED  BY <1>2, <2>1
  <1> QED  BY <1>2, <1>3, <1>4 DEF r, z, k

\* The walk f finds element n of l at its stop n.
Collecting(f, at, l, k) ==
  f[at[k + 1]] = <<>> /\ \A n \in 1..k : f[at[n]] = <<l[n]>> \o f[at[n + 1]]

(* What a walk collects, element by element.                                *)
LEMMA WalkCollects ==
  ASSUME NEW T, NEW k \in Nat, NEW l \in [1..k -> T], NEW f, NEW at, Collecting(f, at, l, k)
  PROVE  f[at[1]] = l
  <1>0. f[at[k + 1]] = <<>> /\ \A n \in 1..k : f[at[n]] = <<l[n]>> \o f[at[n + 1]]
    BY DEF Collecting
  <1> DEFINE g(n) == f[at[n]]
             Rest(n) == /\ g(n) \in Seq(T) /\ Len(g(n)) = k + 1 - n
                        /\ \A i \in 1..(k + 1 - n) : g(n)[i] = l[n + i - 1]
             S == {j \in 0..k : Rest(k + 1 - j)}
  <1>1. 0 \in S
    <2>1. k + 1 - 0 = k + 1 /\ k + 1 - (k + 1) = 0 /\ 0 \in 0..k
      OBVIOUS
    <2>2. g(k + 1) = <<>>
      BY <1>0
    <2>3. Rest(k + 1)
      BY <2>1, <2>2
    <2> QED  BY <2>1, <2>3
  <1>2. ASSUME NEW j \in 1..k, j - 1 \in S PROVE j \in S
    <2> DEFINE n == k + 1 - j
    <2>1. n \in 1..k /\ k + 1 - (j - 1) = n + 1 /\ j \in 0..k
      OBVIOUS
    <2>2. Rest(n + 1)
      BY <1>2, <2>1
    <2>3. g(n) = <<l[n]>> \o g(n + 1) /\ l[n] \in T
      BY <1>0, <2>1
    <2> HIDE DEF n
    <2> DEFINE a == g(n + 1)
               b == g(n)
    <2>4. /\ a \in Seq(T) /\ Len(a) = k - n /\ \A i \in 1..(k - n) : a[i] = l[n + i]
      <3>1. k + 1 - (n + 1) = k - n
        BY <2>1
      <3>2. a \in Seq(T) /\ Len(a) = k + 1 - (n + 1) /\ \A i \in 1..(k + 1 - (n + 1)) : a[i] = l[(n + 1) + i - 1]
        BY <2>2
      <3> HIDE DEF a
      <3>3. \A i \in 1..(k - n) : (n + 1) + i - 1 = n + i
        BY <2>1
      <3> QED  BY <3>1, <3>2, <3>3
    <2>5. b = <<l[n]>> \o a
      BY <2>3
    <2> HIDE DEF a, b
    <2>6. /\ b \in Seq(T) /\ Len(b) = Len(a) + 1 /\ b[1] = l[n]
          /\ \A i \in 1..Len(a) : b[i + 1] = a[i]
      BY <2>3, <2>4, <2>5, OneBefore
    <2>7. Len(b) = k + 1 - n
      BY <2>1, <2>4, <2>6
    <2>8. ASSUME NEW i \in 1..(k + 1 - n) PROVE b[i] = l[n + i - 1]
      <3>1. CASE i = 1
        <4>1. n + i - 1 = n
          BY <2>1, <3>1
        <4> QED  BY <2>6, <3>1, <4>1
      <3>2. CASE i # 1
        <4>1. i - 1 \in 1..(k - n) /\ (i - 1) + 1 = i /\ n + (i - 1) = n + i - 1
          BY <2>1, <3>2
        <4>2. b[(i - 1) + 1] = a[i - 1] /\ a[i - 1] = l[n + (i - 1)]
          BY <2>4, <2>6, <4>1
        <4> QED  BY <4>1, <4>2
      <3> QED  BY <3>1, <3>2
    <2>9. Rest(n)
      BY <2>6, <2>7, <2>8 DEF b
    <2> QED  BY <2>1, <2>9 DEF n
  <1>3. S \in SUBSET (0..k)
    OBVIOUS
  <1> HIDE DEF S
  <1>4. S = 0..k
    BY <1>1, <1>2, <1>3, NoneMissing
  <1>5. k \in S /\ k + 1 - k = 1 /\ k + 1 - 1 = k
    BY <1>4
  <1>6. Rest(1)
    <2>1. Rest(k + 1 - k)
      BY <1>5 DEF S
    <2> HIDE DEF Rest
    <2> QED  BY <1>5, <2>1
  <1> DEFINE r == f[at[1]]
  <1>7. r \in Seq(T) /\ Len(r) = k /\ \A i \in 1..k : r[i] = l[i]
    <2>1. \A i \in 1..k : 1 + i - 1 = i
      OBVIOUS
    <2>2. r \in Seq(T) /\ Len(r) = k + 1 - 1 /\ \A i \in 1..(k + 1 - 1) : r[i] = l[1 + i - 1]
      BY <1>6
    <2> HIDE DEF r
    <2> QED  BY <1>5, <2>1, <2>2
  <1>8. l \in Seq(T) /\ Len(l) = k
    OBVIOUS
  <1> HIDE DEF r
  <1>9. r = l
    BY <1>7, <1>8, SeqEqual
  <1> QED  BY <1>9 DEF r

\* How k texts lie between a and b: text n behind place 1 + p[n - 1].
BracedAt(p, s, items, k, a, b) ==
  /\ p[0] = 0 /\ \A n \in 1..k : p[n] = p[n - 1] + Len(items[n]) + 1
  /\ s \in Seq(Char) /\ Len(s) = p[k] + 1
  /\ s[1] = a /\ s[1 + p[k]] = b
  /\ \A n \in 1..k : Here(s, 1 + p[n - 1], items[n])
  /\ \A n \in 1..(k - 1) : s[1 + p[n]] = Comma

(* Joined texts between two characters.                                     *)
LEMMA BracedLies ==
  ASSUME NEW k \in Nat, k > 0, NEW items \in [1..k -> Seq(Char)], NEW a \in Char, NEW b \in Char
  PROVE  \E p \in [0..k -> Nat] :
           BracedAt(p, <<a>> \o Joined(items, <<Comma>>) \o <<b>>, items, k, a, b)
  <1>1. Comma \in Char
    BY InputsOK, Zenon DEF Written, Comma
  <1> DEFINE J == Joined(items, <<Comma>>)
             aJ == <<a>> \o J
             s == aJ \o <<b>>
  <1>2. PICK p \in [0..k -> Nat] : JoinedAt(p, J, items, k, Char, Comma)
    BY <1>1, JoinedLies
  <1> HIDE DEF J
  <1>3. /\ p[0] = 0 /\ \A n \in 1..k : p[n] = p[n - 1] + Len(items[n]) + 1
        /\ \A n \in 0..k : p[n] <= p[k]
        /\ J \in Seq(Char) /\ Len(J) = p[k] - 1
        /\ \A n \in 1..k : \A i \in 1..Len(items[n]) : J[p[n - 1] + i] = items[n][i]
        /\ \A n \in 1..(k - 1) : J[p[n]] = Comma
    BY <1>2 DEF JoinedAt
  <1>4. /\ aJ \in Seq(Char) /\ Len(aJ) = Len(J) + 1 /\ aJ[1] = a
        /\ \A i \in 1..Len(J) : aJ[i + 1] = J[i]
    BY <1>3, OneBefore
  <1> HIDE DEF aJ
  <1>5. /\ s \in Seq(Char) /\ Len(s) = Len(aJ) + 1 /\ s[Len(aJ) + 1] = b
        /\ \A i \in 1..Len(aJ) : s[i] = aJ[i]
    BY <1>4, OneMore
  <1> HIDE DEF s
  <1> DEFINE w == p[k] - 1
  <1>6. k \in 0..k /\ p[k] \in Nat
    OBVIOUS
  <1>11. w \in Nat /\ Len(J) = w /\ 1 \in 1..(w + 1)
    <2>1. Len(J) \in Nat
      BY <1>3
    <2> QED  BY <1>3, <2>1
  <1> HIDE DEF w
  <1>7. Len(s) = w + 2 /\ s[w + 2] = b /\ s[1] = a /\ \A i \in 1..w : s[1 + i] = J[i]
    <2>1. Len(aJ) = w + 1 /\ (w + 1) + 1 = w + 2
      BY <1>4, <1>11
    <2>2. ASSUME NEW i \in 1..w PROVE s[1 + i] = J[i]
      <3>1. i + 1 \in 1..(w + 1) /\ 1 + i = i + 1
        BY <1>11
      <3> QED  BY <1>4, <1>5, <1>11, <2>1, <3>1
    <2> QED  BY <1>4, <1>5, <1>11, <2>1, <2>2
  <1>8. w + 2 = p[k] + 1 /\ w + 2 = 1 + p[k] /\ w = p[k] - 1
    BY <1>6 DEF w
  <1>9. \A n \in 1..k : Here(s, 1 + p[n - 1], items[n])
    <2> TAKE n \in 1..k
    <2> DEFINE x == p[n - 1]
               y == p[n]
               l == Len(items[n])
    <2>1. n - 1 \in 0..k /\ n \in 0..k
      OBVIOUS
    <2>2. x \in Nat /\ y \in Nat /\ y = x + l + 1 /\ y <= p[k] /\ \A i \in 1..l : J[x + i] = items[n][i]
      BY <1>3, <2>1
    <2>3. l \in Nat
      OBVIOUS
    <2> HIDE DEF x, y, l
    <2>4. 1 + x + l <= Len(s)
      BY <1>6, <1>7, <1>8, <2>2, <2>3
    <2>5. ASSUME NEW i \in 1..l PROVE s[1 + x + i] = items[n][i]
      <3>1. x + i \in 1..w /\ 1 + (x + i) = 1 + x + i
        BY <1>6, <1>8, <1>11, <2>2, <2>3
      <3> QED  BY <1>7, <2>2, <3>1
    <2> QED  BY <2>4, <2>5 DEF Here, x, l
  <1>10. \A n \in 1..(k - 1) : s[1 + p[n]] = Comma
    <2> TAKE n \in 1..(k - 1)
    <2> DEFINE x == p[n]
               y == p[n + 1]
               l == Len(items[n + 1])
    <2>1. n \in 0..k /\ n + 1 \in 1..k /\ n \in 1..k /\ n - 1 \in 0..k /\ (n + 1) - 1 = n /\ n + 1 \in 0..k
      OBVIOUS
    <2>2. x \in Nat /\ y \in Nat /\ y = x + l + 1 /\ y <= p[k] /\ J[x] = Comma
      BY <1>3, <2>1
    <2>3. l \in Nat
      BY <2>1
    <2>4. x > 0
      <3> DEFINE u == p[n - 1]
                 v == Len(items[n])
      <3>1. u \in Nat /\ v \in Nat /\ x = u + v + 1
        BY <1>3, <2>1
      <3> HIDE DEF u, v, x
      <3> QED  BY <3>1
    <2> HIDE DEF x, y, l
    <2>5. x \in 1..w
      BY <1>6, <1>8, <1>11, <2>2, <2>3, <2>4
    <2> QED  BY <1>7, <2>2, <2>5 DEF x
  <1>12. BracedAt(p, s, items, k, a, b)
    BY <1>3, <1>5, <1>7, <1>8, <1>9, <1>10 DEF BracedAt
  <1> QED  BY <1>12 DEF s, aJ, J

\* Where the walk through k items is, and what it meets there.
Stations(p, k) == [n \in 1..(k + 1) |-> IF n <= k THEN 2 + p[n - 1] ELSE 1 + p[k]]

Stops(p, s, items, k, at, a, b) ==
  /\ s \in Seq(Char) /\ At(s, 1) = a /\ at[1] = 2
  /\ at[k + 1] = 1 + p[k] /\ 1 + p[k] \in 1..Len(s) /\ s[1 + p[k]] = b
  /\ \A n \in 1..k : /\ 1 + p[n - 1] \in Nat /\ Here(s, 1 + p[n - 1], items[n])
                     /\ at[n] = 1 + p[n - 1] + 1
                     /\ SkipComma(s, 1 + p[n - 1] + Len(items[n]) + 1) = at[n + 1]

(* The walk goes from one item to the next, and from the last to the end.   *)
LEMMA StationsFollow ==
  ASSUME NEW k \in Nat, k > 0, NEW items \in [1..k -> Seq(Char)], NEW s, NEW a, NEW b,
         b # Comma, NEW p \in [0..k -> Nat], BracedAt(p, s, items, k, a, b)
  PROVE  Stops(p, s, items, k, Stations(p, k), a, b)
  <1>1. /\ p[0] = 0 /\ \A n \in 1..k : p[n] = p[n - 1] + Len(items[n]) + 1
        /\ s \in Seq(Char) /\ Len(s) = p[k] + 1
        /\ s[1] = a /\ s[1 + p[k]] = b
        /\ \A n \in 1..k : Here(s, 1 + p[n - 1], items[n])
        /\ \A n \in 1..(k - 1) : s[1 + p[n]] = Comma
    BY DEF BracedAt
  <1> DEFINE at == Stations(p, k)
             w == Len(s)
             c == p[k]
  <1>2. /\ at[1] = 2 /\ at[k + 1] = 1 + c /\ \A n \in 1..k : at[n] = 2 + p[n - 1] /\ p[n - 1] \in Nat
    <2>1. 1 \in 1..(k + 1) /\ 1 <= k /\ 1 - 1 = 0 /\ k + 1 \in 1..(k + 1) /\ ~(k + 1 <= k)
      OBVIOUS
    <2>2. \A n \in 1..k : n \in 1..(k + 1) /\ n <= k /\ n - 1 \in 0..k
      OBVIOUS
    <2>3. \A n \in 1..k : at[n] = 2 + p[n - 1]
      BY <2>2 DEF Stations
    <2>4. at[1] = 2 + p[0] /\ at[k + 1] = 1 + p[k]
      BY <2>1 DEF Stations
    <2> HIDE DEF at
    <2>5. p[0] = 0
      BY <1>1
    <2>6. at[1] = 2
      BY <2>4, <2>5
    <2>7. \A n \in 1..k : p[n - 1] \in Nat
      BY <2>2
    <2> QED  BY <2>3, <2>4, <2>6, <2>7
  <1>3. k \in 0..k /\ c \in Nat
    OBVIOUS
  <1>9. w = c + 1
    BY <1>1
  <1> HIDE DEF at, w, c
  <1>4. 1 \in 1..w /\ 1 + c \in 1..w /\ 1 + c <= w /\ 1 + c \in 1..(w + 1) /\ 1 + c \in Nat /\ 1 \in Nat
    BY <1>3, <1>9
  <1>5. At(s, 1) = a /\ At(s, 1 + c) = b
    <2>1. s[1] = a /\ s[1 + c] = b /\ s \in Seq(Char)
      BY <1>1 DEF c
    <2>2. 1 \in 1..Len(s) /\ 1 + c \in 1..Len(s)
      BY <1>4 DEF w
    <2>3. At(s, 1) = s[1]
      BY <2>1, <2>2, AtIs
    <2>4. At(s, 1 + c) = s[1 + c]
      BY <1>4, <2>1, <2>2, AtIs
    <2> QED  BY <2>1, <2>3, <2>4
  <1>6. \A n \in 1..k : SkipComma(s, 1 + p[n - 1] + Len(items[n]) + 1) = at[n + 1]
    <2> TAKE n \in 1..k
    <2> DEFINE x == p[n - 1]
               l == Len(items[n])
               y == p[n]
    <2>1. x \in Nat /\ l \in Nat /\ y = x + l + 1
      <3>1. items[n] \in Seq(Char)
        OBVIOUS
      <3>2. l \in Nat
        BY <3>1
      <3> QED  BY <1>1, <1>2, <3>2
    <2> HIDE DEF x, l, y
    <2>2. y \in Nat
      BY <2>1
    <2>3. 1 + x + l + 1 = 1 + y
      BY <2>1
    <2>4. CASE n = k
      <3>1. SkipComma(s, 1 + c) = 1 + c
        BY <1>1, <1>4, <1>5, SkipStays DEF w
      <3> QED  BY <1>2, <2>3, <2>4, <3>1 DEF x, l, y, c
    <2>5. CASE n # k
      <3>1. n \in 1..(k - 1) /\ n + 1 \in 1..k /\ (n + 1) - 1 = n
        BY <2>5
      <3>2. at[n + 1] = 2 + y /\ s[1 + y] = Comma
        BY <1>1, <1>2, <3>1 DEF y
      <3>3. Here(s, 1 + p[n], items[n + 1])
        BY <1>1, <3>1
      <3>4. 1 + y + Len(items[n + 1]) <= w /\ Len(items[n + 1]) \in Nat
        <4>1. items[n + 1] \in Seq(Char)
          BY <3>1
        <4>2. Len(items[n + 1]) \in Nat
          BY <4>1
        <4> QED  BY <3>3, <4>2 DEF Here, w, y
      <3> DEFINE z == Len(items[n + 1])
      <3> HIDE DEF z
      <3>5. 1 + y + z <= w /\ z \in Nat
        BY <3>4 DEF z
      <3>6. 1 + y \in 1..(w + 1) /\ 1 + y <= w
        BY <1>3, <1>9, <2>2, <3>5
      <3>7. SkipComma(s, 1 + y) = (1 + y) + 1
        BY <1>1, <3>2, <3>6, SkipStays DEF w
      <3>8. (1 + y) + 1 = 2 + y
        BY <2>2
      <3> QED  BY <2>3, <3>2, <3>7, <3>8 DEF x, l
    <2> QED  BY <2>4, <2>5
  <1>7. \A n \in 1..k : at[n] = 1 + p[n - 1] + 1 /\ 1 + p[n - 1] \in Nat
    BY <1>2
  <1> QED  BY <1>1, <1>2, <1>4, <1>5, <1>6, <1>7 DEF Stops, at, w, c

(* An array of records is read back.                                        *)
THEOREM ArrayRead ==
  ASSUME NEW k \in Nat, k > 0, NEW items \in [1..k -> Seq(Char)], \A n \in 1..k : Closed(items[n])
  PROVE  ParseArray(StringifyArray(items)) = items
  <1> DEFINE s == StringifyArray(items)
  <1>1. PICK p \in [0..k -> Nat] : BracedAt(p, s, items, k, OpenBracket, ShutBracket)
    <2>1. OpenBracket \in Char /\ ShutBracket \in Char
      BY InputsOK, Zenon DEF Written, OpenBracket, ShutBracket
    <2>2. s = <<OpenBracket>> \o Joined(items, <<Comma>>) \o <<ShutBracket>>
      BY Zenon DEF StringifyArray, OpenBracket, ShutBracket, Comma
    <2> QED  BY <2>1, <2>2, BracedLies
  <1> HIDE DEF s
  <1>2. ShutBracket # Comma
    BY Zenon DEF ShutBracket, Comma
  <1> DEFINE at == Stations(p, k)
  <1>3. Stops(p, s, items, k, at, OpenBracket, ShutBracket)
    BY <1>1, <1>2, StationsFollow
  <1> HIDE DEF at
  <1>9. /\ s \in Seq(Char) /\ At(s, 1) = OpenBracket /\ at[1] = 2
        /\ at[k + 1] = 1 + p[k] /\ 1 + p[k] \in 1..Len(s) /\ s[1 + p[k]] = ShutBracket
        /\ \A n \in 1..k : /\ 1 + p[n - 1] \in Nat /\ Here(s, 1 + p[n - 1], items[n])
                           /\ at[n] = 1 + p[n - 1] + 1
                           /\ SkipComma(s, 1 + p[n - 1] + Len(items[n]) + 1) = at[n + 1]
    BY <1>3 DEF Stops
  <1>4. PICK f : ItemsAt(f, s) /\ ParseArray(s) = f[2]
    BY <1>9, ArrayWalk
  <1>5. \A q \in 1..(Len(s) + 1) :
          f[q] = IF NoItem(s, q) THEN <<>> ELSE Item(s, q) \o f[ItemNext(s, q)]
    BY <1>4 DEF ItemsAt
  <1>6. f[at[k + 1]] = <<>>
    <2> DEFINE q == 1 + p[k]
    <2>1. q \in 1..Len(s) /\ s[q] = ShutBracket /\ at[k + 1] = q
      BY <1>9
    <2> HIDE DEF q
    <2>4. q \in Nat /\ q \in 1..(Len(s) + 1) /\ s \in Seq(Char)
      BY <1>9, <2>1
    <2>5. At(s, q) = s[q]
      BY <2>1, <2>4, AtIs
    <2>2. At(s, q) = ShutBracket /\ q \in 1..(Len(s) + 1)
      BY <2>1, <2>4, <2>5
    <2>3. NoItem(s, q)
      BY <2>2, Zenon DEF NoItem, ShutBracket
    <2> QED  BY <1>5, <2>1, <2>2, <2>3
  <1>7. \A n \in 1..k : f[at[n]] = <<items[n]>> \o f[at[n + 1]]
    <2> TAKE n \in 1..k
    <2> DEFINE o == 1 + p[n - 1]
               r == items[n]
    <2>1. o \in Nat /\ Here(s, o, r) /\ at[n] = o + 1 /\ SkipComma(s, o + Len(r) + 1) = at[n + 1] /\ Closed(r)
      BY <1>9
    <2> HIDE DEF o, r
    <2>2. /\ o + 1 \in 1..Len(s) /\ ~NoItem(s, o + 1)
          /\ Item(s, o + 1) = <<r>> /\ ItemNext(s, o + 1) = SkipComma(s, o + Len(r) + 1)
      BY <1>9, <2>1, RecordRead
    <2>3. o + 1 \in 1..(Len(s) + 1)
      BY <2>2
    <2>4. f[o + 1] = Item(s, o + 1) \o f[ItemNext(s, o + 1)]
      BY <1>5, <2>2, <2>3, Zenon
    <2>5. f[o + 1] = <<r>> \o f[at[n + 1]]
      BY <2>1, <2>2, <2>4, Zenon
    <2> QED  BY <2>1, <2>5, Zenon DEF r
  <1>8. f[2] = items
    <2> DEFINE T == Seq(Char)
    <2> HIDE DEF T
    <2>1. items \in [1..k -> T]
      BY DEF T
    <2>2. Collecting(f, at, items, k)
      BY <1>6, <1>7, Zenon DEF Collecting
    <2>3. f[at[1]] = items
      BY <2>1, <2>2, WalkCollects
    <2> QED  BY <1>9, <2>3
  <1> QED  BY <1>4, <1>8 DEF s

\* A member of an object as it is written.
PairText(x, y) == Quoted(x) \o <<Colon>> \o Quoted(y)

(* A member is a text.                                                      *)
LEMMA PairIsText ==
  ASSUME NEW x \in Seq(Char), NEW y \in Seq(Char)
  PROVE  PairText(x, y) \in Seq(Char)
  <1>1. Quoted(x) \in Seq(Char) /\ Quoted(y) \in Seq(Char)
    BY QuotedText
  <1>2. Colon \in Char
    BY InputsOK, Zenon DEF Written, Colon
  <1>3. <<Colon>> \in Seq(Char)
    BY <1>2
  <1> DEFINE S == Seq(Char)
             a == Quoted(x)
             b == Quoted(y)
             c == <<Colon>>
  <1>4. \A u, v \in S : u \o v \in S
    OBVIOUS
  <1> HIDE DEF S, a, b, c
  <1>5. a \in S /\ b \in S /\ c \in S
    BY <1>1, <1>3 DEF S, a, b, c
  <1>6. (a \o c) \o b \in S
    BY <1>4, <1>5
  <1> QED  BY <1>6 DEF PairText, S, a, b, c

(* The parts of a member, and where they lie in s behind place o.           *)
LEMMA PairParts ==
  ASSUME NEW s \in Seq(Char), NEW x \in Seq(Char), NEW y \in Seq(Char), NEW o \in Nat,
         Here(s, o, PairText(x, y))
  PROVE  /\ PairText(x, y) \in Seq(Char)
         /\ Len(PairText(x, y)) = Len(Quoted(x)) + 1 + Len(Quoted(y))
         /\ o + Len(Quoted(x)) \in Nat /\ o + Len(Quoted(x)) + 1 \in Nat
         /\ Here(s, o, Quoted(x))
         /\ At(s, o + Len(Quoted(x)) + 1) = Colon
         /\ Here(s, o + Len(Quoted(x)) + 1, Quoted(y))
  <1> DEFINE a == Quoted(x)
             c == <<Colon>>
             b == Quoted(y)
             ac == a \o c
             r == ac \o b
             m == Len(a)
  <1>1. a \in Seq(Char) /\ b \in Seq(Char)
    BY QuotedText
  <1>2. Colon \in Char
    BY InputsOK, Zenon DEF Written, Colon
  <1>3. c \in Seq(Char) /\ Len(c) = 1
    BY <1>2
  <1>4. PairText(x, y) = r
    BY DEF PairText
  <1> HIDE DEF a, b
  <1>5. ac \in Seq(Char) /\ Len(ac) = Len(a) + 1
    <2> HIDE DEF c
    <2>1. ac \in Seq(Char) /\ Len(ac) = Len(a) + Len(c)
      BY <1>1, <1>3, ConcatProperties
    <2> HIDE DEF ac
    <2> QED  BY <1>3, <2>1
  <1>6. r \in Seq(Char) /\ Len(r) = Len(ac) + Len(b)
    <2> HIDE DEF ac
    <2> QED  BY <1>1, <1>5, ConcatProperties
  <1>7. Here(s, o, r)
    BY <1>4
  <1>8. Here(s, o, ac) /\ Here(s, o + Len(ac), b) /\ o + Len(ac) \in Nat
    <2> HIDE DEF ac
    <2> QED  BY <1>1, <1>5, <1>7, HereParts
  <1>9. Here(s, o, a) /\ Here(s, o + Len(a), c) /\ o + Len(a) \in Nat
    <2> HIDE DEF c
    <2> QED  BY <1>1, <1>3, <1>8, HereParts
  <1> DEFINE u == o + Len(a)
  <1>10. u \in Nat /\ Here(s, u, <<Colon>>)
    BY <1>9
  <1> HIDE DEF u
  <1>11. At(s, u + 1) = Colon
    BY <1>2, <1>10, HereOne
  <1>12. o + Len(ac) = u + 1
    <2>1. m \in Nat
      BY <1>1
    <2> HIDE DEF m, ac
    <2>2. Len(ac) = m + 1
      BY <1>5 DEF m
    <2>3. u = o + m
      BY DEF u, m
    <2> QED  BY <2>1, <2>2, <2>3
  <1>13. u + 1 \in Nat /\ Here(s, u + 1, b)
    BY <1>8, <1>12
  <1> HIDE DEF ac, r, c
  <1>14. PairText(x, y) \in Seq(Char) /\ Len(PairText(x, y)) = Len(a) + 1 + Len(b)
    BY <1>4, <1>5, <1>6
  <1> QED  BY <1>9, <1>11, <1>13, <1>14 DEF a, b, u

(* A quoted text begins with a quote.                                       *)
LEMMA QuotedBegins ==
  ASSUME NEW s \in Seq(Char), NEW t \in Seq(Char), NEW o \in Nat, Here(s, o, Quoted(t))
  PROVE  o + 1 \in 1..Len(s) /\ At(s, o + 1) = Quote
  <1> DEFINE r == Quoted(t)
             l == Len(Escape(t))
  <1>1. Escape(t) \in Seq(Char)
    BY EscapedLies DEF EscapedAt, LiesAt
  <1>2. l \in Nat
    BY <1>1
  <1>3. Len(r) = l + 2 /\ r[1] = Quote
    BY <1>1, QuotedIs
  <1> HIDE DEF r, l
  <1>4. o + Len(r) <= Len(s) /\ \A i \in 1..Len(r) : s[o + i] = r[i]
    BY DEF Here, r
  <1>5. o + 1 \in 1..Len(s) /\ s[o + 1] = r[1] /\ o + 1 \in Nat
    BY <1>2, <1>3, <1>4
  <1> QED  BY <1>3, <1>5, AtIs

(* A member is read, and the place behind it.                               *)
LEMMA MemberRead ==
  ASSUME NEW s \in Seq(Char), NEW x \in Seq(Char), NEW y \in Seq(Char), NEW o \in Nat,
         Here(s, o, PairText(x, y))
  PROVE  /\ o + 1 \in 1..Len(s) /\ ~NoMember(s, o + 1)
         /\ Member(s, o + 1) = <<<<x, y>>>>
         /\ MemberNext(s, o + 1) = SkipComma(s, o + Len(PairText(x, y)) + 1)
  <1> DEFINE a == Len(Quoted(x))
             b == Len(Quoted(y))
             l == Len(PairText(x, y))
             v == o + a + 1
             p == o + 1
             name == ParseString(s, p)
             val == ParseString(s, v + 1)
  <1>1. /\ l = a + 1 + b /\ v \in Nat /\ o + a \in Nat
        /\ Here(s, o, Quoted(x)) /\ At(s, v) = Colon /\ Here(s, v, Quoted(y))
    BY PairParts
  <1>2. a \in Nat /\ b \in Nat
    <2>1. Quoted(x) \in Seq(Char) /\ Quoted(y) \in Seq(Char)
      BY QuotedText
    <2> QED  BY <2>1
  <1>3. name = [ok |-> TRUE, next |-> v, value |-> x]
    BY <1>1, StringRead
  <1> HIDE DEF v, a, b, l
  <1>4. val = [ok |-> TRUE, next |-> v + b + 1, value |-> y]
    BY <1>1, StringRead DEF b
  <1>5. name.ok /\ name.next = v /\ name.value = x /\ val.ok /\ val.next = v + b + 1 /\ val.value = y
    BY <1>3, <1>4
  <1>6. MemberFrom(s, p) = v + 1
    BY <1>5 DEF MemberFrom
  <1>7. At(s, v + 1) = Quote
    BY <1>1, QuotedBegins
  <1>8. ~NoMember(s, p)
    BY <1>1, <1>5, Zenon DEF NoMember, Colon
  <1>9. Member(s, p) = <<<<x, y>>>>
    BY <1>5, <1>6, <1>7, Zenon DEF Member
  <1>10. MemberEnd(s, p) = val.next - 1
    BY <1>6, <1>7, Zenon DEF MemberEnd
  <1>11. MemberEnd(s, p) + 1 = o + l + 1
    <2>1. v = o + a + 1
      BY DEF v
    <2>2. (v + b + 1) - 1 + 1 = o + l + 1
      BY <1>1, <1>2, <2>1
    <2> QED  BY <1>5, <1>10, <2>2
  <1>12. MemberNext(s, p) = SkipComma(s, o + l + 1)
    BY <1>11 DEF MemberNext
  <1>13. p \in 1..Len(s)
    BY <1>1, QuotedBegins
  <1> QED  BY <1>8, <1>9, <1>12, <1>13 DEF l

(* An object is read back.                                                  *)
THEOREM ObjectRead ==
  ASSUME NEW k \in Nat, k > 0, NEW m \in [1..k -> Seq(Char) \X Seq(Char)]
  PROVE  ParseObject(Stringify(m)) = m
  <1> DEFINE s == Stringify(m)
             items == [n \in 1..k |-> PairText(m[n][1], m[n][2])]
  <1>0. \A n \in 1..k : m[n][1] \in Seq(Char) /\ m[n][2] \in Seq(Char) /\ m[n] = <<m[n][1], m[n][2]>>
    <2> DEFINE S == Seq(Char)
    <2> HIDE DEF S
    <2>1. \A z \in S \X S : z[1] \in S /\ z[2] \in S /\ z = <<z[1], z[2]>>
      OBVIOUS
    <2>2. \A n \in 1..k : m[n] \in S \X S
      BY DEF S
    <2> QED  BY <2>1, <2>2 DEF S
  <1>14. \A n \in 1..k : items[n] = PairText(m[n][1], m[n][2])
    OBVIOUS
  <1>15. items \in [1..k -> Seq(Char)]
    <2>1. \A n \in 1..k : PairText(m[n][1], m[n][2]) \in Seq(Char)
      BY <1>0, PairIsText
    <2> QED  BY <2>1
  <1>1. PICK p \in [0..k -> Nat] : BracedAt(p, s, items, k, OpenBrace, ShutBrace)
    <2>1. OpenBrace \in Char /\ ShutBrace \in Char
      BY InputsOK, Zenon DEF Written, OpenBrace, ShutBrace
    <2>2. s = <<OpenBrace>> \o Joined(items, <<Comma>>) \o <<ShutBrace>>
      <3>1. DOMAIN m = 1..k
        OBVIOUS
      <3> QED  BY <3>1, Zenon DEF Stringify, OpenBrace, ShutBrace, Comma, Colon, PairText
    <2> HIDE DEF items
    <2> QED  BY <1>15, <2>1, <2>2, BracedLies
  <1> HIDE DEF s, items
  <1>2. ShutBrace # Comma
    BY Zenon DEF ShutBrace, Comma
  <1> DEFINE at == Stations(p, k)
  <1>3. Stops(p, s, items, k, at, OpenBrace, ShutBrace)
    BY <1>1, <1>2, <1>15, StationsFollow
  <1> HIDE DEF at
  <1>9. /\ s \in Seq(Char) /\ At(s, 1) = OpenBrace /\ at[1] = 2
        /\ at[k + 1] = 1 + p[k] /\ 1 + p[k] \in 1..Len(s) /\ s[1 + p[k]] = ShutBrace
        /\ \A n \in 1..k : /\ 1 + p[n - 1] \in Nat /\ Here(s, 1 + p[n - 1], items[n])
                           /\ at[n] = 1 + p[n - 1] + 1
                           /\ SkipComma(s, 1 + p[n - 1] + Len(items[n]) + 1) = at[n + 1]
    BY <1>3 DEF Stops
  <1>4. PICK f : MembersAt(f, s) /\ ParseObject(s) = f[2]
    BY <1>9, ObjectWalk
  <1>5. \A q \in 1..(Len(s) + 1) :
          f[q] = IF NoMember(s, q) THEN <<>> ELSE Member(s, q) \o f[MemberNext(s, q)]
    BY <1>4 DEF MembersAt
  <1>6. f[at[k + 1]] = <<>>
    <2> DEFINE q == 1 + p[k]
    <2>1. q \in 1..Len(s) /\ s[q] = ShutBrace /\ at[k + 1] = q
      BY <1>9
    <2> HIDE DEF q
    <2>4. q \in Nat /\ q \in 1..(Len(s) + 1) /\ s \in Seq(Char)
      BY <1>9, <2>1
    <2>5. At(s, q) = s[q]
      BY <2>1, <2>4, AtIs
    <2>6. At(s, q) # Quote
      <3>1. ShutBrace # Quote
        BY Zenon DEF ShutBrace, Quote
      <3> QED  BY <2>1, <2>5, <3>1
    <2>2. ParseString(s, q) = NoString(s)
      <3>1. PICK M : MarksOf(M, s, q) /\ ParseString(s, q) = StringBy(s, q, M)
        BY <2>4, MarksExist
      <3> QED  BY <2>6, <3>1, Zenon DEF StringBy
    <2>7. ~NoString(s).ok
      BY DEF NoString
    <2>3. NoMember(s, q)
      BY <2>2, <2>7 DEF NoMember
    <2> QED  BY <1>5, <2>1, <2>4, <2>3
  <1>7. \A n \in 1..k : f[at[n]] = <<m[n]>> \o f[at[n + 1]]
    <2> TAKE n \in 1..k
    <2> DEFINE o == 1 + p[n - 1]
               x == m[n][1]
               y == m[n][2]
    <2>1. /\ o \in Nat /\ Here(s, o, PairText(x, y)) /\ at[n] = o + 1
          /\ SkipComma(s, o + Len(PairText(x, y)) + 1) = at[n + 1]
      BY <1>9, <1>14
    <2>6. x \in Seq(Char) /\ y \in Seq(Char) /\ m[n] = <<x, y>>
      BY <1>0
    <2> HIDE DEF o, x, y
    <2>2. /\ o + 1 \in 1..Len(s) /\ ~NoMember(s, o + 1)
          /\ Member(s, o + 1) = <<<<x, y>>>>
          /\ MemberNext(s, o + 1) = SkipComma(s, o + Len(PairText(x, y)) + 1)
      BY <1>9, <2>1, <2>6, MemberRead
    <2>3. o + 1 \in 1..(Len(s) + 1)
      BY <2>2
    <2>4. f[o + 1] = Member(s, o + 1) \o f[MemberNext(s, o + 1)]
      BY <1>5, <2>2, <2>3, Zenon
    <2>5. f[o + 1] = <<<<x, y>>>> \o f[at[n + 1]]
      BY <2>1, <2>2, <2>4, Zenon
    <2> QED  BY <2>1, <2>5, <2>6, Zenon
  <1>8. f[2] = m
    <2> DEFINE T == Seq(Char) \X Seq(Char)
    <2> HIDE DEF T
    <2>1. m \in [1..k -> T]
      BY DEF T
    <2>2. Collecting(f, at, m, k)
      BY <1>6, <1>7, Zenon DEF Collecting
    <2>3. f[at[1]] = m
      BY <2>1, <2>2, WalkCollects
    <2> QED  BY <1>9, <2>3
  <1> QED  BY <1>4, <1>8 DEF s

(* Objects come back as they were written.                                  *)
LEMMA ObjectsComeBack == ObjectRoundTrip
  <1> SUFFICES ASSUME NEW k \in Texts, NEW v \in Texts, NEW u \in Texts
               PROVE  LET members == <<<<k, v>>, <<<<"z">> \o k, u>>>>
                      IN  ParseObject(Stringify(members)) = members
    BY DEF ObjectRoundTrip
  <1> DEFINE z == <<"z">>
             zk == z \o k
             S == Seq(Char)
             m == <<<<k, v>>, <<zk, u>>>>
  <1>1. k \in S /\ v \in S /\ u \in S
    BY InputsOK
  <1>2. z \in S
    <2> DEFINE c == "z"
    <2>1. c \in Char
      BY InputsOK, Zenon DEF Keys
    <2> HIDE DEF c
    <2>2. <<c>> \in Seq(Char)
      BY <2>1
    <2> QED  BY <2>2 DEF c
  <1>3. zk \in S
    <2> HIDE DEF z
    <2> QED  BY <1>1, <1>2
  <1>4. m \in [1..2 -> S \X S]
    <2> HIDE DEF zk, S
    <2> QED  BY <1>1, <1>3
  <1> HIDE DEF zk
  <1>5. ParseObject(Stringify(m)) = m
    <2> DEFINE l == 2
    <2> HIDE DEF m
    <2>1. l \in Nat /\ l > 0 /\ m \in [1..l -> Seq(Char) \X Seq(Char)]
      BY <1>4
    <2> HIDE DEF l
    <2> QED  BY <2>1, ObjectRead
  <1> QED  BY <1>5 DEF zk

(* One text flattened.                                                      *)
LEMMA FlattenOne ==
  ASSUME NEW T, NEW a \in Seq(T)
  PROVE  FlattenSeq(<<a>>) = a
  <1> DEFINE S == Seq(T)
             l == <<a>>
  <1>1. l \in Seq(S) /\ Len(l) = 1 /\ l[1] = a
    OBVIOUS
  <1> HIDE DEF l
  <1>2. l \in Seq(Seq(T))
    BY <1>1
  <1>3. PICK f \in [0..Len(l) -> Seq(T)] :
          /\ f[0] = <<>> /\ \A i \in 1..Len(l) : f[i] = f[i - 1] \o l[i]
          /\ FlattenSeq(l) = f[Len(l)]
    BY <1>2, FlattenGrows
  <1>4. f[1] = f[1 - 1] \o l[1] /\ 1 - 1 = 0
    BY <1>1, <1>3
  <1>5. f[1] = <<>> \o a
    BY <1>1, <1>3, <1>4
  <1>6. <<>> \o a = a
    OBVIOUS
  <1> QED  BY <1>1, <1>3, <1>5, <1>6 DEF l

(* Two texts flattened.                                                     *)
LEMMA FlattenTwo ==
  ASSUME NEW T, NEW a \in Seq(T), NEW b \in Seq(T)
  PROVE  FlattenSeq(<<a, b>>) = a \o b
  <1> DEFINE S == Seq(T)
             l == <<a, b>>
  <1>1. l \in Seq(S) /\ Len(l) = 2 /\ l[1] = a /\ l[2] = b
    <2>1. a \in S /\ b \in S
      OBVIOUS
    <2> HIDE DEF S
    <2> QED  BY <2>1
  <1> HIDE DEF l
  <1>2. l \in Seq(Seq(T))
    BY <1>1
  <1>3. PICK f \in [0..Len(l) -> Seq(T)] :
          /\ f[0] = <<>> /\ \A i \in 1..Len(l) : f[i] = f[i - 1] \o l[i]
          /\ FlattenSeq(l) = f[Len(l)]
    BY <1>2, FlattenGrows
  <1>4. f[1] = f[1 - 1] \o l[1] /\ 1 - 1 = 0 /\ f[2] = f[2 - 1] \o l[2] /\ 2 - 1 = 1
    BY <1>1, <1>3
  <1>5. f[1] = <<>> \o a
    BY <1>1, <1>3, <1>4
  <1>6. <<>> \o a = a
    OBVIOUS
  <1>7. f[2] = a \o b
    BY <1>1, <1>4, <1>5, <1>6
  <1> QED  BY <1>1, <1>3, <1>7 DEF l

(* One text joined.                                                         *)
LEMMA JoinedOne ==
  ASSUME NEW T, NEW a \in Seq(T), NEW c \in T
  PROVE  Joined(<<a>>, <<c>>) = a
  <1> DEFINE z == <<c>>
             one == <<a>>
  <1> HIDE DEF z
  <1>1. [n \in DOMAIN one |-> IF n = 1 THEN one[n] ELSE z \o one[n]] = <<a>>
    OBVIOUS
  <1> HIDE DEF one
  <1>2. Joined(one, z) = FlattenSeq(<<a>>)
    BY <1>1 DEF Joined
  <1>3. FlattenSeq(<<a>>) = a
    BY FlattenOne
  <1> QED  BY <1>2, <1>3 DEF one, z

(* Two texts joined.                                                        *)
LEMMA JoinedTwo ==
  ASSUME NEW T, NEW a \in Seq(T), NEW b \in Seq(T), NEW c \in T
  PROVE  Joined(<<a, b>>, <<c>>) = a \o (<<c>> \o b)
  <1> DEFINE z == <<c>>
             d == z \o b
             two == <<a, b>>
  <1>1. z \in Seq(T)
    OBVIOUS
  <1> HIDE DEF z
  <1>2. d \in Seq(T)
    BY <1>1
  <1>3. [n \in DOMAIN two |-> IF n = 1 THEN two[n] ELSE z \o two[n]] = <<a, d>>
    OBVIOUS
  <1> HIDE DEF two, d
  <1>4. Joined(two, z) = FlattenSeq(<<a, d>>)
    BY <1>3 DEF Joined
  <1>5. FlattenSeq(<<a, d>>) = a \o d
    BY <1>2, FlattenTwo
  <1> QED  BY <1>4, <1>5 DEF two, d, z

\* A text without braces.
Plain(t) == t \in Seq(Char) /\ \A i \in 1..Len(t) : t[i] \notin {OpenBrace, ShutBrace}

(* No braces come in when texts are put together,                           *)
LEMMA PlainJoin ==
  ASSUME NEW x, NEW y, Plain(x), Plain(y)
  PROVE  Plain(x \o y)
  <1> DEFINE z == x \o y
             a == Len(x)
             b == Len(y)
  <1>1. x \in Seq(Char) /\ y \in Seq(Char) /\ a \in Nat /\ b \in Nat
        /\ (\A i \in 1..a : x[i] \notin {OpenBrace, ShutBrace})
        /\ (\A i \in 1..b : y[i] \notin {OpenBrace, ShutBrace})
    BY DEF Plain
  <1>2. /\ z \in Seq(Char) /\ Len(z) = a + b
        /\ \A i \in 1..(a + b) : z[i] = IF i <= a THEN x[i] ELSE y[i - a]
    BY <1>1, ConcatProperties
  <1> HIDE DEF z, a, b
  <1>3. \A i \in 1..(a + b) : i <= a => i \in 1..a
    BY <1>1
  <1>4. \A i \in 1..(a + b) : ~(i <= a) => i - a \in 1..b
    BY <1>1
  <1>5. \A i \in 1..(a + b) : z[i] \notin {OpenBrace, ShutBrace}
    <2> TAKE i \in 1..(a + b)
    <2>1. CASE i <= a
      <3>1. z[i] = x[i] /\ i \in 1..a
        BY <1>2, <1>3, <2>1
      <3> QED  BY <1>1, <3>1
    <2>2. CASE ~(i <= a)
      <3>1. z[i] = y[i - a] /\ i - a \in 1..b
        BY <1>2, <1>4, <2>2
      <3> QED  BY <1>1, <3>1
    <2> QED  BY <2>1, <2>2
  <1> QED  BY <1>2, <1>5 DEF Plain, z

(* none when a text is escaped and quoted,                                  *)
LEMMA PlainQuoted ==
  ASSUME NEW t, Plain(t)
  PROVE  Plain(Quoted(t))
  <1> DEFINE E == Escape(t)
             k == Len(t)
             B == {OpenBrace, ShutBrace}
             c == "n"
  <1>1. t \in Seq(Char) /\ k \in Nat /\ \A n \in 1..k : t[n] \notin B
    BY DEF Plain
  <1>2. PICK q, e : EscapedAt(q, e, t)
    BY <1>1, EscapedLies
  <1>3. Quote \notin B /\ Back \notin B /\ c \notin B
    BY Zenon DEF OpenBrace, ShutBrace, Quote, Back
  <1> HIDE DEF c, B, k, E
  <1>4. /\ e \in [1..k -> Seq(Char)] /\ q \in [0..k -> Nat]
        /\ LiesAt(q, E, e, k, Char)
        /\ \A n \in 1..k :
             \/ /\ t[n] \in {Quote, Back, Line} /\ Len(e[n]) = 2 /\ e[n][1] = Back
                /\ e[n][2] = IF t[n] = Line THEN c ELSE t[n]
             \/ t[n] \notin {Quote, Back, Line} /\ Len(e[n]) = 1 /\ e[n][1] = t[n]
    BY <1>2 DEF EscapedAt, k, E, c
  <1>5. /\ E \in Seq(Char) /\ Len(E) = q[k]
        /\ \A n \in 1..k : \A i \in 1..Len(e[n]) : E[q[n - 1] + i] = e[n][i]
    BY <1>4 DEF LiesAt
  <1>6. \A n \in 1..k : \A i \in 1..Len(e[n]) : e[n][i] \notin B
    <2> TAKE n \in 1..k
    <2>1. t[n] \notin B
      BY <1>1
    <2>2. CASE Len(e[n]) = 2 /\ e[n][1] = Back /\ e[n][2] = IF t[n] = Line THEN c ELSE t[n]
      <3>1. 1..2 = {1, 2}
        OBVIOUS
      <3> QED  BY <1>3, <2>1, <2>2, <3>1
    <2>3. CASE Len(e[n]) = 1 /\ e[n][1] = t[n]
      <3>1. 1..1 = {1}
        OBVIOUS
      <3> QED  BY <2>1, <2>3, <3>1
    <2> QED  BY <1>4, <2>2, <2>3
  <1>7. \A j \in 1..Len(E) : E[j] \notin B
    <2> TAKE j \in 1..Len(E)
    <2>1. j \in 1..q[k]
      BY <1>5
    <2>2. InPart(q, e, k, j)
      BY <1>1, <1>4, <2>1, LiesInPart
    <2>3. PICK n \in 1..k : \E i \in 1..Len(e[n]) : j = q[n - 1] + i
      BY <2>2 DEF InPart
    <2>4. PICK i \in 1..Len(e[n]) : j = q[n - 1] + i
      BY <2>3
    <2> QED  BY <1>5, <1>6, <2>4
  <1> DEFINE r == Quoted(t)
             l == Len(E)
  <1>8. /\ r \in Seq(Char) /\ Len(r) = l + 2 /\ r[1] = Quote /\ r[l + 2] = Quote
        /\ \A i \in 1..l : r[1 + i] = E[i]
    BY <1>1, <1>5, QuotedIs DEF E
  <1>9. l \in Nat
    BY <1>5
  <1> HIDE DEF r, l
  <1>10. \A i \in 1..(l + 2) : r[i] \notin B
    <2> TAKE i \in 1..(l + 2)
    <2>1. i = 1 \/ i = l + 2 \/ (i - 1 \in 1..l /\ 1 + (i - 1) = i)
      BY <1>9
    <2>2. CASE i - 1 \in 1..l /\ 1 + (i - 1) = i
      <3>1. r[1 + (i - 1)] = E[i - 1]
        BY <1>8, <2>2
      <3>2. E[i - 1] \notin B
        BY <1>7, <2>2 DEF l
      <3> QED  BY <2>2, <3>1, <3>2
    <2> QED  BY <1>3, <1>8, <2>1, <2>2
  <1> QED  BY <1>8, <1>10 DEF Plain, B, r

(* and so none in a member.                                                 *)
LEMMA PlainPair ==
  ASSUME NEW x, NEW y, Plain(x), Plain(y)
  PROVE  Plain(PairText(x, y))
  <1> DEFINE a == Quoted(x)
             b == Quoted(y)
             c == <<Colon>>
  <1>1. Plain(c)
    <2>1. Colon \notin {OpenBrace, ShutBrace}
      BY Zenon DEF Colon, OpenBrace, ShutBrace
    <2>2. Colon \in Char
      BY InputsOK, Zenon DEF Written, Colon
    <2>3. c \in Seq(Char) /\ Len(c) = 1 /\ c[1] = Colon /\ 1..1 = {1}
      BY <2>2
    <2> HIDE DEF c
    <2> QED  BY <2>1, <2>3 DEF Plain
  <1>2. Plain(a) /\ Plain(b)
    BY PlainQuoted
  <1> HIDE DEF a, b, c
  <1>3. Plain(a \o c)
    BY <1>1, <1>2, PlainJoin
  <1>4. Plain((a \o c) \o b)
    BY <1>2, <1>3, PlainJoin
  <1> QED  BY <1>4 DEF PairText, a, b, c

(* A key of one letter is plain.                                            *)
LEMMA PlainKey ==
  ASSUME NEW c \in {"c", "i", "x"}
  PROVE  Plain(<<c>>)
  <1>1. c \in Char /\ c \notin {OpenBrace, ShutBrace}
    BY InputsOK, Zenon DEF Keys, OpenBrace, ShutBrace
  <1>2. <<c>> \in Seq(Char) /\ Len(<<c>>) = 1 /\ <<c>>[1] = c /\ 1..1 = {1}
    BY <1>1
  <1> QED  BY <1>1, <1>2 DEF Plain

IdKey == <<"i">>

\* A record: its first member is the id t, its braces close at its end.
RecordBy(r, t, m) ==
  /\ m \in Seq(Char) /\ Level(PairText(IdKey, t) \o m)
  /\ r = <<OpenBrace>> \o (PairText(IdKey, t) \o m) \o <<ShutBrace>>

Record(r, t) == \E m : RecordBy(r, t, m)

(* The key of an id is a text.                                              *)
LEMMA IdIsText == IdKey \in Seq(Char) /\ Plain(IdKey)
  <1> DEFINE i == "i"
  <1>1. i \in {"c", "i", "x"}
    OBVIOUS
  <1> HIDE DEF i
  <1>2. Plain(<<i>>)
    BY <1>1, PlainKey
  <1> QED  BY <1>2 DEF IdKey, i, Plain

(* A text whose braces close at its end is level.                           *)
LEMMA ClosedLevel ==
  ASSUME NEW m, Closed(m)
  PROVE  Level(m)
  <1>1. PICK d : Depths(d, m) /\ \A n \in 1..(Len(m) - 1) : d[n] > 0
    BY DEF Closed
  <1>2. m \in Seq(Char) /\ Len(m) \in Nat
    BY DEF Closed
  <1> DEFINE k == Len(m)
  <1>3. d[0] = 0 /\ d[k] = 0
    BY <1>1 DEF Depths
  <1>4. \A n \in 1..(k - 1) : d[n] > 0
    BY <1>1
  <1> HIDE DEF k
  <1>5. \A n \in 0..k : d[n] >= 0
    <2> TAKE n \in 0..k
    <2>1. n = 0 \/ n = k \/ n \in 1..(k - 1)
      BY <1>2 DEF k
    <2>2. CASE n \in 1..(k - 1)
      <3>1. d \in [0..k -> Int]
        BY <1>1 DEF Depths, k
      <3>2. d[n] > 0 /\ d[n] \in Int
        BY <1>4, <2>2, <3>1
      <3> QED  BY <3>2
    <2> QED  BY <1>3, <2>1, <2>2
  <1> QED  BY <1>1, <1>2, <1>5 DEF Level, k

(* An object of one member, as it is written.                               *)
LEMMA OneMember ==
  ASSUME NEW x \in Seq(Char), NEW y \in Seq(Char)
  PROVE  Stringify(<<<<x, y>>>>) = <<OpenBrace>> \o PairText(x, y) \o <<ShutBrace>>
  <1> DEFINE m == <<<<x, y>>>>
             a == PairText(x, y)
             l == [n \in DOMAIN m |-> PairText(m[n][1], m[n][2])]
  <1>1. l = <<a>>
    <2>1. m[1][1] = x /\ m[1][2] = y /\ DOMAIN m = {1}
      OBVIOUS
    <2> HIDE DEF m
    <2>2. l = [n \in {1} |-> a]
      BY <2>1
    <2> QED  BY <2>2
  <1>2. Stringify(m) = <<OpenBrace>> \o Joined(l, <<Comma>>) \o <<ShutBrace>>
    BY Zenon DEF Stringify, OpenBrace, ShutBrace, Comma, Colon, PairText
  <1> HIDE DEF l, m
  <1>3. a \in Seq(Char)
    BY PairIsText
  <1> HIDE DEF a
  <1>4. Joined(<<a>>, <<Comma>>) = a
    <2>1. Comma \in Char
      BY InputsOK, Zenon DEF Written, Comma
    <2> QED  BY <1>3, <2>1, JoinedOne
  <1> QED  BY <1>1, <1>2, <1>4 DEF m, a

\* An object of two members, as it is written.
TwoWritten(x, y, v, w) ==
  Stringify(<<<<x, y>>, <<v, w>>>>)
    = <<OpenBrace>> \o (PairText(x, y) \o (<<Comma>> \o PairText(v, w))) \o <<ShutBrace>>

(* Every object of two members is written that way.                         *)
LEMMA TwoMembers ==
  ASSUME NEW x \in Seq(Char), NEW y \in Seq(Char), NEW v \in Seq(Char), NEW w \in Seq(Char)
  PROVE  TwoWritten(x, y, v, w)
  <1> DEFINE m == <<<<x, y>>, <<v, w>>>>
             a == PairText(x, y)
             b == PairText(v, w)
             l == [n \in DOMAIN m |-> PairText(m[n][1], m[n][2])]
  <1>1. l = <<a, b>>
    <2>1. m[1][1] = x /\ m[1][2] = y /\ m[2][1] = v /\ m[2][2] = w /\ DOMAIN m = {1, 2}
      OBVIOUS
    <2> HIDE DEF m
    <2>2. DOMAIN l = {1, 2} /\ l[1] = a /\ l[2] = b /\ l = [n \in {1, 2} |-> l[n]]
      BY <2>1
    <2> HIDE DEF l, a, b
    <2>3. DOMAIN <<a, b>> = {1, 2} /\ <<a, b>>[1] = a /\ <<a, b>>[2] = b
      OBVIOUS
    <2>4. <<a, b>> = [n \in {1, 2} |-> IF n = 1 THEN a ELSE b]
      OBVIOUS
    <2> QED  BY <2>2, <2>3, <2>4
  <1>2. Stringify(m) = <<OpenBrace>> \o Joined(l, <<Comma>>) \o <<ShutBrace>>
    BY Zenon DEF Stringify, OpenBrace, ShutBrace, Comma, Colon, PairText
  <1> HIDE DEF l, m
  <1>3. a \in Seq(Char) /\ b \in Seq(Char)
    BY PairIsText
  <1> HIDE DEF a, b
  <1>4. Joined(<<a, b>>, <<Comma>>) = a \o (<<Comma>> \o b)
    <2>1. Comma \in Char
      BY InputsOK, Zenon DEF Written, Comma
    <2> QED  BY <1>3, <2>1, JoinedTwo
  <1> QED  BY <1>1, <1>2, <1>4 DEF TwoWritten, m, a, b

(* The object of an id and another plain member is a record.                *)
LEMMA RecordMade ==
  ASSUME NEW t, NEW x, NEW v, Plain(t), Plain(x), Plain(v)
  PROVE  Record(Stringify(<<<<IdKey, t>>, <<x, v>>>>), t)
  <1> DEFINE a == PairText(IdKey, t)
             b == PairText(x, v)
             c == <<Comma>>
             m == c \o b
  <1>1. Plain(IdKey)
    BY IdIsText
  <1>2. Plain(c)
    <2>1. Comma \notin {OpenBrace, ShutBrace}
      BY Zenon DEF Comma, OpenBrace, ShutBrace
    <2>2. Comma \in Char
      BY InputsOK, Zenon DEF Written, Comma
    <2>3. c \in Seq(Char) /\ Len(c) = 1 /\ c[1] = Comma /\ 1..1 = {1}
      BY <2>2
    <2> HIDE DEF c
    <2> QED  BY <2>1, <2>3 DEF Plain
  <1>3. Plain(a) /\ Plain(b)
    BY <1>1, PlainPair
  <1>4. IdKey \in Seq(Char) /\ t \in Seq(Char) /\ x \in Seq(Char) /\ v \in Seq(Char)
    BY <1>1 DEF Plain
  <1>5. Stringify(<<<<IdKey, t>>, <<x, v>>>>) = <<OpenBrace>> \o (a \o m) \o <<ShutBrace>>
    <2>1. TwoWritten(IdKey, t, x, v)
      BY <1>4, TwoMembers
    <2> QED  BY <2>1, Zenon DEF TwoWritten
  <1> HIDE DEF a, b, c
  <1>6. Plain(m)
    BY <1>2, <1>3, PlainJoin
  <1> HIDE DEF m
  <1>7. Plain(a \o m)
    BY <1>3, <1>6, PlainJoin
  <1>8. Level(a \o m)
    BY <1>7, LevelPlain DEF Plain
  <1>9. m \in Seq(Char)
    BY <1>6 DEF Plain
  <1> QED  BY <1>5, <1>8, <1>9 DEF Record, RecordBy, a

(* A record ends where its braces close.                                    *)
LEMMA RecordClosed ==
  ASSUME NEW r, NEW t, Record(r, t)
  PROVE  Closed(r) /\ r \in Seq(Char)
  <1>1. PICK m : RecordBy(r, t, m)
    BY DEF Record
  <1>2. Closed(r)
    BY <1>1, LevelWrap DEF RecordBy
  <1> QED  BY <1>2 DEF Closed

(* A progress that is put into a record leaves it one.                      *)
LEMMA RecordProgress ==
  ASSUME NEW r, NEW t \in Seq(Char), NEW g, Record(r, t), Level(g)
  PROVE  Record(WithProgress(r, g), t)
  <1>1. PICK m : RecordBy(r, t, m)
    BY DEF Record
  <1> DEFINE a == PairText(IdKey, t)
             am == a \o m
             u == <<OpenBrace>>
             v == <<ShutBrace>>
             uam == u \o am
             mid == <<Comma, Quote, "p", Quote, Colon>>
             rest == mid \o g
             new == m \o rest
             last == Max({0} \cup {n \in DOMAIN r : r[n] = "}"})
             w == Len(uam)
  <1>2. m \in Seq(Char) /\ Level(am) /\ r = uam \o v /\ g \in Seq(Char)
    BY <1>1 DEF RecordBy, Level
  <1>3. a \in Seq(Char)
    <2>1. IdKey \in Seq(Char)
      BY IdIsText
    <2> QED  BY <2>1, PairIsText
  <1>4. /\ OpenBrace \in Char /\ ShutBrace \in Char /\ u \in Seq(Char) /\ v \in Seq(Char)
        /\ Len(u) = 1 /\ Len(v) = 1
    <2>1. OpenBrace \in Char /\ ShutBrace \in Char
      BY InputsOK, Zenon DEF Written, OpenBrace, ShutBrace
    <2> QED  BY <2>1
  <1>5. mid \in Seq(Char) /\ Plain(mid)
    <2> DEFINE p == "p"
    <2>1. {Comma, Quote, p, Colon} \subseteq Char
      BY InputsOK, Zenon DEF Written, Comma, Colon
    <2>2. {Comma, Quote, p, Colon} \cap {OpenBrace, ShutBrace} = {}
      BY Zenon DEF Comma, Quote, Colon, OpenBrace, ShutBrace
    <2> HIDE DEF p
    <2>3. mid = <<Comma, Quote, p, Quote, Colon>>
      BY DEF p
    <2> HIDE DEF mid
    <2>4. mid \in Seq(Char) /\ Len(mid) = 5
      BY <2>1, <2>3
    <2>5. \A i \in 1..5 : mid[i] \in {Comma, Quote, p, Colon}
      BY <2>3
    <2> QED  BY <2>2, <2>4, <2>5 DEF Plain
  <1> HIDE DEF a, u, v, mid
  <1>6. am \in Seq(Char) /\ uam \in Seq(Char) /\ rest \in Seq(Char) /\ new \in Seq(Char)
    <2> DEFINE S == Seq(Char)
    <2>1. \A x, y \in S : x \o y \in S
      OBVIOUS
    <2> HIDE DEF S
    <2>2. a \in S /\ m \in S /\ u \in S /\ mid \in S /\ g \in S
      BY <1>2, <1>3, <1>4, <1>5 DEF S
    <2>3. am \in S /\ rest \in S
      BY <2>1, <2>2
    <2>4. uam \in S /\ new \in S
      BY <2>1, <2>2, <2>3
    <2> QED  BY <2>3, <2>4 DEF S
  <1>7. /\ r \in Seq(Char) /\ Len(r) = w + 1 /\ r[w + 1] = ShutBrace
        /\ SubSeq(r, 1, w) = uam
    <2> HIDE DEF uam
    <2>1. r = uam \o <<ShutBrace>>
      BY <1>2 DEF v
    <2>2. /\ uam \o <<ShutBrace>> \in Seq(Char) /\ Len(uam \o <<ShutBrace>>) = Len(uam) + 1
          /\ (uam \o <<ShutBrace>>)[Len(uam) + 1] = ShutBrace
      BY <1>4, <1>6, OneMore
    <2>3. SubSeq(uam \o v, 1, Len(uam)) = uam
      BY <1>4, <1>6, ConcatParts
    <2> QED  BY <1>2, <2>1, <2>2, <2>3
  <1>8. w \in Nat
    BY <1>6
  <1> HIDE DEF w
  <1>9. last = w + 1
    <2> DEFINE B == {0} \cup {n \in DOMAIN r : r[n] = "}"}
    <2>1. B = {0} \cup {n \in 1..(w + 1) : r[n] = ShutBrace}
      <3>1. DOMAIN r = 1..(w + 1)
        BY <1>7
      <3> QED  BY <3>1, Zenon DEF ShutBrace
    <2>2. B \in SUBSET Int /\ w + 1 \in B /\ \A n \in B : n <= w + 1
      <3> HIDE DEF B
      <3>1. w + 1 \in 1..(w + 1)
        BY <1>8
      <3>2. w + 1 \in B
        BY <1>7, <2>1, <3>1
      <3>3. \A n \in B : n = 0 \/ n \in 1..(w + 1)
        BY <2>1
      <3>4. \A n \in B : n \in Int /\ n <= w + 1
        BY <1>8, <3>3
      <3> QED  BY <3>2, <3>4
    <2> HIDE DEF B
    <2>3. Max(B) = w + 1
      BY <2>2, MaxIs
    <2> QED  BY <2>3, Zenon DEF B
  <1>10. WithProgress(r, g) = uam \o mid \o g \o v
    <2>1. WithProgress(r, g) = IF last = 0 THEN r ELSE SubSeq(r, 1, last - 1) \o mid \o g \o v
      BY Zenon DEF WithProgress, mid, v, Comma, Colon, ShutBrace
    <2> HIDE DEF last, uam
    <2>2. last # 0 /\ last - 1 = w
      BY <1>8, <1>9
    <2> QED  BY <1>7, <2>1, <2>2
  <1>11. uam \o mid \o g \o v = u \o (a \o new) \o v
    <2>1. (uam \o mid) \o g = uam \o rest
      <3>1. uam \in Seq(Char) /\ mid \in Seq(Char) /\ g \in Seq(Char)
        BY <1>2, <1>5, <1>6
      <3> HIDE DEF uam
      <3>2. (uam \o mid) \o g = uam \o (mid \o g)
        BY <3>1, ThreeParts
      <3> QED  BY <3>2
    <2>2. (u \o am) \o rest = u \o (am \o rest)
      <3> HIDE DEF am, rest
      <3> QED  BY <1>4, <1>6, ThreeParts
    <2>3. (a \o m) \o rest = a \o (m \o rest)
      <3> HIDE DEF rest
      <3> QED  BY <1>2, <1>3, <1>6, ThreeParts
    <2> HIDE DEF rest
    <2> QED  BY <2>1, <2>2, <2>3, Zenon
  <1>12. Level(a \o new)
    <2>1. Level(mid)
      BY <1>5, LevelPlain DEF Plain
    <2>2. Level(rest)
      BY <2>1, LevelJoin
    <2> HIDE DEF rest
    <2>3. Level(am \o rest)
      <3> HIDE DEF am
      <3> QED  BY <1>2, <2>2, LevelJoin
    <2>4. (a \o m) \o rest = a \o (m \o rest)
      BY <1>2, <1>3, <1>6, ThreeParts
    <2> QED  BY <2>3, <2>4
  <1> HIDE DEF new, uam
  <1>13. RecordBy(WithProgress(r, g), t, new)
    BY <1>6, <1>10, <1>11, <1>12, Zenon DEF RecordBy, a, u, v
  <1> QED  BY <1>13 DEF Record

(* The key of an id is written as it is, in three characters.               *)
LEMMA IdNeedle ==
  /\ Quoted(IdKey) = <<Quote>> \o IdKey \o <<Quote>>
  /\ Quoted(IdKey) \in Seq(Char) /\ Len(Quoted(IdKey)) = 3 /\ Quoted(IdKey)[1] = Quote
  <1> DEFINE i == "i"
  <1>1. i \in Char
    BY InputsOK, Zenon DEF Keys
  <1>2. Escaped(i) = <<i>>
    <2>1. i # Quote /\ i # Back /\ i # Line
      BY Zenon DEF Quote, Back, Line
    <2> QED  BY <2>1, Zenon DEF Escaped
  <1> HIDE DEF i
  <1>3. IdKey = <<i>>
    BY DEF IdKey, i
  <1>4. Escape(IdKey) = FlattenSeq(<<<<i>>>>)
    <2>1. [n \in DOMAIN <<i>> |-> Escaped(<<i>>[n])] = <<<<i>>>>
      <3> DEFINE e == <<i>>
                 l == [n \in DOMAIN e |-> Escaped(e[n])]
      <3>1. DOMAIN e = {1} /\ e[1] = i
        OBVIOUS
      <3> HIDE DEF e
      <3>2. l = [n \in {1} |-> <<i>>]
        BY <1>2, <3>1
      <3> QED  BY <3>2 DEF e
    <2> QED  BY <1>3, <2>1 DEF Escape
  <1>5. <<i>> \in Seq(Char) /\ Len(<<i>>) = 1
    BY <1>1
  <1>6. FlattenSeq(<<<<i>>>>) = <<i>>
    <2> DEFINE x == <<i>>
    <2>1. x \in Seq(Char)
      BY <1>5
    <2> HIDE DEF x
    <2>2. FlattenSeq(<<x>>) = x
      BY <2>1, FlattenOne
    <2> QED  BY <2>2 DEF x
  <1>7. Escape(IdKey) = IdKey /\ IdKey \in Seq(Char) /\ Len(IdKey) = 1
    BY <1>3, <1>4, <1>5, <1>6
  <1>8. Quoted(IdKey) = <<Quote>> \o IdKey \o <<Quote>>
    BY <1>7 DEF Quoted
  <1>9. /\ Quoted(IdKey) \in Seq(Char) /\ Len(Quoted(IdKey)) = Len(Escape(IdKey)) + 2
        /\ Quoted(IdKey)[1] = Quote
    BY <1>7, QuotedIs
  <1>10. Len(Quoted(IdKey)) = 3
    <2> DEFINE l == Len(Escape(IdKey))
    <2>1. l = 1
      BY <1>7
    <2>2. Len(Quoted(IdKey)) = l + 2
      BY <1>9
    <2> HIDE DEF l
    <2> QED  BY <2>1, <2>2
  <1> QED  BY <1>8, <1>9, <1>10

(* jsonGetString finds the id of a record.                                  *)
LEMMA RecordId ==
  ASSUME NEW r, NEW t \in Seq(Char), Record(r, t)
  PROVE  GetString(r, IdKey).value = t
  <1>1. PICK m : RecordBy(r, t, m)
    BY DEF Record
  <1> DEFINE a == PairText(IdKey, t)
             am == a \o m
             u == <<OpenBrace>>
             v == <<ShutBrace>>
             uam == u \o am
             q == Quoted(IdKey)
             l == Len(Quoted(t))
             w == Len(r)
             S == {n \in 1..(w - 3) : SubSeq(r, n, n + 3 - 1) = q}
  <1>2. /\ m \in Seq(Char) /\ r = uam \o v /\ IdKey \in Seq(Char) /\ a \in Seq(Char)
    <2>1. IdKey \in Seq(Char)
      BY IdIsText
    <2> QED  BY <1>1, <2>1, PairIsText DEF RecordBy
  <1>3. OpenBrace \in Char /\ u \in Seq(Char) /\ v \in Seq(Char) /\ Len(u) = 1 /\ Len(v) = 1
    <2>1. OpenBrace \in Char /\ ShutBrace \in Char
      BY InputsOK, Zenon DEF Written, OpenBrace, ShutBrace
    <2> QED  BY <2>1
  <1>4. am \in Seq(Char) /\ uam \in Seq(Char) /\ r \in Seq(Char)
    <2> DEFINE C == Seq(Char)
    <2>1. \A x, y \in C : x \o y \in C
      OBVIOUS
    <2> HIDE DEF C, a, u, v
    <2>2. a \in C /\ m \in C /\ u \in C /\ v \in C
      BY <1>2, <1>3 DEF C
    <2>3. am \in C
      BY <2>1, <2>2
    <2>4. uam \in C
      BY <2>1, <2>2, <2>3
    <2>5. r \in C
      BY <1>2, <2>1, <2>2, <2>4
    <2> QED  BY <2>3, <2>4, <2>5 DEF C
  <1>5. Here(r, 0, u) /\ Here(r, 1, a)
    <2> HIDE DEF a, u, v
    <2>1. Here(r, 0, r)
      BY <1>4, HereAll
    <2>2. Here(r, 0, uam)
      <3>1. Here(r, 0, uam \o v)
        BY <1>2, <2>1
      <3> HIDE DEF uam
      <3> QED  BY <1>3, <1>4, <3>1, HereParts
    <2>3. Here(r, 0, u) /\ Here(r, 0 + Len(u), am)
      <3>1. Here(r, 0, u \o am)
        BY <2>2
      <3> HIDE DEF am
      <3> QED  BY <1>3, <1>4, <3>1, HereParts
    <2>4. Here(r, 1, am)
      <3>1. 0 + Len(u) = 1
        BY <1>3
      <3> QED  BY <2>3, <3>1
    <2>5. Here(r, 1, a)
      <3>1. Here(r, 1, a \o m)
        BY <2>4
      <3> QED  BY <1>2, <1>4, <3>1, HereParts
    <2> QED  BY <2>3, <2>5
  <1>6. r[1] = OpenBrace
    <2>1. 0 + 1 = 1
      OBVIOUS
    <2>2. r[0 + 1] = OpenBrace
      BY <1>3, <1>4, <1>5, HereOne
    <2> QED  BY <2>1, <2>2
  <1> HIDE DEF q
  <1>7. q \in Seq(Char) /\ Len(q) = 3 /\ q[1] = Quote /\ q = <<Quote>> \o IdKey \o <<Quote>>
    BY IdNeedle DEF q
  <1>8. /\ Len(a) = 3 + 1 + l /\ Here(r, 1, q) /\ At(r, 5) = Colon /\ Here(r, 5, Quoted(t))
    <2>1. /\ Len(a) = Len(q) + 1 + l
          /\ Here(r, 1, q)
          /\ At(r, 1 + Len(q) + 1) = Colon
          /\ Here(r, 1 + Len(q) + 1, Quoted(t))
      <3> DEFINE o == 1
      <3>1. o \in Nat /\ Here(r, o, a)
        BY <1>5
      <3> HIDE DEF o
      <3>2. /\ Len(PairText(IdKey, t)) = Len(Quoted(IdKey)) + 1 + Len(Quoted(t))
            /\ Here(r, o, Quoted(IdKey))
            /\ At(r, o + Len(Quoted(IdKey)) + 1) = Colon
            /\ Here(r, o + Len(Quoted(IdKey)) + 1, Quoted(t))
        <4>1. r \in Seq(Char) /\ IdKey \in Seq(Char) /\ t \in Seq(Char)
          BY <1>2, <1>4
        <4>2. o \in Nat /\ Here(r, o, PairText(IdKey, t))
          BY <3>1
        <4> QED  BY <4>1, <4>2, PairParts
      <3> QED  BY <3>2, Zenon DEF q, o
    <2>2. 1 + Len(q) + 1 = 5
      BY <1>7
    <2> QED  BY <1>7, <2>1, <2>2
  <1>9. l \in Nat /\ w \in Nat /\ w >= 5 + l
    <2>1. Quoted(t) \in Seq(Char)
      BY QuotedText
    <2>2. l \in Nat /\ w \in Nat
      BY <1>4, <2>1
    <2> HIDE DEF w
    <2>3. 5 + l <= w
      BY <1>8 DEF Here, w
    <2> QED  BY <2>2, <2>3
  <1> HIDE DEF w, l, a, am, u, v, uam
  <1>10. First(S, 0) = 2
    <2>1. SubSeq(r, 2, 2 + 3 - 1) = q
      <3>1. SubSeq(r, 1 + 1, 1 + Len(q)) = q
        BY <1>4, <1>7, <1>8, HereSub
      <3>2. 1 + 1 = 2 /\ 1 + Len(q) = 2 + 3 - 1
        BY <1>7
      <3> QED  BY <3>1, <3>2
    <2>2. SubSeq(r, 1, 1 + 3 - 1) # q
      <3> DEFINE x == SubSeq(r, 1, 1 + 3 - 1)
      <3>1. x[1] = r[1]
        <4>1. 1 \in 1..((1 + 3 - 1) - 1 + 1) /\ 1 + 1 - 1 = 1 /\ 1 \in Int /\ 1 + 3 - 1 \in Int /\ 1 + 3 - 1 = 3
          OBVIOUS
        <4>2. \A i \in 1..3 : r[i] \in Char
          BY <1>4, <1>9 DEF w
        <4>3. \A i \in 1..((1 + 3 - 1) - 1 + 1) : x[i] = r[1 + i - 1]
          BY <4>1, <4>2, SubSeqProperties
        <4> HIDE DEF x
        <4> QED  BY <4>1, <4>3
      <3>2. OpenBrace # Quote
        BY Zenon DEF OpenBrace, Quote
      <3> HIDE DEF x
      <3> QED  BY <1>6, <1>7, <3>1, <3>2 DEF x
    <2>3. 2 \in 1..(w - 3)
      <3>1. l >= 2
        <4>1. Escape(t) \in Seq(Char)
          BY EscapedLies DEF EscapedAt, LiesAt
        <4>2. Len(Quoted(t)) = Len(Escape(t)) + 2
          BY <4>1, QuotedIs
        <4>3. Len(Escape(t)) \in Nat
          BY <4>1
        <4> QED  BY <4>2, <4>3 DEF l
      <3> QED  BY <1>9, <3>1
    <2>4. 2 \in S /\ \A n \in S : 2 <= n
      <3>1. 2 \in S
        BY <2>1, <2>3
      <3>2. 1 \notin S
        BY <2>2
      <3>3. \A n \in S : n \in 1..(w - 3)
        OBVIOUS
      <3> HIDE DEF S
      <3>4. \A n \in S : n # 1
        BY <3>2
      <3>5. \A n \in S : 2 <= n
        BY <1>9, <3>3, <3>4
      <3> QED  BY <3>1, <3>5
    <2>5. S \in SUBSET Int
      BY <1>9
    <2> HIDE DEF S
    <2>6. Min(S) = 2
      BY <2>4, <2>5, MinIs
    <2>7. S # {}
      BY <2>4
    <2> QED  BY <2>6, <2>7 DEF First
  <1>11. ParseString(r, 6) = [ok |-> TRUE, next |-> 5 + l + 1, value |-> t]
    <2>1. ParseString(r, 5 + 1) = [ok |-> TRUE, next |-> 5 + l + 1, value |-> t]
      BY <1>4, <1>8, StringRead DEF l
    <2>2. 5 + 1 = 6
      OBVIOUS
    <2> QED  BY <2>1, <2>2
  <1>12. GetString(r, IdKey) = ParseString(r, 6)
    <2> DEFINE needle == <<Quote>> \o IdKey \o <<Quote>>
               found == First({n \in 1..(Len(r) - Len(needle)) :
                                 SubSeq(r, n, n + Len(needle) - 1) = needle}, 0)
               after == found + Len(needle)
    <2>1. GetString(r, IdKey) = IF found = 0 \/ At(r, after) # ":" THEN NoString(r) ELSE ParseString(r, after + 1)
      BY Zenon DEF GetString
    <2>2. needle = q
      BY <1>7
    <2> HIDE DEF needle
    <2>3. found = First({n \in 1..(w - 3) : SubSeq(r, n, n + 3 - 1) = q}, 0)
      BY <1>7, <2>2 DEF w
    <2>4. found = 2
      BY <1>10, <2>3
    <2> HIDE DEF found
    <2>5. after = 5 /\ after + 1 = 6
      BY <1>7, <2>2, <2>4
    <2> HIDE DEF after
    <2>6. found # 0 /\ At(r, after) = Colon
      BY <1>8, <2>4, <2>5
    <2>7. GetString(r, IdKey) = ParseString(r, after + 1)
      BY <2>1, <2>6, Zenon DEF Colon
    <2> QED  BY <2>5, <2>7
  <1> QED  BY <1>11, <1>12

(* Arrays of records come back as they were written.                        *)
LEMMA ArraysComeBack == ArrayRoundTrip
  <1> DEFINE P == {t \in Texts : {"{", "}"} \cap ToSet(t) = {}}
             rec(t, v) == Stringify(<<<<<<"i">>, t>>, <<<<"x">>, v>>>>)
             pro(u) == Stringify(<<<<<<"c">>, u>>>>)
             items(v, u) == <<WithProgress(rec(u, v), pro(u)), rec(v, v),
                              WithProgress(WithProgress(rec(v, v), pro(u)), pro(u))>>
             Good(v, u) == /\ ParseArray(StringifyArray(items(v, u))) = items(v, u)
                           /\ [n \in 1..3 |-> GetString(items(v, u)[n], <<"i">>).value] = <<u, v, v>>
  <1>1. ASSUME NEW v \in P, NEW u \in P PROVE Good(v, u)
    <2>1. \A t \in P : Plain(t)
      <3> TAKE t \in P
      <3>1. t \in Seq(Char)
        BY InputsOK
      <3> HIDE DEF P
      <3>2. DOMAIN t = 1..Len(t)
        BY <3>1
      <3> USE DEF P
      <3>3. \A i \in 1..Len(t) : t[i] \notin {"{", "}"}
        BY <3>2 DEF ToSet
      <3> QED  BY <3>1, <3>3, Zenon DEF Plain, OpenBrace, ShutBrace
    <2>2. Plain(u) /\ Plain(v) /\ u \in Seq(Char) /\ v \in Seq(Char)
      BY <2>1 DEF Plain
    <2> HIDE DEF P
    <2> DEFINE g == pro(u)
               a == rec(u, v)
               b == rec(v, v)
               x == WithProgress(a, g)
               y == WithProgress(b, g)
               z == WithProgress(y, g)
    <2>3. Plain(<<"x">>) /\ Plain(<<"c">>)
      BY PlainKey
    <2>4. Level(g)
      <3> DEFINE c == <<"c">>
      <3>1. Plain(c) /\ c \in Seq(Char)
        BY <2>3 DEF Plain
      <3> HIDE DEF c
      <3>2. Stringify(<<<<c, u>>>>) = <<OpenBrace>> \o PairText(c, u) \o <<ShutBrace>>
        BY <2>2, <3>1, OneMember
      <3>3. Plain(PairText(c, u))
        BY <2>2, <3>1, PlainPair
      <3>4. Level(PairText(c, u))
        BY <3>3, LevelPlain DEF Plain
      <3>5. Closed(<<OpenBrace>> \o PairText(c, u) \o <<ShutBrace>>)
        BY <3>4, LevelWrap
      <3>6. g = Stringify(<<<<c, u>>>>)
        BY DEF c
      <3> HIDE DEF g
      <3> QED  BY <3>2, <3>5, <3>6, ClosedLevel
    <2>5. Record(a, u) /\ Record(b, v)
      <3> DEFINE c == <<"x">>
      <3>1. Plain(c)
        BY <2>3
      <3> HIDE DEF c
      <3>2. Record(Stringify(<<<<IdKey, u>>, <<c, v>>>>), u) /\ Record(Stringify(<<<<IdKey, v>>, <<c, v>>>>), v)
        BY <2>2, <3>1, RecordMade
      <3> QED  BY <3>2, Zenon DEF c, IdKey
    <2> HIDE DEF g, a, b
    <2>6. Record(x, u) /\ Record(y, v)
      BY <2>2, <2>4, <2>5, RecordProgress
    <2> HIDE DEF y
    <2>7. Record(z, v)
      BY <2>2, <2>4, <2>6, RecordProgress
    <2> HIDE DEF x, z
    <2>8. /\ Closed(x) /\ Closed(b) /\ Closed(z)
          /\ x \in Seq(Char) /\ b \in Seq(Char) /\ z \in Seq(Char)
      BY <2>5, <2>6, <2>7, RecordClosed
    <2>9. items(v, u) = <<x, b, z>>
      BY DEF g, a, b, x, y, z
    <2> DEFINE it == <<x, b, z>>
    <2> HIDE DEF items
    <2>10. /\ DOMAIN it = 1..3 /\ it[1] = x /\ it[2] = b /\ it[3] = z /\ 1..3 = {1, 2, 3}
      OBVIOUS
    <2>11. it \in [1..3 -> Seq(Char)] /\ \A n \in 1..3 : Closed(it[n])
      <3> DEFINE S == Seq(Char)
      <3>1. x \in S /\ b \in S /\ z \in S
        BY <2>8
      <3> HIDE DEF S
      <3>2. it \in [1..3 -> S]
        BY <3>1
      <3>3. \A n \in 1..3 : Closed(it[n])
        BY <2>8
      <3> QED  BY <3>2, <3>3 DEF S
    <2> HIDE DEF it
    <2>12. ParseArray(StringifyArray(it)) = it
      <3> DEFINE k == 3
      <3>1. k \in Nat /\ k > 0 /\ it \in [1..k -> Seq(Char)] /\ \A n \in 1..k : Closed(it[n])
        BY <2>11
      <3> HIDE DEF k
      <3> QED  BY <3>1, ArrayRead
    <2>13. /\ GetString(it[1], IdKey).value = u
           /\ GetString(it[2], IdKey).value = v
           /\ GetString(it[3], IdKey).value = v
      <3>1. /\ GetString(x, IdKey).value = u
            /\ GetString(b, IdKey).value = v
            /\ GetString(z, IdKey).value = v
        BY <2>2, <2>5, <2>6, <2>7, RecordId
      <3> QED  BY <2>10, <3>1
    <2>14. [n \in 1..3 |-> GetString(it[n], IdKey).value] = <<u, v, v>>
      BY <2>13
    <2>15. items(v, u) = it
      BY <2>9 DEF it
    <2> QED  BY <2>12, <2>14, <2>15 DEF IdKey
  <1> HIDE DEF Good
  <1>2. \A v, u \in P : Good(v, u)
    BY <1>1
  <1> QED  BY <1>2, Zenon DEF ArrayRoundTrip, Good

(* What is written down is read back as it was, in every text: objects,     *)
(* records in arrays and sealed passwords.                                  *)
THEOREM TextsSafe == Spec => []TextsRoundTrip
  <1>1. TextsRoundTrip
    BY ObjectsComeBack, ArraysComeBack, SealedRoundTrip DEF TextsRoundTrip
  <1> QED  BY <1>1, PTL
=============================================================================
