-------------------------- MODULE QueryPathProofs --------------------------
(***************************************************************************)
(* Proofs about the query path, for every file, every query, every block   *)
(* size and all limits: the string search counts as many occurrences as    *)
(* there can be and never fewer than there are lines with the text, the    *)
(* scans count what the labels select, the live tail agrees with them, and *)
(* the listed events are logged ones.                                      *)
(***************************************************************************)
EXTENDS QueryPath, SequenceTheorems, FiniteSetTheorems, WellFoundedInduction, TLAPS

-----------------------------------------------------------------------------
(* Sequences.                                                               *)

\* Every set of naturals that is not empty has a least element.
LEMMA LeastNat ==
    ASSUME NEW T \in SUBSET Nat, T # {}
    PROVE  \E i \in T : \A j \in T : i <= j
<1>1. PICK i \in T : \A j \in T : ~ (<<j, i>> \in OpToRel(<, Nat))
  BY NatLessThanWellFounded, WFMin
<1>2. \A j \in T : ~ (j < i)
  BY <1>1 DEF OpToRel
<1> QED
  BY <1>2

\* f is a sequence of joined beginnings of s.
Joins(f, s, n) ==
    f = [i \in 1..n |-> IF i = 1 THEN s[i] ELSE f[i - 1] \o s[i]]

\* The recursive function in FlattenSeq exists.
LEMMA JoinsExist ==
    ASSUME NEW s, NEW n \in Nat
    PROVE  \E f : Joins(f, s, n)
<1> SUFFICES ASSUME \A f : ~Joins(f, s, n) PROVE FALSE
  OBVIOUS
<1> DEFINE T == {k \in Nat : \A f : ~Joins(f, s, k)}
<1>1. PICK k \in T : \A j \in T : k <= j
  <2>1. T \in SUBSET Nat /\ n \in T
    OBVIOUS
  <2> HIDE DEF T
  <2> QED
    BY <2>1, LeastNat
<1>2. k \in Nat /\ \A f : ~Joins(f, s, k)
  OBVIOUS
<1>3. CASE k = 0
  <2> DEFINE f == [i \in 1..0 |-> s[i]]
  <2>1. f = [i \in 1..0 |-> IF i = 1 THEN s[i] ELSE f[i - 1] \o s[i]]
    OBVIOUS
  <2> QED
    BY <1>2, <1>3, <2>1 DEF Joins
<1>4. CASE k # 0
  <2>1. k - 1 \in Nat /\ k - 1 \notin T
    BY <1>1, <1>2, <1>4
  <2>2. PICK g : Joins(g, s, k - 1)
    BY <2>1
  <2> DEFINE f == [i \in 1..k |-> IF i = 1 THEN s[i] ELSE g[i - 1] \o s[i]]
  <2>3. \A i \in 1..k - 1 : f[i] = g[i]
    <3> SUFFICES ASSUME NEW i \in 1..k - 1 PROVE f[i] = g[i]
      OBVIOUS
    <3>1. g = [j \in 1..k - 1 |-> IF j = 1 THEN s[j] ELSE g[j - 1] \o s[j]]
      BY <2>2 DEF Joins
    <3>2. g[i] = IF i = 1 THEN s[i] ELSE g[i - 1] \o s[i]
      BY <3>1
    <3>3. i \in 1..k
      BY <1>2
    <3> QED
      BY <3>2, <3>3
  <2>4. f = [i \in 1..k |-> IF i = 1 THEN s[i] ELSE f[i - 1] \o s[i]]
    <3>1. \A i \in 1..k : i # 1 => i - 1 \in 1..k - 1
      BY <1>2
    <3>2. \A i \in 1..k : i # 1 => f[i - 1] = g[i - 1]
      BY <2>3, <3>1
    <3> HIDE DEF f
    <3>3. f = [i \in 1..k |-> IF i = 1 THEN s[i] ELSE g[i - 1] \o s[i]]
      BY DEF f
    <3> QED
      BY <3>2, <3>3
  <2> QED
    BY <1>2, <2>4 DEF Joins
<1> QED
  BY <1>3, <1>4

\* FlattenSeq joins its elements from left to right.
LEMMA Flattens ==
    ASSUME NEW S, NEW s \in Seq(Seq(S))
    PROVE  \E f \in [0..Len(s) -> Seq(S)] :
              /\ f[0] = <<>> /\ FlattenSeq(s) = f[Len(s)]
              /\ \A i \in 1..Len(s) : f[i] = f[i - 1] \o s[i]
<1> DEFINE n == Len(s)
<1>0. n \in Nat /\ <<>> \in Seq(S) /\ \A i \in 1..n : s[i] \in Seq(S)
  BY LenProperties, ElementOfSeq
<1>1. CASE n = 0
  <2> DEFINE f == [i \in 0..n |-> <<>>]
  <2>1. s = <<>>
    BY <1>1, EmptySeq
  <2>2. FlattenSeq(s) = <<>>
    BY <1>1, <2>1 DEF FlattenSeq
  <2>3. f \in [0..n -> Seq(S)] /\ f[0] = <<>> /\ f[n] = <<>>
    BY <1>0
  <2>4. \A i \in 1..n : FALSE
    BY <1>1
  <2> HIDE DEF f
  <2> QED
    BY <2>2, <2>3, <2>4
<1>2. CASE n # 0
  <2> HIDE DEF n
  <2>1. \E g : Joins(g, s, n)
    BY <1>0, JoinsExist
  <2> DEFINE g == CHOOSE g : g = [i \in 1..n |-> IF i = 1 THEN s[i] ELSE g[i - 1] \o s[i]]
  <2>2. g = [i \in 1..n |-> IF i = 1 THEN s[i] ELSE g[i - 1] \o s[i]]
    BY <2>1 DEF Joins
  <2>3. FlattenSeq(s) = g[n]
    BY <1>2 DEF FlattenSeq, n
  <2> HIDE DEF g
  <2>4. g[1] = s[1] /\ \A i \in 2..n : g[i] = g[i - 1] \o s[i]
    <3>1. \A i \in 1..n : g[i] = IF i = 1 THEN s[i] ELSE g[i - 1] \o s[i]
      BY <2>2, Zenon
    <3>2. 1 \in 1..n /\ \A i \in 2..n : i \in 1..n /\ i # 1
      BY <1>0, <1>2
    <3> QED
      BY ONLY <3>1, <3>2
  <2> DEFINE f == [i \in 0..n |-> IF i = 0 THEN <<>> ELSE g[i]]
  <2>5. f[0] = <<>> /\ f[n] = g[n] /\ \A i \in 1..n : f[i] = g[i]
    BY <1>0, <1>2
  <2>6. \A i \in 1..n : g[i] \in Seq(S)
    <3> SUFFICES ASSUME NEW m \in 1..n, g[m] \notin Seq(S) PROVE FALSE
      OBVIOUS
    <3> DEFINE T == {k \in 1..n : g[k] \notin Seq(S)}
    <3>1. T \in SUBSET Nat /\ T # {}
      OBVIOUS
    <3>2. PICK k \in T : \A j \in T : k <= j
      <4> HIDE DEF T
      <4> QED
        BY <3>1, LeastNat
    <3>3. k \in 1..n /\ g[k] \notin Seq(S)
      OBVIOUS
    <3>4. k # 1
      BY <1>0, <2>4, <3>3
    <3>5. k - 1 \in 1..n /\ k - 1 \notin T /\ k \in 2..n
      BY <1>0, <3>2, <3>3, <3>4
    <3>6. g[k - 1] \in Seq(S) /\ s[k] \in Seq(S) /\ g[k] = g[k - 1] \o s[k]
      BY <1>0, <2>4, <3>3, <3>5
    <3> QED
      BY ONLY <3>3, <3>6, ConcatProperties
  <2>7. \A i \in 1..n : f[i] = f[i - 1] \o s[i]
    <3> SUFFICES ASSUME NEW i \in 1..n PROVE f[i] = f[i - 1] \o s[i]
      OBVIOUS
    <3>1. CASE i = 1
      <4>1. <<>> \o s[1] = s[1]
        BY <1>0, <3>1, ConcatEmptySeq
      <4>2. f[1] = g[1] /\ f[0] = <<>> /\ i - 1 = 0
        BY <2>5, <3>1
      <4> HIDE DEF f
      <4> QED
        BY ONLY <2>4, <3>1, <4>1, <4>2
    <3>2. CASE i # 1
      <4>1. i \in 2..n /\ i - 1 \in 1..n
        BY <1>0, <3>2
      <4> HIDE DEF f
      <4> QED
        BY <2>4, <2>5, <4>1
    <3> QED
      BY <3>1, <3>2
  <2>8. f \in [0..n -> Seq(S)]
    BY <1>0, <2>6
  <2> HIDE DEF f
  <2> QED
    BY <2>3, <2>5, <2>7, <2>8 DEF n
<1> QED
  BY <1>1, <1>2

\* Where the elements of s stand in the sequence that joins them: the i-th
\* between off[i - 1] and off[i].
Lays(off, s, joined) ==
    /\ off \in [0..Len(s) -> Nat] /\ off[0] = 0 /\ Len(joined) = off[Len(s)]
    /\ \A i \in 1..Len(s) : off[i] = off[i - 1] + Len(s[i])
    /\ \A i, k \in 0..Len(s) : i <= k => off[i] <= off[k]
    /\ \A i \in 1..Len(s) : \A j \in 1..Len(s[i]) : joined[off[i - 1] + j] = s[i][j]
    /\ \A m \in 1..Len(joined) : \E i \in 1..Len(s) : off[i - 1] < m /\ m <= off[i]

\* Every element of s stands in FlattenSeq(s), one after the other.
LEMMA Layout ==
    ASSUME NEW S, NEW s \in Seq(Seq(S))
    PROVE  FlattenSeq(s) \in Seq(S) /\ \E off : Lays(off, s, FlattenSeq(s))
<1> DEFINE n == Len(s)
<1>0. n \in Nat /\ \A i \in 1..n : s[i] \in Seq(S) /\ Len(s[i]) \in Nat
  BY LenProperties, ElementOfSeq
<1>1. PICK f \in [0..n -> Seq(S)] :
          /\ f[0] = <<>> /\ FlattenSeq(s) = f[n]
          /\ \A i \in 1..n : f[i] = f[i - 1] \o s[i]
  BY Flattens
<1> DEFINE off == [i \in 0..n |-> Len(f[i])]
<1> HIDE DEF n
<1>2. \A i \in 0..n : f[i] \in Seq(S) /\ Len(f[i]) \in Nat /\ off[i] = Len(f[i])
  BY LenProperties
<1>3. off \in [0..n -> Nat] /\ off[0] = 0 /\ 0 \in 0..n /\ n \in 0..n /\ off[n] = Len(f[n])
  <2>1. 0 \in 0..n /\ n \in 0..n
    BY <1>0
  <2>2. off \in [0..n -> Nat]
    BY <1>2
  <2> QED
    BY <1>1, <1>2, <2>1, <2>2
<1> HIDE DEF off
<1>4. \A i \in 1..n : i \in 0..n /\ i - 1 \in 0..n
  BY <1>0
<1>5. ASSUME NEW i \in 1..n
      PROVE  /\ off[i] = off[i - 1] + Len(s[i])
             /\ \A j \in 1..off[i - 1] : f[i][j] = f[i - 1][j]
             /\ \A j \in 1..Len(s[i]) : f[i][off[i - 1] + j] = s[i][j]
  <2> DEFINE a == f[i - 1]
             b == s[i]
  <2>1. a \in Seq(S) /\ b \in Seq(S) /\ f[i] = a \o b /\ Len(a) = off[i - 1] /\ Len(f[i]) = off[i]
        /\ Len(a) \in Nat /\ Len(b) \in Nat
    BY <1>0, <1>1, <1>2, <1>4
  <2> HIDE DEF a, b
  <2>2. /\ Len(a \o b) = Len(a) + Len(b)
        /\ \A j \in 1..Len(a) + Len(b) : (a \o b)[j] = IF j <= Len(a) THEN a[j] ELSE b[j - Len(a)]
    BY ONLY <2>1, ConcatProperties
  <2>3. \A j \in 1..Len(a) : (a \o b)[j] = a[j]
    BY ONLY <2>1, <2>2
  <2>4. ASSUME NEW j \in 1..Len(b) PROVE (a \o b)[Len(a) + j] = b[j]
    <3>1. Len(a) + j \in 1..Len(a) + Len(b) /\ ~(Len(a) + j <= Len(a)) /\ (Len(a) + j) - Len(a) = j
      BY <2>1
    <3> QED
      BY ONLY <2>2, <3>1
  <2> QED
    BY <2>1, <2>2, <2>3, <2>4 DEF a, b
<1>6. ASSUME NEW i \in 0..n, NEW m \in 0..n, i <= m, ~(off[i] <= off[m]) PROVE FALSE
  <2> DEFINE T == {k \in 0..n : i <= k /\ ~(off[i] <= off[k])}
  <2>1. T \in SUBSET Nat /\ T # {}
    BY <1>6
  <2>2. PICK k \in T : \A j \in T : k <= j
    <3> HIDE DEF T
    <3> QED
      BY <2>1, LeastNat
  <2>3. k \in 0..n /\ i <= k /\ ~(off[i] <= off[k]) /\ off[i] \in Nat /\ off[k] \in Nat
    BY <1>3
  <2>4. k # i
    BY <2>3
  <2>5. k \in 1..n /\ k - 1 \in 0..n /\ k - 1 \notin T /\ i <= k - 1
    BY <1>0, <2>2, <2>3, <2>4
  <2>6. off[i] <= off[k - 1] /\ off[k - 1] \in Nat
    BY <1>3, <2>5
  <2>7. off[k] = off[k - 1] + Len(s[k]) /\ Len(s[k]) \in Nat
    BY <1>0, <1>5, <2>5
  <2> QED
    BY ONLY <2>3, <2>6, <2>7
<1>7. ASSUME NEW i \in 1..n, NEW j \in 1..Len(s[i]), f[n][off[i - 1] + j] # s[i][j] PROVE FALSE
  <2> DEFINE T == {k \in i..n : f[k][off[i - 1] + j] # s[i][j]}
  <2>1. T \in SUBSET Nat /\ T # {}
    <3>1. n \in i..n
      BY <1>0
    <3>2. n \in T
      BY <1>7, <3>1
    <3> QED
      BY <3>2
  <2>2. PICK k \in T : \A l \in T : k <= l
    <3> HIDE DEF T
    <3> QED
      BY <2>1, LeastNat
  <2>3. k \in i..n /\ f[k][off[i - 1] + j] # s[i][j]
    OBVIOUS
  <2>4. k # i
    BY <1>5, <2>3
  <2>5. k \in 1..n /\ k - 1 \in i..n /\ k - 1 \in 0..n /\ i \in 0..n /\ i - 1 \in 0..n /\ i <= k - 1
    BY <1>0, <2>3, <2>4
  <2>6. f[k - 1][off[i - 1] + j] = s[i][j]
    <3>1. k - 1 \notin T
      BY <2>2, <2>3
    <3> QED
      BY <2>5, <3>1
  <2>7. off[i] <= off[k - 1] /\ off[i] = off[i - 1] + Len(s[i])
    BY <1>5, <1>6, <2>5
  <2>8. off[i] \in Nat /\ off[k - 1] \in Nat /\ off[i - 1] \in Nat /\ Len(s[i]) \in Nat
    BY <1>0, <1>3, <2>5
  <2>9. off[i - 1] + j \in 1..off[k - 1]
    <3> DEFINE x == off[i - 1]
               y == off[k - 1]
               z == off[i]
               l == Len(s[i])
    <3>1. x \in Nat /\ y \in Nat /\ l \in Nat /\ z = x + l /\ z <= y /\ j \in 1..l
      BY <2>7, <2>8
    <3> HIDE DEF x, y, z, l
    <3>2. x + j \in 1..y
      BY ONLY <3>1
    <3> QED
      BY <3>2 DEF x, y
  <2>10. f[k][off[i - 1] + j] = f[k - 1][off[i - 1] + j]
    BY <1>5, <2>5, <2>9
  <2> QED
    BY <2>3, <2>6, <2>10
<1>8. ASSUME NEW m \in 1..off[n] PROVE \E i \in 1..n : off[i - 1] < m /\ m <= off[i]
  <2> DEFINE T == {k \in 0..n : m <= off[k]}
  <2>1. T \in SUBSET Nat /\ T # {} /\ m \in Nat /\ m >= 1
    BY <1>3
  <2>2. PICK k \in T : \A l \in T : k <= l
    <3> HIDE DEF T
    <3> QED
      BY <2>1, LeastNat
  <2>3. k \in 0..n /\ m <= off[k]
    OBVIOUS
  <2>4. k # 0
    BY <1>3, <2>1, <2>3
  <2>5. k \in 1..n /\ k - 1 \in 0..n /\ k - 1 \notin T
    BY <1>0, <2>2, <2>3, <2>4
  <2>6. off[k - 1] \in Nat /\ ~(m <= off[k - 1])
    BY <1>3, <2>5
  <2>7. off[k - 1] < m
    BY <2>1, <2>6
  <2> QED
    BY <2>3, <2>5, <2>7
<1>9. \E o : Lays(o, s, f[n])
  <2>1. \A i, k \in 0..n : i <= k => off[i] <= off[k]
    BY <1>6
  <2>2. \A i \in 1..n : \A j \in 1..Len(s[i]) : f[n][off[i - 1] + j] = s[i][j]
    BY <1>7
  <2>3. Lays(off, s, f[n])
    BY <1>3, <1>5, <1>8, <2>1, <2>2 DEF Lays, n
  <2> QED
    BY <2>3
<1> QED
  BY <1>1, <1>2, <1>3, <1>9

-----------------------------------------------------------------------------
(* The string search.  T is the text, P the pattern.                        *)

\* P stands in T at i, character by character.
Fits(T, P, i) == i + Len(P) <= Len(T) + 1 /\ \A j \in 1..Len(P) : T[i + j - 1] = P[j]

Apart(P, S) == \A i, j \in S : i < j => i + Len(P) <= j

FitsWithin(T, P, q, fin) == {i \in 1..Len(T) : Fits(T, P, i) /\ (fin \/ i < q)}

\* F, of size k, is a set of occurrences that end before q, and no set of
\* disjoint occurrences that begin before q, or anywhere once fin, is larger.
Best(T, P, F, k, q, fin) ==
    /\ q \in Nat \ {0} /\ fin \in BOOLEAN /\ k \in Nat
    /\ IsFiniteSet(F) /\ k = Cardinality(F)
    /\ F \in SUBSET (1..Len(T)) /\ (\A i \in F : Fits(T, P, i) /\ i + Len(P) <= q) /\ Apart(P, F)
    /\ \A S \in SUBSET FitsWithin(T, P, q, fin) : Apart(P, S) => Cardinality(S) <= k

\* strncmp compares character by character.
LEMMA Compared ==
    ASSUME NEW C, NEW T \in Seq(C), NEW P \in Seq(C), NEW i \in Nat \ {0}
    PROVE  (i + Len(P) <= Len(T) + 1 /\ SubSeq(T, i, i + Len(P) - 1) = P) <=> Fits(T, P, i)
<1> DEFINE n == Len(P)
           u == SubSeq(T, i, i + n - 1)
<1>1. n \in Nat /\ Len(T) \in Nat /\ \A k \in 1..Len(T) : T[k] \in C
  BY LenProperties, ElementOfSeq
<1> SUFFICES ASSUME i + n <= Len(T) + 1
             PROVE  u = P <=> \A j \in 1..n : T[i + j - 1] = P[j]
  BY DEF Fits
<1>2. /\ u \in Seq(C) /\ Len(u) = n
      /\ \A j \in 1..n : u[j] = T[i + j - 1]
  <2>1. i \in Int /\ i + n - 1 \in Int /\ \A k \in i..i + n - 1 : T[k] \in C
    BY <1>1
  <2> DEFINE m == i + n - 1
  <2>2. (IF i <= m THEN m - i + 1 ELSE 0) = n /\ m - i + 1 = n
    BY <1>1
  <2> HIDE DEF m
  <2>3. /\ SubSeq(T, i, m) \in Seq(C) /\ Len(SubSeq(T, i, m)) = IF i <= m THEN m - i + 1 ELSE 0
        /\ \A j \in 1..m - i + 1 : SubSeq(T, i, m)[j] = T[i + j - 1]
    BY <2>1, SubSeqProperties DEF m
  <2> QED
    BY <2>2, <2>3 DEF m
<1> HIDE DEF u, n
<1>3. (\A j \in 1..n : u[j] = P[j]) => u = P
  BY <1>2, SeqEqual DEF n
<1> QED
  BY <1>2, <1>3

\* Nothing has been searched.
LEMMA BestBegin ==
    ASSUME NEW C, NEW T \in Seq(C), NEW P \in Seq(C), NEW fin \in BOOLEAN, fin => T = <<>>
    PROVE  Best(T, P, {}, 0, 1, fin)
<1>1. FitsWithin(T, P, 1, fin) = {}
  <2>1. T = <<>> => 1..Len(T) = {}
    OBVIOUS
  <2>2. \A i \in 1..Len(T) : ~(i < 1)
    BY LenProperties
  <2> QED
    BY <2>1, <2>2 DEF FitsWithin
<1>2. IsFiniteSet({}) /\ Cardinality({}) = 0
  BY FS_EmptySet
<1>3. \A S \in SUBSET FitsWithin(T, P, 1, fin) : Cardinality(S) <= 0
  <2> SUFFICES ASSUME NEW S \in SUBSET FitsWithin(T, P, 1, fin) PROVE Cardinality(S) <= 0
    OBVIOUS
  <2>1. S = {}
    BY <1>1
  <2> QED
    BY <1>2, <2>1
<1> QED
  BY <1>2, <1>3 DEF Best, Apart

\* If q moves and no occurrence begins between, the best stays the best.
LEMMA BestMoves ==
    ASSUME NEW T, NEW P, NEW F, NEW k, NEW q, NEW fin, Best(T, P, F, k, q, fin), Len(P) \in Nat,
           NEW r \in Nat \ {0}, q <= r, NEW end \in BOOLEAN,
           FitsWithin(T, P, r, end) \subseteq FitsWithin(T, P, q, fin), Len(T) \in Nat
    PROVE  Best(T, P, F, k, r, end)
<1>1. \A i \in F : i + Len(P) <= r
  <2> SUFFICES ASSUME NEW i \in F PROVE i + Len(P) <= r
    OBVIOUS
  <2>1. i \in Nat /\ q \in Nat /\ i + Len(P) <= q
    BY DEF Best
  <2> QED
    BY <2>1
<1> QED
  BY <1>1 DEF Best

\* memchr's candidate is the first place where an occurrence can begin.
LEMMA NoneBefore ==
    ASSUME NEW C, NEW T \in Seq(C), NEW P \in Seq(C), P # <<>>, NEW q \in Nat \ {0},
           NEW i \in 1..Len(T), Fits(T, P, i), i >= q
    PROVE  i \in {j \in q..Len(T) : T[j] = P[1]}
<1>1. Len(P) \in Nat /\ Len(P) # 0 /\ Len(T) \in Nat
  BY LenProperties, EmptySeq
<1>2. 1 \in 1..Len(P) /\ i + 1 - 1 = i
  BY <1>1
<1>3. T[i] = P[1]
  BY <1>2 DEF Fits
<1> QED
  BY <1>1, <1>3

\* A match adds one, and no more can be added up to its end.
LEMMA BestMatch ==
    ASSUME NEW C, NEW T \in Seq(C), NEW P \in Seq(C), P # <<>>,
           NEW F, NEW k, NEW q, Best(T, P, F, k, q, FALSE), NEW c \in q..Len(T), Fits(T, P, c),
           \A i \in {j \in q..Len(T) : T[j] = P[1]} : c <= i
    PROVE  Best(T, P, F \cup {c}, k + 1, c + Len(P), FALSE)
<1> DEFINE n == Len(P)
<1>0. /\ n \in Nat /\ n # 0 /\ Len(T) \in Nat /\ q \in Nat \ {0} /\ k \in Nat /\ k = Cardinality(F)
      /\ IsFiniteSet(F) /\ F \in SUBSET (1..Len(T)) /\ Apart(P, F)
      /\ (\A i \in F : Fits(T, P, i) /\ i + n <= q)
      /\ c \in Nat /\ c >= q /\ c <= Len(T) /\ c \in 1..Len(T)
  BY LenProperties, EmptySeq DEF Best
<1>1. c \notin F
  <2> SUFFICES ASSUME c \in F PROVE FALSE
    OBVIOUS
  <2>1. c + n <= q
    BY <1>0
  <2> QED
    BY ONLY <1>0, <2>1
<1>2. IsFiniteSet(F \cup {c}) /\ Cardinality(F \cup {c}) = k + 1
  BY <1>0, <1>1, FS_AddElement
<1>3. \A i \in F : i \in Nat /\ i + n <= c /\ i + n <= c + n /\ i < c
  <2> SUFFICES ASSUME NEW i \in F PROVE i \in Nat /\ i + n <= c /\ i + n <= c + n /\ i < c
    OBVIOUS
  <2>1. i \in Nat /\ i + n <= q
    BY <1>0
  <2> QED
    BY ONLY <1>0, <2>1
<1>4. Apart(P, F \cup {c})
  <2> SUFFICES ASSUME NEW i \in F \cup {c}, NEW j \in F \cup {c}, i < j PROVE i + n <= j
    BY DEF Apart
  <2>1. CASE i \in F /\ j \in F
    BY <1>0, <2>1 DEF Apart
  <2>2. CASE i \in F /\ j = c
    BY <1>3, <2>2
  <2>3. CASE i = c /\ j \in F
    <3>1. j < c /\ j \in Nat /\ c < j
      BY <1>3, <2>3
    <3> QED
      BY ONLY <1>0, <3>1
  <2>4. CASE i = c /\ j = c
    BY <1>0, <2>4
  <2> QED
    BY <2>1, <2>2, <2>3, <2>4
<1>5. ASSUME NEW S \in SUBSET FitsWithin(T, P, c + n, FALSE), Apart(P, S)
      PROVE  Cardinality(S) <= k + 1
  <2> DEFINE A == {i \in S : i < q}
             B == {i \in S : ~(i < q)}
  <2>1. \A i \in S : i \in 1..Len(T) /\ Fits(T, P, i) /\ i < c + n
    BY DEF FitsWithin
  <2>2. \A i \in B : i \in Nat /\ c <= i /\ i < c + n
    <3> SUFFICES ASSUME NEW i \in B PROVE i \in Nat /\ c <= i /\ i < c + n
      OBVIOUS
    <3>1. i \in 1..Len(T) /\ Fits(T, P, i) /\ i < c + n /\ ~(i < q)
      BY <2>1
    <3>2. i \in Nat /\ i >= q
      BY <1>0, <3>1
    <3>3. i \in {j \in q..Len(T) : T[j] = P[1]}
      BY <1>0, <3>1, <3>2, NoneBefore
    <3> QED
      BY <3>1, <3>2, <3>3
  <2>3. \A i, j \in B : i = j
    <3> SUFFICES ASSUME NEW i \in B, NEW j \in B, i < j PROVE FALSE
      BY <2>2
    <3>1. i + n <= j
      BY <1>5 DEF Apart
    <3>2. c <= i /\ j < c + n /\ i \in Nat /\ j \in Nat
      BY <2>2
    <3> QED
      BY ONLY <1>0, <3>1, <3>2
  <2>4. IsFiniteSet(S) /\ IsFiniteSet(A) /\ IsFiniteSet(B)
    <3>1. IsFiniteSet(1..Len(T))
      BY <1>0, FS_Interval
    <3>2. IsFiniteSet(S)
      BY <2>1, <3>1, FS_Subset
    <3> QED
      BY <3>2, FS_Subset
  <2>5. Cardinality(A) <= k /\ Cardinality(A) \in Nat
    <3>1. A \in SUBSET FitsWithin(T, P, q, FALSE)
      BY <2>1 DEF FitsWithin
    <3>2. Apart(P, A)
      BY <1>5 DEF Apart
    <3> HIDE DEF A
    <3> QED
      BY <2>4, <3>1, <3>2, FS_CardinalityType DEF Best
  <2>6. Cardinality(B) <= 1 /\ Cardinality(B) \in Nat
    <3>1. CASE B = {}
      BY <3>1, FS_EmptySet
    <3>2. CASE B # {}
      <4>1. PICK b : B = {b}
        BY <2>3, <3>2
      <4>2. Cardinality({b}) = 1
        BY FS_Singleton
      <4> HIDE DEF B
      <4> QED
        BY <4>1, <4>2
    <3> QED
      BY <3>1, <3>2
  <2>7. S = A \cup B /\ A \cap B = {}
    OBVIOUS
  <2> HIDE DEF A, B
  <2>8. Cardinality(A \cup B) = Cardinality(A) + Cardinality(B) - Cardinality(A \cap B)
    BY ONLY <2>4, FS_Union, Zenon
  <2>9. Cardinality(A \cap B) = 0
    BY <2>7, FS_EmptySet
  <2> QED
    BY ONLY <1>0, <2>5, <2>6, <2>7, <2>8, <2>9
<1>6. c + n \in Nat \ {0} /\ k + 1 \in Nat /\ FALSE \in BOOLEAN
  BY <1>0
<1>7. F \cup {c} \in SUBSET (1..Len(T)) /\ \A i \in F \cup {c} : Fits(T, P, i) /\ i + n <= c + n
  BY <1>0, <1>3
<1> QED
  BY <1>2, <1>4, <1>5, <1>6, <1>7 DEF Best

\* Past a candidate that is no match nothing is missed ...
LEMMA BestMismatch ==
    ASSUME NEW C, NEW T \in Seq(C), NEW P \in Seq(C), P # <<>>,
           NEW F, NEW k, NEW q, Best(T, P, F, k, q, FALSE), NEW c \in q..Len(T), ~Fits(T, P, c),
           \A i \in {j \in q..Len(T) : T[j] = P[1]} : c <= i
    PROVE  Best(T, P, F, k, c + 1, FALSE)
<1>0. Len(P) \in Nat /\ Len(T) \in Nat /\ q \in Nat \ {0} /\ c \in Nat /\ c >= q
  BY LenProperties DEF Best
<1>1. FitsWithin(T, P, c + 1, FALSE) \subseteq FitsWithin(T, P, q, FALSE)
  <2> SUFFICES ASSUME NEW i \in 1..Len(T), Fits(T, P, i), i < c + 1 PROVE i < q
    BY DEF FitsWithin
  <2> SUFFICES ASSUME ~(i < q) PROVE FALSE
    OBVIOUS
  <2>1. i \in {j \in q..Len(T) : T[j] = P[1]}
    BY <1>0, NoneBefore
  <2>2. c <= i
    BY <2>1
  <2>3. i = c
    BY <1>0, <2>2
  <2> QED
    BY <2>3
<1>2. c + 1 \in Nat \ {0} /\ q <= c + 1 /\ FALSE \in BOOLEAN
  BY <1>0
<1> QED
  BY ONLY <1>0, <1>1, <1>2, BestMoves, Best(T, P, F, k, q, FALSE)

\* ... nor after the last place the pattern has room at.
LEMMA BestBreak ==
    ASSUME NEW C, NEW T \in Seq(C), NEW P \in Seq(C), P # <<>>,
           NEW F, NEW k, NEW q, Best(T, P, F, k, q, FALSE),
           \A i \in {j \in q..Len(T) : T[j] = P[1]} : i + Len(P) > Len(T) + 1
    PROVE  Best(T, P, F, k, q, TRUE)
<1>0. Len(P) \in Nat /\ Len(T) \in Nat /\ q \in Nat \ {0}
  BY LenProperties DEF Best
<1>1. FitsWithin(T, P, q, TRUE) \subseteq FitsWithin(T, P, q, FALSE)
  <2> SUFFICES ASSUME NEW i \in 1..Len(T), Fits(T, P, i), ~(i < q) PROVE FALSE
    BY DEF FitsWithin
  <2>1. i \in {j \in q..Len(T) : T[j] = P[1]}
    BY <1>0, NoneBefore
  <2>2. i + Len(P) > Len(T) + 1 /\ i + Len(P) <= Len(T) + 1 /\ i \in Nat
    BY <2>1 DEF Fits
  <2> QED
    BY ONLY <1>0, <2>2
<1>2. q <= q /\ TRUE \in BOOLEAN
  BY <1>0
<1> QED
  BY ONLY <1>0, <1>1, <1>2, BestMoves, Best(T, P, F, k, q, FALSE)

\* The string search counts as everybody does.
LEMMA SameCardinality == \A S : Search!Cardinality(S) = Cardinality(S)
BY DEF Search!Cardinality, Cardinality

\* What the search has found is the best, in the words of the module.
LEMMA BestIsMaximal ==
    ASSUME Bytes(file) \in Text, Pattern \in Text,
           Best(Bytes(file), Pattern, found, occurrences, p, finished)
    PROVE  Search!CountIsMaximal
<1> DEFINE T == Bytes(file)
           P == Pattern
<1>1. ASSUME NEW i \in 1..Len(T) PROVE Search!MatchesAt(i) <=> Fits(T, P, i)
  <2>1. i \in Nat \ {0}
    BY LenProperties
  <2> QED
    BY <2>1, Compared DEF Search!MatchesAt, Text
<1>2. {i \in 1..Len(T) : Search!MatchesAt(i) /\ (finished \/ i < p)} = FitsWithin(T, P, p, finished)
  BY <1>1 DEF FitsWithin
<1>3. \A S : Search!Disjoint(S) <=> Apart(P, S)
  BY DEF Search!Disjoint, Apart
<1>4. \A i \in found : Search!MatchesAt(i)
  <2> SUFFICES ASSUME NEW i \in found PROVE Search!MatchesAt(i)
    OBVIOUS
  <2>1. i \in 1..Len(T) /\ Fits(T, P, i)
    BY DEF Best
  <2> QED
    BY <1>1, <2>1
<1>5. /\ Apart(P, found) /\ occurrences = Cardinality(found)
      /\ \A S \in SUBSET FitsWithin(T, P, p, finished) : Apart(P, S) => Cardinality(S) <= occurrences
  BY DEF Best
<1>6. Search!Disjoint(found) /\ \A S \in SUBSET FitsWithin(T, P, p, finished) :
                                   Search!Disjoint(S) => Cardinality(S) <= occurrences
  BY <1>3, <1>5
<1>7. \A S \in SUBSET {i \in 1..Len(T) : Search!MatchesAt(i) /\ (finished \/ i < p)} :
          Search!Disjoint(S) => Cardinality(S) <= occurrences
  BY ONLY <1>2, <1>6
<1> QED
  BY <1>4, <1>5, <1>6, <1>7, SameCardinality DEF Search!CountIsMaximal

\* One turn of the loop.
LEMMA BestStep ==
    ASSUME Bytes(file) \in Text, Pattern \in Text, Pattern # <<>>,
           Best(Bytes(file), Pattern, found, occurrences, p, finished), Search!Step
    PROVE  Best(Bytes(file), Pattern, found', occurrences', p', finished')
<1> DEFINE T == Bytes(file)
           P == Pattern
<1>0. T \in Seq(Chars) /\ P \in Seq(Chars) /\ p \in Nat \ {0} /\ Len(T) \in Nat
  BY LenProperties DEF Text, Best
<1>m. ASSUME NEW i \in p..Len(T) PROVE Search!MatchesAt(i) <=> Fits(T, P, i)
  <2>1. i \in Nat \ {0}
    BY <1>0
  <2> QED
    BY <1>0, <2>1, Compared DEF Search!MatchesAt
<1>1. ~finished /\ finished = FALSE
  BY DEF Search!Step, Search!Break, Search!Match, Search!Mismatch, Best
<1>2. Search!Candidates = {j \in p..Len(T) : T[j] = P[1]}
  BY DEF Search!Candidates
<1>b. Best(T, P, found, occurrences, p, FALSE)
  BY <1>1
<1>3. CASE Search!Break
  <2>1. /\ \A c \in {j \in p..Len(T) : T[j] = P[1]} : c + Len(P) > Len(T) + 1
        /\ finished' = TRUE /\ UNCHANGED <<p, occurrences, found>>
    BY <1>2, <1>3 DEF Search!Break
  <2> HIDE DEF T, P
  <2>2. Best(T, P, found, occurrences, p, TRUE)
    BY <1>0, <1>b, <2>1, BestBreak DEF P
  <2> QED
    BY <2>1, <2>2 DEF T, P
<1>4. ASSUME NEW c \in p..Len(T), Search!Match(c)
      PROVE  Best(T, P, found', occurrences', p', finished')
  <2>1. /\ Fits(T, P, c) /\ \A i \in {j \in p..Len(T) : T[j] = P[1]} : c <= i
        /\ occurrences' = occurrences + 1 /\ found' = found \cup {c} /\ p' = c + Len(P)
        /\ finished' = FALSE
    BY <1>1, <1>2, <1>4, <1>m DEF Search!Match, Search!IsCandidate, Search!AfterMatch
  <2> HIDE DEF T, P
  <2>2. Best(T, P, found \cup {c}, occurrences + 1, c + Len(P), FALSE)
    BY <1>0, <1>b, <2>1, BestMatch DEF P
  <2> QED
    BY <2>1, <2>2
<1>5. ASSUME NEW c \in p..Len(T), Search!Mismatch(c)
      PROVE  Best(T, P, found', occurrences', p', finished')
  <2>1. /\ ~Fits(T, P, c) /\ \A i \in {j \in p..Len(T) : T[j] = P[1]} : c <= i
        /\ occurrences' = occurrences /\ found' = found /\ p' = c + 1
        /\ finished' = FALSE
    BY <1>1, <1>2, <1>5, <1>m DEF Search!Mismatch, Search!IsCandidate, Search!AfterMismatch
  <2> HIDE DEF T, P
  <2>2. Best(T, P, found, occurrences, c + 1, FALSE)
    BY <1>0, <1>b, <2>1, BestMismatch DEF P
  <2> QED
    BY <2>1, <2>2
<1> QED
  BY <1>3, <1>4, <1>5 DEF Search!Step

-----------------------------------------------------------------------------
(* Translation and parsing keep to texts.                                   *)

\* A part of a text is a text.
LEMMA Parts ==
    ASSUME NEW s \in Text, NEW m \in Nat \ {0}, NEW n \in Int, n <= Len(s)
    PROVE  SubSeq(s, m, n) \in Text
<1>1. Len(s) \in Nat /\ \A i \in 1..Len(s) : s[i] \in Chars
  BY LenProperties, ElementOfSeq DEF Text
<1>2. \A i \in m..n : i \in 1..Len(s)
  BY <1>1
<1>3. \A i \in m..n : s[i] \in Chars
  BY <1>1, <1>2
<1>4. m \in Int
  OBVIOUS
<1> QED
  BY <1>3, <1>4, SubSeqProperties DEF Text

\* The first and the last of some positions.
LEMMA Ends ==
    ASSUME NEW n \in Nat, NEW K \in SUBSET (1..n), K # {}
    PROVE  Min(K) \in 1..n /\ Max(K) \in 1..n
<1>1. \A i \in K : i \in Nat /\ i >= 1 /\ i <= n
  OBVIOUS
<1>2. \E i \in K : \A j \in K : i <= j
  <2>1. K \in SUBSET Nat
    BY <1>1
  <2> QED
    BY <2>1, LeastNat
<1>3. \E i \in K : \A j \in K : i >= j
  <2> DEFINE T == {m \in Nat : \A j \in K : j <= m}
  <2>1. T \in SUBSET Nat /\ n \in T
    BY <1>1
  <2>2. PICK m \in T : \A j \in T : m <= j
    <3> HIDE DEF T
    <3> QED
      BY <2>1, LeastNat
  <2>3. m \in Nat /\ \A j \in K : j <= m
    OBVIOUS
  <2>4. m \in K
    <3> SUFFICES ASSUME m \notin K PROVE FALSE
      OBVIOUS
    <3>1. \A j \in K : j <= m - 1 /\ m - 1 \in Nat
      BY <1>1, <2>3
    <3>2. m - 1 \in T
      BY <3>1
    <3> QED
      BY <2>2, <2>3, <3>2
  <2>5. \A j \in K : m >= j
    BY <1>1, <2>3
  <2> QED
    BY <2>4, <2>5
<1>4. Min(K) \in K
  BY <1>2 DEF Min
<1>5. Max(K) \in K
  BY <1>3 DEF Max
<1> QED
  BY <1>4, <1>5

\* What parse_query looks for is a text.
LEMMA PatternIsText ==
    ASSUME NEW s \in Text
    PROVE  string_pattern(s) \in Text
<1>0. \A u \in Text : Len(u) \in Nat /\ DOMAIN u = 1..Len(u)
  BY LenProperties DEF Text
<1>1. ASSUME NEW u \in Text PROVE trim(u) \in Text
  <2> DEFINE K == {i \in DOMAIN u : ~isspace(u[i])}
  <2>1. CASE K = {}
    <3>1. <<>> \in Text
      BY DEF Text
    <3> QED
      BY <2>1, <3>1 DEF trim
  <2>2. CASE K # {}
    <3>1. K \in SUBSET (1..Len(u)) /\ Len(u) \in Nat
      BY <1>0
    <3>2. trim(u) = SubSeq(u, Min(K), Max(K))
      BY <2>2 DEF trim
    <3> HIDE DEF K
    <3>3. Min(K) \in 1..Len(u) /\ Max(K) \in 1..Len(u)
      BY <2>2, <3>1, Ends
    <3>4. Min(K) \in Nat \ {0} /\ Max(K) \in Int /\ Max(K) <= Len(u)
      BY <3>1, <3>3
    <3> QED
      BY <3>2, <3>4, Parts
  <2> QED
    BY <2>1, <2>2
<1>2. ASSUME NEW u \in Text PROVE Inner(u) \in Text
  <2>1. Len(u) - 1 \in Int /\ Len(u) - 1 <= Len(u) /\ 2 \in Nat \ {0}
    BY <1>0
  <2> QED
    BY <2>1, Parts DEF Inner
<1>3. ASSUME NEW u \in Text PROVE Unquoted(u) \in Text
  BY <1>2 DEF Unquoted
<1> QED
  BY <1>1, <1>2, <1>3 DEF string_pattern

Translation == [status : Nat \cup {None}, latency : Nat \cup {None}, text : Text]

\* parse returns a translation: without its line filter when there is a label.
LEMMA ParseTypes ==
    ASSUME NEW q \in Queries
    PROVE  /\ parse(q) \in Translation
           /\ parse(q).status = parseInt(q.status) /\ parse(q).latency = parseInt(q.latency)
           /\ parse(q).text = IF parseInt(q.status) = None /\ parseInt(q.latency) = None /\ q.line # None
                              THEN q.line ELSE <<>>
<1>1. /\ q.status \in Condition \cup {None} /\ q.latency \in Condition \cup {None}
      /\ q.line \in Text \cup {None}
  BY InputsAssumption
<1>2. ASSUME NEW c \in Condition \cup {None} PROVE parseInt(c) \in Nat \cup {None}
  BY DEF parseInt, Condition
<1>3. parseInt(q.status) \in Nat \cup {None} /\ parseInt(q.latency) \in Nat \cup {None}
  BY <1>1, <1>2
<1>4. <<>> \in Text
  BY DEF Text
<1> HIDE DEF Text
<1> QED
  BY <1>1, <1>3, <1>4 DEF parse, Translation

\* So does parse_query, with targets that are numbers.
LEMMA ParseQueryTypes ==
    ASSUME NEW t \in Translation
    PROVE  /\ parse_query(t).pattern \in Text
           /\ parse_query(t).status_target \in Nat /\ parse_query(t).latency_target \in Nat
           /\ parse_query(t).type \in {"numerical", "search"}
           /\ t.status # None => /\ parse_query(t).type = "numerical"
                                 /\ parse_query(t).status_target = t.status
                                 /\ parse_query(t).latency_target = Target(t.latency)
           /\ parse_query(t).type = "search" => t.status = None /\ t.latency = None
<1>1. t.status \in Nat \cup {None} /\ t.latency \in Nat \cup {None} /\ t.text \in Text
  BY DEF Translation
<1>2. string_pattern(t.text) \in Text /\ <<>> \in Text
  BY <1>1, PatternIsText DEF Text
<1>3. Target(t.status) \in Nat /\ Target(t.latency) \in Nat
  BY <1>1 DEF Target
<1>4. t.status # None => Target(t.status) = t.status
  BY DEF Target
<1>5. (t.status # None \/ t.latency # None) => is_numerical(t)
  BY DEF is_numerical
<1>6. CASE is_numerical(t)
  BY <1>2, <1>3, <1>4, <1>6 DEF parse_query
<1>7. CASE ~is_numerical(t)
  BY <1>2, <1>5, <1>7 DEF parse_query
<1> QED
  BY <1>6, <1>7

\* A sequence of one element.
LEMMA ShortSeq ==
    ASSUME NEW S, NEW x \in S
    PROVE  <<x>> \in Seq(S) /\ Len(<<x>>) = 1 /\ <<x>>[1] = x
OBVIOUS

\* What a document says, its line and what is searched of it are texts.
LEMMA DocTexts ==
    ASSUME NEW doc \in Doc
    PROVE  /\ doc.other \in Text /\ Said(doc) \in Text /\ Line(doc) \in Text
           /\ RawLine(doc) \in Text /\ Message(doc) \in Text
           /\ <<"quote">> \in Text /\ <<"newline">> \in Text
<1>1. doc.other \in Text /\ doc.text \in Text \cup {Missing}
  BY DEF Doc
<1>2. <<"quote">> \in Text /\ <<"newline">> \in Text /\ <<>> \in Text
  <2>1. "quote" \in Chars /\ "newline" \in Chars
    BY InputsAssumption
  <2> QED
    BY <2>1, ShortSeq DEF Text
<1>3. \A u, v \in Text : u \o v \in Text
  BY ConcatProperties DEF Text
<1>4. Said(doc) \in Text
  BY <1>1, <1>2 DEF Said
<1> HIDE DEF Text
<1>5. Line(doc) \in Text
  BY <1>1, <1>2, <1>3, <1>4 DEF Line
<1>6. RawLine(doc) \in Text
  BY <1>2, <1>3, <1>5 DEF RawLine
<1>7. Message(doc) \in Text
  BY <1>1, <1>5 DEF Message
<1> QED
  BY <1>1, <1>2, <1>4, <1>5, <1>6, <1>7

RawLines(docs) == [i \in DOMAIN docs |-> RawLine(docs[i])]

\* The bytes of a file are a text, laid out line by line.
LEMMA BytesLayout ==
    ASSUME NEW docs \in Seq(Doc)
    PROVE  /\ Bytes(docs) \in Text /\ Len(RawLines(docs)) = Len(docs)
           /\ RawLines(docs) \in Seq(Text) /\ \E off : Lays(off, RawLines(docs), Bytes(docs))
<1>1. Len(docs) \in Nat /\ DOMAIN docs = 1..Len(docs)
  BY LenProperties
<1>2. ASSUME NEW i \in 1..Len(docs) PROVE RawLine(docs[i]) \in Text
  <2>1. docs[i] \in Doc
    BY ElementOfSeq
  <2> QED
    BY <2>1, DocTexts
<1>3. RawLines(docs) \in [1..Len(docs) -> Text]
  BY <1>1, <1>2 DEF RawLines
<1> HIDE DEF RawLines, Text
<1>4. RawLines(docs) \in Seq(Text) /\ Len(RawLines(docs)) = Len(docs)
  BY <1>1, <1>3
<1>5. Bytes(docs) = FlattenSeq(RawLines(docs))
  BY DEF Bytes, RawLines
<1> QED
  BY <1>4, <1>5, Layout DEF Text

-----------------------------------------------------------------------------
(* What each stage has computed.                                            *)

AfterParse == {"scanning", "searching", "counted", "listed"}
AfterExport == {"exported"} \cup AfterParse
AfterTail == {"tailed"} \cup AfterExport

TailedOf(docs, q, t) == {i \in DOMAIN docs : Delivers(docs[i], q, t)}
EventsOf(docs, t) == [log |-> Lists(docs, t), fabricated |-> Lists(docs, t) = <<>>, json |-> docs]

\* A LogQL query passes every stage, one typed at ag-lex the last ones.
Inputs ==
    /\ file \in Seq(Doc) /\ query \in Queries \cup {None}
    /\ stage \in {"asked", "translated", "typed"} \cup AfterTail
    /\ stage \notin {"typed"} \cup AfterParse => query # None
    /\ stage = "typed" => query = None
    /\ stage # "asked" => translated \in Translation /\ (query # None => translated = parse(query))

Results ==
    /\ stage \in AfterTail /\ query # None => tailed = TailedOf(file, query, translated)
    /\ stage \in AfterExport /\ query # None => agb = convert_json_to_agb(file)
    /\ stage \in AfterParse => parsed = parse_query(translated)
    /\ stage \in AfterParse /\ query # None => count = ScanAgb(agb, parsed)
    /\ stage = "searching" => parsed.type = "search"
    /\ Counted /\ parsed.type = "numerical" => countText = ScanJson(file, parsed)
    /\ Counted /\ parsed.type = "search" => countText = occurrences /\ finished
    /\ stage = "listed" => /\ query # None /\ events.json \in Seq(Doc)
                           /\ events = EventsOf(events.json, translated)

Searched ==
    (stage = "searching" \/ (Counted /\ parsed.type = "search")) /\ Pattern # <<>> =>
        Best(Bytes(file), Pattern, found, occurrences, p, finished)

PathInv == Inputs /\ Results /\ Searched

\* Once parsed, the bytes and the pattern are texts.
LEMMA Texts ==
    ASSUME Inputs, Results
    PROVE  /\ Bytes(file) \in Text
           /\ stage \in AfterParse => Pattern \in Text
<1>1. Bytes(file) \in Text
  BY BytesLayout DEF Inputs
<1>2. ASSUME stage \in AfterParse PROVE Pattern \in Text
  <2>1. translated \in Translation /\ parsed = parse_query(translated)
    BY <1>2 DEF Inputs, Results, AfterParse
  <2> QED
    BY <2>1, ParseQueryTypes DEF Pattern
<1> QED
  BY <1>1, <1>2

\* Every input is one of those assumed.
LEMMA PathInit == Init => PathInv
<1> SUFFICES ASSUME Init PROVE PathInv
  OBVIOUS
<1>1. stage \in {"asked", "typed"} /\ ~Counted /\ stage \notin AfterTail
  BY DEF Init, Counted, AfterTail, AfterExport, AfterParse
<1>2. file \in Seq(Doc) /\ query \in Queries \cup {None} /\ (stage # "typed" => query # None)
  BY InputsAssumption DEF Init
<1>3. stage # "asked" => translated \in Translation /\ query = None
  BY InputsAssumption DEF Init, Translation
<1>4. Inputs
  BY <1>1, <1>2, <1>3 DEF Inputs
<1>5. Results
  BY <1>1 DEF Results, AfterTail, AfterExport
<1>6. Searched
  BY <1>1 DEF Searched
<1> QED
  BY <1>4, <1>5, <1>6 DEF PathInv

\* What getMatchingEvents reads are documents.
LEMMA ReadableDocs ==
    ASSUME Inputs, NEW json \in Readable
    PROVE  json \in Seq(Doc)
<1>1. ASSUME NEW docs \in Seq(Doc), NEW u \in Prefixes(docs) PROVE u \in Seq(Doc)
  <2>1. Len(docs) \in Nat /\ \A k \in 1..Len(docs) : docs[k] \in Doc
    BY LenProperties, ElementOfSeq
  <2>2. PICK m \in 0..Len(docs) : u = SubSeq(docs, 1, m)
    BY <2>1 DEF Prefixes
  <2>3. m \in Int /\ \A k \in 1..m : docs[k] \in Doc
    BY <2>1
  <2> QED
    BY <2>2, <2>3, SubSeqProperties
<1>2. file \in Seq(Doc) /\ BenchmarkLogs \in Seq(Doc)
  BY InputsAssumption DEF Inputs
<1> QED
  BY <1>1, <1>2 DEF Readable

\* Inputs stay, and the translation is made once.
LEMMA InputsStay ==
    ASSUME PathInv, [Next]_vars
    PROVE  Inputs'
<1>1. CASE UNCHANGED vars
  BY <1>1 DEF vars, PathInv, Inputs
<1>2. CASE Translate
  <2>1. stage = "asked" /\ query \in Queries /\ query # None
    BY <1>2 DEF Translate, Goto, PathInv, Inputs, AfterParse
  <2>2. parse(query) \in Translation
    BY <2>1, ParseTypes
  <2> QED
    BY <1>2, <2>1, <2>2 DEF Translate, Goto, PathInv, Inputs, AfterTail, AfterExport, AfterParse
<1>3. ASSUME Next, ~Translate PROVE Inputs'
  <2>1. stage' \in AfterTail /\ stage # "asked" /\ UNCHANGED <<query, file, translated>>
        /\ (stage' \notin AfterParse => stage \notin {"typed"} \cup AfterParse)
    BY <1>3 DEF Next, Tail_, Export, ExecuteAgb, AgLex, ExecuteJson, BeginSearch, SearchOn, EndSearch,
                getMatchingEvents, Goto, AfterTail, AfterExport, AfterParse
  <2> QED
    BY <2>1 DEF PathInv, Inputs, AfterTail, AfterExport, AfterParse
<1> QED
  BY <1>1, <1>2, <1>3

\* Each stage adds its result, and no later one changes it.
LEMMA ResultsStay ==
    ASSUME PathInv, [Next]_vars
    PROVE  Results'
<1> USE DEF AfterTail, AfterExport, AfterParse, Counted, Goto
<1>0. Inputs /\ Results
  BY DEF PathInv
<1>1. CASE UNCHANGED vars
  BY <1>0, <1>1 DEF vars, searchVars, Results
<1>2. CASE Translate
  BY <1>0, <1>2 DEF Translate, Results
<1>3. CASE Tail_
  BY <1>0, <1>3 DEF Tail_, Results, TailedOf
<1>4. CASE Export
  BY <1>0, <1>4 DEF Export, Results
<1>5. CASE ExecuteAgb
  BY <1>0, <1>5 DEF ExecuteAgb, Results
<1>6. CASE AgLex
  <2>1. query = None
    BY <1>0, <1>6 DEF AgLex, Inputs
  <2> QED
    BY <1>0, <1>6, <2>1 DEF AgLex, Results
<1>7. CASE ExecuteJson
  BY <1>0, <1>7 DEF ExecuteJson, Results
<1>8. CASE BeginSearch
  BY <1>0, <1>8 DEF BeginSearch, Results
<1>9. CASE SearchOn
  BY <1>0, <1>9 DEF SearchOn, Results
<1>10. CASE EndSearch
  BY <1>0, <1>10 DEF EndSearch, searchVars, Results
<1>11. ASSUME NEW json \in Readable, getMatchingEvents(json) PROVE Results'
  <2>1. json \in Seq(Doc)
    BY <1>0, ReadableDocs
  <2>2. /\ events' = EventsOf(json, translated) /\ stage' = "listed" /\ stage = "counted"
        /\ UNCHANGED <<query, file, translated, parsed, agb, count, countText, tailed, searchVars>>
        /\ query # None
    BY <1>11 DEF getMatchingEvents, EventsOf
  <2>3. events'.json = json
    BY <2>2 DEF EventsOf
  <2> QED
    BY <1>0, <2>1, <2>2, <2>3 DEF searchVars, Results
<1> QED
  BY <1>1, <1>2, <1>3, <1>4, <1>5, <1>6, <1>7, <1>8, <1>9, <1>10, <1>11 DEF Next

\* The search starts with nothing found and goes on as BestStep says.
LEMMA SearchedStays ==
    ASSUME PathInv, [Next]_vars
    PROVE  Searched'
<1> DEFINE T == Bytes(file)
           P == Pattern
<1>0. Inputs /\ Results /\ Searched
  BY DEF PathInv
<1>1. T \in Text /\ (stage \in AfterParse => P \in Text)
  BY <1>0, Texts
<1>2. CASE BeginSearch
  <2>1. /\ UNCHANGED <<file, parsed>> /\ stage \in AfterParse
        /\ p' = 1 /\ occurrences' = 0 /\ found' = {} /\ finished' = Search!Nothing
    BY <1>2 DEF BeginSearch, Goto, AfterParse, Search!Begin
  <2>2. Search!Nothing \in BOOLEAN /\ (P # <<>> /\ Search!Nothing => T = <<>>)
    BY DEF Search!Nothing
  <2>3. P # <<>> => Best(T, P, {}, 0, 1, Search!Nothing)
    <3>1. T \in Seq(Chars) /\ P \in Seq(Chars)
      BY <1>1, <2>1 DEF Text
    <3> HIDE DEF T, P
    <3> QED
      BY <2>2, <3>1, BestBegin
  <2>4. Bytes(file)' = T /\ Pattern' = P
    BY <2>1 DEF Pattern
  <2> QED
    BY <2>1, <2>3, <2>4 DEF Searched
<1>3. CASE SearchOn
  <2>1. UNCHANGED <<file, parsed>> /\ stage = "searching" /\ stage \in AfterParse /\ Search!Step
    BY <1>3 DEF SearchOn, Goto, AfterParse
  <2>2. Bytes(file)' = T /\ Pattern' = P
    BY <2>1 DEF Pattern
  <2>3. P # <<>> => Best(T, P, found', occurrences', p', finished')
    BY <1>0, <1>1, <2>1, BestStep DEF Searched
  <2> QED
    BY <2>2, <2>3 DEF Searched
<1>4. ASSUME EndSearch \/ (\E json \in Readable : getMatchingEvents(json)) \/ UNCHANGED vars
      PROVE  Searched'
  <2>1. UNCHANGED <<file, parsed, p, occurrences, found, finished>>
        /\ (stage' = "searching" => stage = "searching")
        /\ (Counted' => Counted \/ stage = "searching")
    BY <1>4 DEF EndSearch, getMatchingEvents, vars, searchVars, Goto, Counted
  <2>2. Bytes(file)' = T /\ Pattern' = P
    BY <2>1 DEF Pattern
  <2> QED
    BY <1>0, <2>1, <2>2 DEF Searched, Counted, Results
<1>5. CASE ExecuteJson
  <2>1. parsed'.type = "numerical" /\ stage' # "searching"
    BY <1>5 DEF ExecuteJson, Goto
  <2> QED
    BY <2>1 DEF Searched
<1>6. CASE Translate \/ Tail_ \/ Export \/ ExecuteAgb \/ AgLex
  <2>1. stage' # "searching" /\ ~Counted'
    BY <1>6 DEF Translate, Tail_, Export, ExecuteAgb, AgLex, Goto, Counted
  <2> QED
    BY <2>1 DEF Searched
<1> QED
  BY <1>2, <1>3, <1>4, <1>5, <1>6 DEF Next

\* The invariant of the query path: every stage has computed its result from
\* the stages before it, and the search is at its best.
THEOREM PathCorrect == Spec => []PathInv
<1>1. PathInv /\ [Next]_vars => PathInv'
  <2> SUFFICES ASSUME PathInv, [Next]_vars PROVE PathInv'
    OBVIOUS
  <2>1. Inputs' /\ Results' /\ Searched'
    BY InputsStay, ResultsStay, SearchedStays
  <2> QED
    BY <2>1 DEF PathInv
<1> QED
  BY <1>1, PathInit, PTL DEF Spec

\* At every turn of the search, what it has counted is the largest number of
\* disjoint occurrences there is up to where it stands.
THEOREM SearchCorrect == Spec => []SearchMaximal
<1>1. PathInv => SearchMaximal
  <2> SUFFICES ASSUME PathInv, stage = "searching" PROVE Search!CountIsMaximal
    BY DEF SearchMaximal
  <2>1. CASE Pattern = <<>>
    BY <2>1 DEF Search!CountIsMaximal
  <2>2. CASE Pattern # <<>>
    <3>1. Bytes(file) \in Text /\ Pattern \in Text
      BY Texts DEF PathInv, AfterParse
    <3>2. Best(Bytes(file), Pattern, found, occurrences, p, finished)
      BY <2>2 DEF PathInv, Searched
    <3> QED
      BY <2>2, <3>1, <3>2, BestIsMaximal
  <2> QED
    BY <2>1, <2>2
<1> QED
  BY <1>1, PathCorrect, PTL

-----------------------------------------------------------------------------
(* The numerical scans.                                                     *)

\* The labels, and what the two scans compare, agree on every document.
LEMMA LabelsSelect ==
    ASSUME Inputs, Results, stage \in AfterParse, Expressible(file), Whole(file, kUint64Max)
    PROVE  /\ parsed.type = "numerical" /\ translated.status # None
           /\ \A i \in DOMAIN file : Selects(RowOf(file[i]), parsed) <=> i \in Answer
<1> DEFINE t == parse(query)
           sc == query.status
           lc == query.latency
<1>1. query \in Queries /\ t \in Translation /\ translated = t /\ parsed = parse_query(t)
  BY ParseTypes DEF Inputs, Results, Expressible, AfterParse
<1>2. sc \in Condition /\ lc \in Condition \cup {None} /\ sc.val \in Nat /\ sc # None
  BY <1>1, InputsAssumption DEF Expressible, Condition
<1>3. t.status = sc.val /\ t.status # None
  <2>1. t.status = parseInt(sc) /\ parseInt(sc) # None
    BY <1>1, ParseTypes DEF Expressible
  <2> QED
    BY <2>1 DEF parseInt
<1>4. parsed.type = "numerical" /\ parsed.status_target = sc.val /\ parsed.latency_target = Target(t.latency)
  BY <1>1, <1>3, ParseQueryTypes
<1>5. t.latency = parseInt(lc)
  BY <1>1, ParseTypes
<1>6. ASSUME NEW i \in DOMAIN file PROVE Selects(RowOf(file[i]), parsed) <=> i \in Answer
  <2> DEFINE st == file[i].status
             la == file[i].latency
             us == Uint64(file[i], "status")
             ul == Uint64(file[i], "latency")
  <2>1. /\ st = Missing => us = 0
        /\ st # Missing => st \in Nat /\ us = st
        /\ la = Missing => ul = 0
        /\ la # Missing => la \in Nat /\ ul = la
    <3>1. Missing \notin Int /\ kUint64Max \in Nat /\ "status" \in Numbers /\ "latency" \in Numbers
      BY InputsAssumption, LimitsAssumption DEF Numbers
    <3>2. /\ st # Missing => st \in 0..kUint64Max /\ "status" \notin file[i].fraction
          /\ la # Missing => la \in 0..kUint64Max /\ "latency" \notin file[i].fraction
      BY <3>1 DEF Whole
    <3> QED
      BY <3>1, <3>2 DEF Uint64
  <2>2. Selects(RowOf(file[i]), parsed) <=> us = sc.val /\ ul > Target(t.latency)
    BY <1>4 DEF Selects, RowOf
  <2>3. Compares(st, sc) <=> st # Missing /\ st = sc.val
    <3>1. sc.op = "=" /\ sc # None
      BY <1>2 DEF Expressible
    <3> QED
      BY <3>1 DEF Compares
  <2>4. us = sc.val <=> Compares(st, sc)
    <3>1. sc.val = 0 => st # Missing
      BY DEF Expressible
    <3> HIDE DEF us, st
    <3> QED
      BY <1>2, <2>1, <2>3, <3>1
  <2>5. i \in Answer <=> Compares(st, sc) /\ Compares(la, lc)
    BY DEF Answer, AnswerIn, Labelled
  <2>6. CASE lc = None
    <3>1. Target(t.latency) = 0 /\ Compares(la, lc)
      BY <1>5, <2>6 DEF Target, parseInt, Compares
    <3>2. i \in Answer => ul > 0
      BY <2>6 DEF Expressible, RowOf, Answer
    <3> QED
      BY <2>2, <2>4, <2>5, <3>1, <3>2
  <2>7. CASE lc # None
    <3>1. lc.val \in Nat /\ lc.op = ">" /\ Target(t.latency) = lc.val
      <4>1. lc.op = ">" /\ parseInt(lc) # None
        BY <2>7 DEF Expressible
      <4> QED
        BY <1>2, <1>5, <2>7, <4>1 DEF Target, parseInt, Condition
    <3>2. Compares(la, lc) <=> la # Missing /\ la > lc.val
      BY <2>7, <3>1 DEF Compares
    <3>3. ul > lc.val <=> Compares(la, lc)
      <4> HIDE DEF ul, la
      <4> QED
        BY <2>1, <3>1, <3>2
    <3> QED
      BY <2>2, <2>4, <2>5, <3>1, <3>3
  <2> QED
    BY <2>6, <2>7
<1> QED
  BY <1>1, <1>3, <1>4, <1>6

\* Export keeps the rows, and no scan selects the rows that fill the block.
LEMMA PadProperties ==
    ASSUME NEW docs \in Seq(Doc)
    PROVE  LET rows == convert_json_to_agb(docs)
           IN  /\ DOMAIN docs \subseteq DOMAIN rows
               /\ \A i \in DOMAIN rows :
                     rows[i] = IF i \in DOMAIN docs THEN RowOf(docs[i]) ELSE ZeroRow
<1> DEFINE rows == [i \in DOMAIN docs |-> RowOf(docs[i])]
           m == Padding(Len(rows))
           zeros == [i \in 1..m |-> ZeroRow]
           Row == {ZeroRow} \cup {RowOf(docs[i]) : i \in DOMAIN docs}
           n == Len(docs)
<1>1. n \in Nat /\ DOMAIN docs = 1..n
  BY LenProperties
<1>2. rows \in Seq(Row) /\ Len(rows) = n
  <2>1. rows \in [1..n -> Row]
    BY <1>1
  <2> HIDE DEF Row, rows
  <2> QED
    BY <1>1, <2>1
<1>3. m \in Nat
  <2>1. Len(rows) \in Nat /\ kBlockRows \in Nat \ {0}
    BY <1>1, <1>2, LimitsAssumption
  <2> DEFINE k == Len(rows)
             r == k % kBlockRows
  <2> HIDE DEF k
  <2>2. r \in Nat /\ r < kBlockRows
    BY <2>1 DEF k
  <2> HIDE DEF r
  <2>3. kBlockRows - r \in Nat
    BY <2>1, <2>2
  <2>4. (kBlockRows - r) % kBlockRows \in Nat
    BY <2>1, <2>3
  <2> QED
    BY <2>4 DEF Padding, r, k
<1>4. zeros \in Seq(Row) /\ Len(zeros) = m
  <2> HIDE DEF m
  <2>1. zeros \in [1..m -> Row]
    OBVIOUS
  <2> HIDE DEF Row, zeros
  <2> QED
    BY <1>3, <2>1
<1>5. convert_json_to_agb(docs) = rows \o zeros
  BY DEF convert_json_to_agb, Pad
<1>6. \A i \in DOMAIN docs : rows[i] = RowOf(docs[i])
  OBVIOUS
<1>7. \A i \in 1..m : zeros[i] = ZeroRow
  OBVIOUS
<1> HIDE DEF rows, zeros, m, Row, n
<1>8. /\ rows \o zeros \in Seq(Row) /\ Len(rows \o zeros) = n + m
      /\ \A i \in 1..n + m : (rows \o zeros)[i] = IF i <= n THEN rows[i] ELSE zeros[i - n]
  BY ONLY <1>2, <1>4, ConcatProperties
<1>9. DOMAIN (rows \o zeros) = 1..n + m
  BY <1>8, LenProperties
<1>10. ASSUME NEW i \in 1..n + m
       PROVE  (rows \o zeros)[i] = IF i \in 1..n THEN RowOf(docs[i]) ELSE ZeroRow
  <2>1. CASE i <= n
    <3>1. i \in 1..n
      BY <1>1, <1>3, <2>1
    <3> QED
      BY <1>1, <1>6, <1>8, <2>1, <3>1
  <2>2. CASE ~(i <= n)
    <3>1. i \notin 1..n /\ i - n \in 1..m
      BY <1>1, <1>3, <2>2
    <3> QED
      BY <1>7, <1>8, <2>2, <3>1
  <2> QED
    BY <2>1, <2>2
<1>11. 1..n \subseteq 1..n + m
  BY <1>1, <1>3
<1> QED
  BY <1>1, <1>5, <1>9, <1>10, <1>11

\* Both scans count the documents the labels select.
LEMMA CountsAnswer == PathInv => CountsExact
<1> SUFFICES ASSUME PathInv, Counted, Expressible(file), Whole(file, kUint64Max)
             PROVE  /\ FileBytes(agb) # kThreeColumnBytes => count = Cardinality(Answer)
                    /\ countText = Cardinality(Answer)
  BY DEF CountsExact
<1>1. Inputs /\ Results /\ stage \in AfterParse /\ stage \in AfterExport /\ query # None
      /\ file \in Seq(Doc)
  BY DEF PathInv, Counted, AfterParse, AfterExport, Expressible, Inputs
<1>2. /\ parsed.type = "numerical"
      /\ \A i \in DOMAIN file : Selects(RowOf(file[i]), parsed) <=> i \in Answer
  BY <1>1, LabelsSelect
<1>3. Answer \subseteq DOMAIN file
  BY DEF Answer, AnswerIn
<1>4. countText = Cardinality(Answer)
  <2>1. {i \in DOMAIN file : Selects(RowOf(file[i]), parsed)} = Answer
    BY <1>2, <1>3
  <2> QED
    BY <1>1, <1>2, <2>1 DEF Results, ScanJson
<1>5. ASSUME FileBytes(agb) # kThreeColumnBytes PROVE count = Cardinality(Answer)
  <2> DEFINE rows == convert_json_to_agb(file)
  <2>1. /\ DOMAIN file \subseteq DOMAIN rows
        /\ \A i \in DOMAIN rows : rows[i] = IF i \in DOMAIN file THEN RowOf(file[i]) ELSE ZeroRow
    BY <1>1, PadProperties
  <2>2. ~Selects(ZeroRow, parsed)
    <3>1. translated \in Translation /\ parsed = parse_query(translated)
      BY <1>1 DEF Inputs, Results, AfterParse
    <3>2. parsed.latency_target \in Nat
      BY <3>1, ParseQueryTypes
    <3> QED
      BY <3>2 DEF Selects, ZeroRow
  <2>3. count = ScanAgb(rows, parsed) /\ AsRead(rows) = rows
    BY <1>1, <1>5 DEF Results, AsRead
  <2> HIDE DEF rows
  <2>4. {i \in DOMAIN rows : Selects(rows[i], parsed)} = Answer
    BY <1>2, <1>3, <2>1, <2>2
  <2> QED
    BY <2>3, <2>4 DEF ScanAgb
<1> QED
  BY <1>4, <1>5

\* For every file of unsigned 64-bit numbers, every query the engine can express
\* and every size of the blocks, the scan of the text counts the documents the
\* labels select, and so does the scan of the exported file unless that has the
\* one size at which ExecuteQuery assumes three columns.
THEOREM CountsCorrect == Spec => []CountsExact
BY CountsAnswer, PathCorrect, PTL

-----------------------------------------------------------------------------
(* Lines and occurrences.                                                   *)

\* The places of a text are where it fits.
LEMMA PlacesFit ==
    ASSUME NEW u \in Text, NEW P \in Text, P # <<>>
    PROVE  /\ Places(u, P) = {j \in 1..Len(u) : Fits(u, P, j)}
           /\ contains(u, P) <=> \E j \in 1..Len(u) : Fits(u, P, j)
<1>1. Len(P) \in Nat /\ Len(P) # 0 /\ Len(u) \in Nat
  BY LenProperties, EmptySeq DEF Text
<1>2. ASSUME NEW j \in 1..Len(u) + 1 - Len(P)
      PROVE  j \in 1..Len(u) /\ (SubSeq(u, j, j + Len(P) - 1) = P <=> Fits(u, P, j))
  <2>1. j \in Nat \ {0} /\ j \in 1..Len(u) /\ j + Len(P) <= Len(u) + 1
    BY <1>1
  <2> QED
    BY <2>1, Compared DEF Text
<1>3. \A j \in 1..Len(u) : Fits(u, P, j) => j \in 1..Len(u) + 1 - Len(P)
  BY <1>1 DEF Fits
<1>4. Places(u, P) = {j \in 1..Len(u) : Fits(u, P, j)}
  BY <1>2, <1>3 DEF Places
<1> QED
  BY <1>4 DEF contains

\* A place in a line is a place in the joined lines.
LEMMA FitsInLine ==
    ASSUME NEW s \in Seq(Text), NEW T, NEW off, Lays(off, s, T), NEW P \in Text, P # <<>>,
           NEW i \in 1..Len(s), NEW j \in 1..Len(s[i]), Fits(s[i], P, j)
    PROVE  /\ off[i - 1] \in Nat /\ off[i] \in Nat /\ Len(T) \in Nat
           /\ off[i - 1] + j \in 1..Len(T) /\ Fits(T, P, off[i - 1] + j)
           /\ off[i - 1] + j + Len(P) <= off[i] + 1
<1> DEFINE a == off[i - 1]
           b == off[i]
           l == Len(s[i])
           n == Len(P)
           m == Len(T)
<1>1. n \in Nat /\ n # 0 /\ l \in Nat /\ Len(s) \in Nat
  <2>1. s[i] \in Text
    BY ElementOfSeq
  <2> QED
    BY <2>1, LenProperties, EmptySeq DEF Text
<1>2. i \in 0..Len(s) /\ i - 1 \in 0..Len(s) /\ Len(s) \in 0..Len(s) /\ i <= Len(s)
  BY <1>1
<1>3. a \in Nat /\ b \in Nat /\ m \in Nat /\ b <= m /\ b = a + l
  BY <1>2 DEF Lays
<1>4. j + n <= l + 1 /\ \A k \in 1..n : s[i][j + k - 1] = P[k]
  BY DEF Fits
<1>5. \A k \in 1..l : T[a + k] = s[i][k]
  BY DEF Lays
<1>6. j \in Nat /\ j >= 1 /\ j <= l
  BY <1>1
<1> HIDE DEF a, b, l, n, m
<1>7. a + j + n <= b + 1 /\ a + j \in 1..m /\ a + j + n <= m + 1
  BY ONLY <1>1, <1>3, <1>4, <1>6
<1>8. ASSUME NEW k \in 1..n PROVE T[a + j + k - 1] = P[k]
  <2>1. j + k - 1 \in 1..l /\ a + (j + k - 1) = a + j + k - 1
    BY <1>1, <1>3, <1>4, <1>6
  <2> QED
    BY <1>4, <1>5, <2>1
<1>9. Fits(T, P, a + j)
  BY <1>7, <1>8 DEF Fits, n, m
<1> QED
  BY <1>3, <1>7, <1>9 DEF a, b, n, m

\* Every line ends in nl, and the pattern has none.
Ended(s, nl) == \A i \in 1..Len(s) : s[i] # <<>> /\ s[i][Len(s[i])] = nl
Free(P, nl) == \A k \in 1..Len(P) : P[k] # nl

\* A pattern without a line end, found in lines that have one, is in a line.
LEMMA FitsOneLine ==
    ASSUME NEW s \in Seq(Text), NEW T, NEW off, Lays(off, s, T), NEW P \in Text, P # <<>>, NEW nl,
           Ended(s, nl), Free(P, nl), NEW x \in 1..Len(T), Fits(T, P, x)
    PROVE  \E i \in 1..Len(s) : \E j \in 1..Len(s[i]) : x = off[i - 1] + j /\ Fits(s[i], P, j)
<1>0. PICK i \in 1..Len(s) : off[i - 1] < x /\ x <= off[i]
  BY DEF Lays
<1> DEFINE a == off[i - 1]
           l == Len(s[i])
           n == Len(P)
           j == x - a
<1>1. n \in Nat /\ n # 0 /\ l \in Nat /\ l # 0 /\ Len(s) \in Nat
  <2>1. s[i] \in Text
    BY ElementOfSeq
  <2> QED
    BY <2>1, LenProperties, EmptySeq DEF Text, Ended
<1>2. i \in 0..Len(s) /\ i - 1 \in 0..Len(s)
  BY <1>1
<1>3. a \in Nat /\ off[i] = a + l /\ Len(T) \in Nat
  <2>1. Len(s) \in 0..Len(s)
    BY <1>1
  <2> QED
    BY <1>2, <2>1 DEF Lays
<1>4. \A k \in 1..l : T[a + k] = s[i][k]
  BY DEF Lays
<1>5. \A k \in 1..n : T[x + k - 1] = P[k]
  BY DEF Fits
<1>6. x \in Nat /\ x > a /\ x <= a + l
  BY <1>0, <1>3
<1>e. s[i][l] = nl /\ \A k \in 1..n : P[k] # nl
  BY DEF Ended, Free
<1> HIDE DEF a, l, n
<1>7. j \in 1..l /\ x = a + j
  BY ONLY <1>1, <1>3, <1>6
<1>8. j + n <= l + 1
  <2> SUFFICES ASSUME ~(j + n <= l + 1) PROVE FALSE
    OBVIOUS
  <2> DEFINE k == a + l - x + 1
  <2>1. k \in 1..n /\ x + k - 1 = a + l
    BY <1>1, <1>3, <1>6
  <2>2. T[a + l] = P[k]
    BY <1>5, <2>1
  <2>3. l \in 1..l
    BY <1>1
  <2>4. T[a + l] = nl
    BY <1>4, <1>e, <2>3
  <2> QED
    BY <1>e, <2>1, <2>2, <2>4
<1>9. ASSUME NEW k \in 1..n PROVE s[i][j + k - 1] = P[k]
  <2>1. j + k - 1 \in 1..l /\ a + (j + k - 1) = x + k - 1
    BY <1>1, <1>3, <1>6, <1>7, <1>8
  <2> QED
    BY <1>4, <1>5, <2>1
<1>10. Fits(s[i], P, j)
  BY <1>8, <1>9 DEF Fits, l, n
<1> QED
  BY <1>7, <1>10 DEF a, l

LinesOf(s, P) == {i \in 1..Len(s) : \E j \in 1..Len(s[i]) : Fits(s[i], P, j)}

\* The best count is at least the number of lines with the pattern ...
LEMMA BestCountsLines ==
    ASSUME NEW s \in Seq(Text), NEW T, NEW off, Lays(off, s, T), NEW P \in Text, P # <<>>,
           NEW F, NEW k, NEW q, Best(T, P, F, k, q, TRUE),
           NEW W, W = LinesOf(s, P)
    PROVE  IsFiniteSet(W) /\ Cardinality(W) <= k
<1> DEFINE n == Len(P)
           f == [i \in W |-> CHOOSE j \in 1..Len(s[i]) : Fits(s[i], P, j)]
           g == [i \in W |-> off[i - 1] + f[i]]
           S == {g[i] : i \in W}
<1>0. n \in Nat /\ n # 0 /\ Len(s) \in Nat
  BY LenProperties, EmptySeq DEF Text
<1>1. \A i \in W : i \in 1..Len(s) /\ f[i] \in 1..Len(s[i]) /\ Fits(s[i], P, f[i])
  BY DEF LinesOf
<1>2. \A i \in W : g[i] = off[i - 1] + f[i]
  OBVIOUS
<1>3. g \in [W -> S]
  OBVIOUS
<1> HIDE DEF f, g
<1>4. ASSUME NEW i \in W
      PROVE  /\ off[i - 1] \in Nat /\ off[i] \in Nat /\ Len(T) \in Nat /\ f[i] \in Nat \ {0}
             /\ g[i] \in 1..Len(T) /\ Fits(T, P, g[i]) /\ g[i] + n <= off[i] + 1
             /\ off[i - 1] < g[i] /\ g[i] \in Nat
  <2>1. i \in 1..Len(s) /\ f[i] \in 1..Len(s[i]) /\ Fits(s[i], P, f[i]) /\ g[i] = off[i - 1] + f[i]
    BY <1>1, <1>2
  <2>2. /\ off[i - 1] \in Nat /\ off[i] \in Nat /\ Len(T) \in Nat
        /\ g[i] \in 1..Len(T) /\ Fits(T, P, g[i]) /\ g[i] + n <= off[i] + 1
    BY <2>1, FitsInLine
  <2>3. f[i] \in Nat \ {0}
    BY <2>1
  <2> DEFINE x == off[i - 1]
             y == f[i]
  <2>4. x \in Nat /\ y \in Nat \ {0} /\ g[i] = x + y
    BY <2>1, <2>2, <2>3
  <2> HIDE DEF x, y
  <2>5. g[i] \in Nat /\ x < g[i]
    BY ONLY <2>4
  <2> QED
    BY <2>2, <2>3, <2>5 DEF x
<1>5. ASSUME NEW i \in W, NEW j \in W, i < j
      PROVE  g[i] + n <= g[j]
  <2>1. i \in 0..Len(s) /\ j - 1 \in 0..Len(s) /\ i <= j - 1
    BY <1>0, <1>1, <1>5
  <2>2. off[i] <= off[j - 1]
    BY <2>1 DEF Lays
  <2> DEFINE a == off[i]
             b == off[j - 1]
             x == g[i]
             y == g[j]
  <2>3. a \in Nat /\ b \in Nat /\ x \in Nat /\ y \in Nat /\ a <= b /\ x + n <= a + 1 /\ b < y
    <3>1. off[i] \in Nat /\ g[i] \in Nat /\ g[i] + n <= off[i] + 1
      BY <1>4
    <3>2. off[j - 1] \in Nat /\ g[j] \in Nat /\ off[j - 1] < g[j]
      BY <1>4
    <3> QED
      BY <2>2, <3>1, <3>2
  <2> HIDE DEF a, b, x, y
  <2>4. x + n <= y
    BY ONLY <1>0, <2>3
  <2> QED
    BY <2>4 DEF x, y
<1>6. \A i, j \in W : i # j => g[i] # g[j] /\ (g[i] < g[j] => i < j)
  <2> SUFFICES ASSUME NEW i \in W, NEW j \in W, i # j PROVE g[i] # g[j] /\ (g[i] < g[j] => i < j)
    OBVIOUS
  <2>1. i \in Nat /\ j \in Nat /\ g[i] \in Nat /\ g[j] \in Nat
    BY <1>1, <1>4
  <2>2. CASE i < j
    <3>1. g[i] + n <= g[j]
      BY <1>5, <2>2
    <3> QED
      BY ONLY <1>0, <2>1, <2>2, <3>1
  <2>3. CASE j < i
    <3>1. g[j] + n <= g[i]
      BY <1>5, <2>3
    <3> QED
      BY ONLY <1>0, <2>1, <2>3, <3>1
  <2> QED
    BY <2>1, <2>2, <2>3
<1>7. Apart(P, S)
  <2> SUFFICES ASSUME NEW i \in W, NEW j \in W, g[i] < g[j] PROVE g[i] + n <= g[j]
    BY DEF Apart
  <2>1. i # j
    BY <1>4
  <2> QED
    BY <1>5, <1>6, <2>1
<1>8. S \in SUBSET FitsWithin(T, P, q, TRUE)
  BY <1>4 DEF FitsWithin
<1> HIDE DEF S
<1>9. Cardinality(S) <= k /\ k \in Nat
  BY <1>7, <1>8 DEF Best
<1>10. IsFiniteSet(S)
  <2>1. CASE W = {}
    <3>1. S = {}
      BY <2>1 DEF S
    <3> QED
      BY <3>1, FS_EmptySet
  <2>2. CASE W # {}
    <3>1. Len(T) \in Nat
      BY <1>4, <2>2
    <3>2. IsFiniteSet(1..Len(T))
      BY <3>1, FS_Interval
    <3>3. S \in SUBSET (1..Len(T))
      BY <1>8 DEF FitsWithin
    <3> QED
      BY <3>2, <3>3, FS_Subset
  <2> QED
    BY <2>1, <2>2
<1>11. g \in Injection(W, S)
  BY <1>3, <1>6 DEF Injection, IsInjective
<1>12. IsFiniteSet(W) /\ Cardinality(W) <= Cardinality(S)
  BY <1>10, <1>11, FS_Injection
<1>13. Cardinality(W) \in Nat /\ Cardinality(S) \in Nat
  BY <1>10, <1>12, FS_CardinalityType
<1> QED
  BY <1>9, <1>12, <1>13

OnceEach(s, P, W) == \A i \in W : Cardinality({j \in 1..Len(s[i]) : Fits(s[i], P, j)}) = 1

\* ... and that number when no line has it twice.
LEMMA BestIsLines ==
    ASSUME NEW s \in Seq(Text), NEW T, NEW off, Lays(off, s, T), NEW P \in Text, P # <<>>, NEW nl,
           Ended(s, nl), Free(P, nl),
           NEW F, NEW k, NEW q, Best(T, P, F, k, q, TRUE),
           NEW W, W = LinesOf(s, P),
           OnceEach(s, P, W)
    PROVE  k = Cardinality(W)
<1>1. IsFiniteSet(W) /\ Cardinality(W) <= k
  BY BestCountsLines
<1>2. IsFiniteSet(F) /\ k = Cardinality(F) /\ k \in Nat /\ \A x \in F : x \in 1..Len(T) /\ Fits(T, P, x)
  BY DEF Best
<1> DEFINE In(x, i) == \E j \in 1..Len(s[i]) : x = off[i - 1] + j /\ Fits(s[i], P, j)
           h == [x \in F |-> CHOOSE i \in 1..Len(s) : In(x, i)]
<1>3. \A x \in F : h[x] \in 1..Len(s) /\ In(x, h[x])
  <2> SUFFICES ASSUME NEW x \in F PROVE h[x] \in 1..Len(s) /\ In(x, h[x])
    OBVIOUS
  <2>0. x \in 1..Len(T) /\ Fits(T, P, x)
    BY <1>2
  <2>1. \E i \in 1..Len(s) : In(x, i)
    <3> HIDE DEF h
    <3>1. \E i \in 1..Len(s) : \E j \in 1..Len(s[i]) : x = off[i - 1] + j /\ Fits(s[i], P, j)
      BY <2>0, FitsOneLine
    <3> QED
      BY <3>1
  <2> HIDE DEF In
  <2> QED
    BY <2>1
<1>4. h \in [F -> W]
  <2> HIDE DEF In
  <2>1. h \in [F -> {h[x] : x \in F}]
    OBVIOUS
  <2> USE DEF In
  <2> HIDE DEF h
  <2>2. \A x \in F : h[x] \in W
    BY <1>3 DEF LinesOf
  <2> QED
    BY <2>1, <2>2
<1>5. \A x, y \in F : h[x] = h[y] => x = y
  <2> SUFFICES ASSUME NEW x \in F, NEW y \in F, h[x] = h[y] PROVE x = y
    OBVIOUS
  <2> DEFINE i == h[x]
  <2>1. i \in W /\ i \in 1..Len(s) /\ In(x, i) /\ In(y, i)
    BY <1>3, <1>4
  <2> HIDE DEF h, i
  <2> DEFINE Q == {j \in 1..Len(s[i]) : Fits(s[i], P, j)}
  <2>2. PICK a \in Q : x = off[i - 1] + a
    BY <2>1
  <2>3. PICK b \in Q : y = off[i - 1] + b
    BY <2>1
  <2>4. Cardinality(Q) = 1
    BY <2>1 DEF OnceEach
  <2>5. IsFiniteSet(Q)
    <3>1. s[i] \in Text /\ Len(s[i]) \in Nat
      BY <2>1, ElementOfSeq, LenProperties DEF Text
    <3> DEFINE l == Len(s[i])
    <3>2. l \in Int /\ 1 \in Int
      BY <3>1
    <3> HIDE DEF l
    <3>3. IsFiniteSet(1..l)
      BY ONLY <3>2, FS_Interval
    <3>4. Q \in SUBSET (1..l)
      BY DEF l
    <3> QED
      BY ONLY <3>3, <3>4, FS_Subset
  <2> HIDE DEF Q
  <2>6. \E z : Q = {z}
    BY <2>4, <2>5, FS_Singleton
  <2> QED
    BY <2>2, <2>3, <2>6
<1>6. h \in Injection(F, W)
  <2> HIDE DEF h
  <2> QED
    BY <1>4, <1>5 DEF Injection, IsInjective
<1>7. Cardinality(F) <= Cardinality(W)
  BY <1>1, <1>6, FS_Injection
<1>8. Cardinality(W) \in Nat
  BY <1>1, FS_CardinalityType
<1> QED
  BY <1>1, <1>2, <1>7, <1>8

\* What stands in a part stands in the whole.
LEMMA FitsConcat ==
    ASSUME NEW a \in Text, NEW b \in Text, NEW P \in Text, NEW j \in Nat \ {0}
    PROVE  /\ a \o b \in Text /\ Len(a \o b) = Len(a) + Len(b)
           /\ Fits(a, P, j) => Fits(a \o b, P, j)
           /\ Fits(b, P, j) => Fits(a \o b, P, Len(a) + j)
<1> DEFINE c == a \o b
           x == Len(a)
           y == Len(b)
           n == Len(P)
<1>1. x \in Nat /\ y \in Nat /\ n \in Nat
  BY LenProperties DEF Text
<1>2. /\ c \in Text /\ Len(c) = x + y
      /\ \A i \in 1..x + y : c[i] = IF i <= x THEN a[i] ELSE b[i - x]
  BY ConcatProperties DEF Text
<1> HIDE DEF c, x, y, n
<1>3. ASSUME j + n <= x + 1, NEW i \in 1..n PROVE c[j + i - 1] = a[j + i - 1]
  <2>1. j + i - 1 \in 1..x + y /\ j + i - 1 <= x
    BY <1>1, <1>3
  <2> QED
    BY <1>2, <2>1
<1>4. ASSUME j + n <= y + 1, NEW i \in 1..n PROVE c[x + j + i - 1] = b[j + i - 1]
  <2>1. x + j + i - 1 \in 1..x + y /\ ~(x + j + i - 1 <= x) /\ (x + j + i - 1) - x = j + i - 1
    BY <1>1, <1>4
  <2> QED
    BY <1>2, <2>1
<1>5. ASSUME Fits(a, P, j) PROVE Fits(c, P, j)
  <2>1. j + n <= x + 1 /\ \A i \in 1..n : a[j + i - 1] = P[i]
    BY <1>5 DEF Fits, n, x
  <2>2. j + n <= Len(c) + 1
    BY <1>1, <1>2, <2>1
  <2>3. \A i \in 1..n : c[j + i - 1] = P[i]
    BY <1>3, <2>1
  <2> QED
    BY <2>2, <2>3 DEF Fits, n
<1>6. ASSUME Fits(b, P, j) PROVE Fits(c, P, x + j)
  <2>1. j + n <= y + 1 /\ \A i \in 1..n : b[j + i - 1] = P[i]
    BY <1>6 DEF Fits, n, y
  <2>2. x + j + n <= Len(c) + 1
    BY <1>1, <1>2, <2>1
  <2>3. \A i \in 1..n : c[x + j + i - 1] = P[i]
    BY <1>4, <2>1
  <2> QED
    BY <2>2, <2>3 DEF Fits, n
<1> QED
  BY <1>2, <1>5, <1>6 DEF c, x, y

\* A line ends in a line end, and holds what is searched of its document.
LEMMA RawLineProperties ==
    ASSUME NEW doc \in Doc
    PROVE  /\ RawLine(doc) \in Text /\ RawLine(doc) # <<>>
           /\ RawLine(doc)[Len(RawLine(doc))] = "newline"
           /\ \A P \in Text : P # <<>> /\ contains(Message(doc), P) => contains(RawLine(doc), P)
<1> DEFINE q == <<"quote">>
           e == <<"newline">>
           a == q \o doc.other \o q
           c == Said(doc)
           b == a \o c
           l == b \o q
           w == l \o e
<1>0. RawLine(doc) = w /\ Line(doc) = l
  BY DEF RawLine, Line
<1>1. /\ doc.other \in Text /\ c \in Text /\ l \in Text /\ w \in Text /\ q \in Text /\ e \in Text
      /\ Message(doc) \in Text
  BY <1>0, DocTexts
<1>2. Len(e) = 1 /\ e[1] = "newline"
  OBVIOUS
<1> HIDE DEF q, e, c
<1>3. \A u, v \in Text : u \o v \in Text
  BY ConcatProperties DEF Text
<1>4. a \in Text /\ b \in Text
  BY <1>1, <1>3
<1> HIDE DEF a, b, l, w
<1>5. Len(l) \in Nat /\ Len(w) = Len(l) + 1 /\ w[Len(l) + 1] = e[1]
  <2>1. l \in Seq(Chars) /\ e \in Seq(Chars)
    BY <1>1 DEF Text
  <2> DEFINE n == Len(l)
  <2>2. /\ Len(l \o e) = n + Len(e)
        /\ \A i \in 1..n + Len(e) : (l \o e)[i] = IF i <= n THEN l[i] ELSE e[i - n]
    BY ONLY <2>1, ConcatProperties
  <2>3. n \in Nat
    BY <2>1, LenProperties
  <2> HIDE DEF n
  <2>4. n + 1 \in 1..n + 1 /\ ~(n + 1 <= n) /\ (n + 1) - n = 1
    BY <2>3
  <2>5. Len(l \o e) = n + 1 /\ (l \o e)[n + 1] = e[1]
    BY ONLY <1>2, <2>2, <2>4
  <2> QED
    BY <2>3, <2>5 DEF w, n
<1>6. w[Len(w)] = "newline" /\ w # <<>>
  <2>1. Len(w) # 0
    BY <1>5
  <2> QED
    BY <1>2, <1>5, <2>1
<1>7. ASSUME NEW P \in Text, P # <<>>, contains(Message(doc), P) PROVE contains(w, P)
  <2>1. \E j \in 1..Len(l) : Fits(l, P, j)
    <3>1. CASE doc.text = Missing
      <4>1. Message(doc) = l
        BY <1>0, <3>1 DEF Message
      <4> QED
        BY <1>1, <1>7, <4>1, PlacesFit
    <3>2. CASE doc.text # Missing
      <4>1. Message(doc) = c
        BY <3>2 DEF Message, c, Said
      <4>2. PICK j \in 1..Len(c) : Fits(c, P, j)
        BY <1>1, <1>7, <4>1, PlacesFit
      <4>3. j \in Nat \ {0} /\ Len(a) \in Nat /\ Len(c) \in Nat /\ Len(q) \in Nat
        BY <1>1, <1>4, LenProperties DEF Text
      <4>4. Fits(b, P, Len(a) + j) /\ Len(b) = Len(a) + Len(c)
        BY <1>1, <1>4, <4>2, <4>3, FitsConcat DEF b
      <4>5. Len(a) + j \in Nat \ {0}
        BY <4>3
      <4>6. Fits(l, P, Len(a) + j) /\ Len(l) = Len(b) + Len(q)
        BY <1>1, <1>4, <4>4, <4>5, FitsConcat DEF l
      <4>7. Len(a) + j \in 1..Len(l)
        BY <4>3, <4>4, <4>6
      <4> QED
        BY <4>6, <4>7
    <3> QED
      BY <3>1, <3>2
  <2>2. PICK j \in 1..Len(l) : Fits(l, P, j)
    BY <2>1
  <2>3. j \in Nat \ {0} /\ j \in 1..Len(w)
    BY <1>5
  <2>4. Fits(w, P, j)
    BY <1>1, <2>2, <2>3, FitsConcat DEF w
  <2> QED
    BY <1>1, <1>7, <2>3, <2>4, PlacesFit
<1> QED
  BY <1>0, <1>1, <1>6, <1>7

\* The text scan's count against the lines that contain the pattern.
LEMMA CountsLines ==
    ASSUME PathInv, Counted, parsed.type = "search", Pattern # <<>>
    PROVE  /\ IsFiniteSet(LinesWith) /\ Cardinality(LinesWith) <= countText /\ countText \in Nat
           /\ Once => countText = Cardinality(LinesWith)
<1> DEFINE s == RawLines(file)
           T == Bytes(file)
           P == Pattern
<1>1. /\ file \in Seq(Doc) /\ T \in Text /\ P \in Text /\ P # <<>> /\ countText = occurrences
      /\ Best(T, P, found, occurrences, p, TRUE)
  <2>1. file \in Seq(Doc) /\ countText = occurrences /\ finished /\ Best(T, P, found, occurrences, p, finished)
    BY DEF PathInv, Inputs, Results, Searched
  <2>2. finished = TRUE
    BY <2>1 DEF Best
  <2>3. T \in Text /\ P \in Text
    BY Texts DEF PathInv, Counted, AfterParse
  <2> QED
    BY <2>1, <2>2, <2>3
<1>2. s \in Seq(Text) /\ Len(s) = Len(file) /\ DOMAIN file = 1..Len(s)
  BY <1>1, BytesLayout, LenProperties
<1>3. PICK off : Lays(off, s, T)
  BY <1>1, BytesLayout
<1>4. ASSUME NEW i \in 1..Len(s)
      PROVE  /\ s[i] = RawLine(file[i]) /\ s[i] \in Text /\ s[i] # <<>> /\ s[i][Len(s[i])] = "newline"
  <2>1. s[i] = RawLine(file[i]) /\ i \in 1..Len(file)
    BY <1>2 DEF RawLines
  <2>2. file[i] \in Doc
    BY <1>1, <2>1, ElementOfSeq
  <2> QED
    BY <2>1, <2>2, RawLineProperties
<1> HIDE DEF s, T, P
<1>5. Ended(s, "newline")
  BY <1>4 DEF Ended
<1>6. ASSUME NEW i \in 1..Len(s)
      PROVE  /\ Places(RawLine(file[i]), P) = {j \in 1..Len(s[i]) : Fits(s[i], P, j)}
             /\ contains(RawLine(file[i]), P) <=> \E j \in 1..Len(s[i]) : Fits(s[i], P, j)
  BY <1>1, <1>4, PlacesFit
<1>7. LinesWith = LinesOf(s, P)
  BY <1>2, <1>6 DEF LinesWith, LinesOf, P
<1> DEFINE W == LinesWith
<1> HIDE DEF W
<1>8. W = LinesOf(s, P)
  BY <1>7 DEF W
<1>9. IsFiniteSet(W) /\ Cardinality(W) <= occurrences
  BY <1>1, <1>2, <1>3, <1>8, BestCountsLines
<1>10. occurrences \in Nat
  BY <1>1 DEF Best
<1>11. ASSUME Once PROVE occurrences = Cardinality(W)
  <2>1. Free(P, "newline")
    <3>1. "newline" \notin {P[k] : k \in 1..Len(P)}
      BY <1>1, <1>11, LenProperties DEF Once, ToSet, P, Text
    <3> QED
      BY <3>1 DEF Free
  <2>2. OnceEach(s, P, W)
    <3> SUFFICES ASSUME NEW i \in W PROVE Cardinality({j \in 1..Len(s[i]) : Fits(s[i], P, j)}) = 1
      BY DEF OnceEach
    <3>1. i \in 1..Len(s) /\ Cardinality(Places(RawLine(file[i]), P)) = 1
      BY <1>8, <1>11 DEF Once, LinesOf, W, P
    <3> QED
      BY <1>6, <3>1
  <2> QED
    BY ONLY <1>1, <1>2, <1>3, <1>5, <1>8, <2>1, <2>2, BestIsLines
<1> QED
  BY <1>1, <1>9, <1>10, <1>11 DEF W

\* For every file and pattern, the search counts no fewer than the lines that
\* contain the pattern, and exactly those when each has it once.
THEOREM LinesCorrect == Spec => []SearchCountsLines
<1>1. PathInv => SearchCountsLines
  <2> SUFFICES ASSUME PathInv, Counted, parsed.type = "search", Pattern # <<>>
               PROVE  /\ countText >= Cardinality(LinesWith)
                      /\ Once => countText = Cardinality(LinesWith)
    BY DEF SearchCountsLines
  <2>1. /\ IsFiniteSet(LinesWith) /\ Cardinality(LinesWith) <= countText /\ countText \in Nat
        /\ Once => countText = Cardinality(LinesWith)
    BY CountsLines
  <2>2. Cardinality(LinesWith) \in Nat
    BY <2>1, FS_CardinalityType
  <2> QED
    BY <2>1, <2>2
<1> QED
  BY <1>1, PathCorrect, PTL

-----------------------------------------------------------------------------
(* The readers in Java.                                                     *)

\* Where the numbers are ints, a document passes the translation exactly when
\* the labels select it.
LEMMA HasIsLabelled ==
    ASSUME Inputs, stage # "asked", NEW docs \in Seq(Doc), Expressible(docs), Whole(docs, kIntMax)
    PROVE  /\ translated.status # None
           /\ \A i \in DOMAIN docs : Has(docs[i], translated) <=> i \in AnswerIn(docs)
<1> DEFINE t == parse(query)
           sc == query.status
           lc == query.latency
<1>1. query \in Queries /\ translated = t
  BY DEF Inputs, Expressible
<1>2. sc \in Condition /\ lc \in Condition \cup {None} /\ sc # None /\ sc.op = "="
  BY <1>1, InputsAssumption DEF Expressible
<1>3. t.status = parseInt(sc) /\ t.latency = parseInt(lc)
  BY <1>1, ParseTypes
<1>4. t.status = sc.val /\ t.status # None
  BY <1>3 DEF Expressible, parseInt
<1>5. IF lc = None THEN t.latency = None ELSE t.latency # None /\ t.latency = lc.val /\ lc.op = ">"
  BY <1>3 DEF Expressible, parseInt
<1>6. ASSUME NEW i \in DOMAIN docs PROVE Has(docs[i], t) <=> i \in AnswerIn(docs)
  <2> DEFINE st == docs[i].status
             la == docs[i].latency
  <2>1. i \in AnswerIn(docs) <=> Compares(st, sc) /\ Compares(la, lc)
    BY DEF AnswerIn, Labelled
  <2>2. Compares(st, sc) <=> st # Missing /\ st = sc.val
    BY <1>2 DEF Compares
  <2>3. /\ st # Missing => intValue(docs[i], "status") = st
        /\ la # Missing => intValue(docs[i], "latency") = la
    <3>1. "status" \in Numbers /\ "latency" \in Numbers
      BY DEF Numbers
    <3>2. /\ st # Missing => st \in 0..kIntMax /\ "status" \notin docs[i].fraction
          /\ la # Missing => la \in 0..kIntMax /\ "latency" \notin docs[i].fraction
      BY <3>1 DEF Whole
    <3>3. \A n \in 0..kIntMax : Wrapped(n) = n
      <4>1. \A n \in 0..kIntMax : n \in (-kIntMax - 1)..kIntMax
        BY LimitsAssumption
      <4> QED
        BY <4>1 DEF Wrapped
    <3> QED
      BY <3>2, <3>3 DEF intValue
  <2>4. CASE lc = None
    <3>1. Compares(la, lc)
      BY <2>4 DEF Compares
    <3> QED
      BY <1>4, <1>5, <2>1, <2>2, <2>3, <2>4, <3>1 DEF Has
  <2>5. CASE lc # None
    <3>1. Compares(la, lc) <=> la # Missing /\ la > lc.val
      BY <1>5, <2>5 DEF Compares
    <3> QED
      BY <1>4, <1>5, <2>1, <2>2, <2>3, <2>5, <3>1 DEF Has
  <2> QED
    BY <2>4, <2>5
<1> QED
  BY <1>1, <1>4, <1>6

\* Every text contains the empty one.
LEMMA ContainsNothing ==
    ASSUME NEW u \in Text
    PROVE  contains(u, <<>>)
<1>1. Len(u) \in Nat
  BY LenProperties DEF Text
<1>2. SubSeq(u, 1, 0) = <<>>
  OBVIOUS
<1>3. Len(<<>>) = 0 /\ 1 \in 1..Len(u) + 1 - 0 /\ 1 + 0 - 1 = 0
  BY <1>1
<1>4. 1 \in Places(u, <<>>)
  BY <1>2, <1>3 DEF Places
<1> QED
  BY <1>4 DEF contains

\* For every query and every file, the live tail delivers what the scans count:
\* by labels where the numbers are ints and the exported file has not the size
\* at which three columns are assumed, by a line filter as the property says.
THEOREM TailCorrect == Spec => []TailAgreesWithScan
<1>1. PathInv => TailAgreesWithScan
  <2> SUFFICES ASSUME PathInv, Counted, query # None
               PROVE  TailAgreesWithScan
    BY DEF TailAgreesWithScan
  <2>1. /\ file \in Seq(Doc) /\ DOMAIN file = 1..Len(file) /\ Len(file) \in Nat
        /\ stage # "asked" /\ stage \in AfterParse /\ query \in Queries
        /\ translated = parse(query) /\ translated \in Translation
        /\ tailed = TailedOf(file, query, translated) /\ parsed = parse_query(translated)
    BY LenProperties DEF PathInv, Inputs, Results, Counted, AfterTail, AfterExport, AfterParse
  <2>2. tailed \subseteq DOMAIN file
        /\ \A i \in DOMAIN file :
              i \in tailed <=> /\ Has(file[i], translated)
                              /\ contains(Message(file[i]), LineFilter(query, translated))
    BY <2>1 DEF TailedOf, Delivers
  <2>3. ASSUME Expressible(file), Whole(file, kIntMax), FileBytes(agb) # kThreeColumnBytes
        PROVE  Cardinality(tailed) <= count /\ (query.line = None => Cardinality(tailed) = count)
    <3>1. count = Cardinality(Answer)
      <4>1. Whole(file, kUint64Max)
        <5>1. \A n \in 0..kIntMax : n \in 0..kUint64Max
          BY LimitsAssumption
        <5> QED
          BY <2>3, <5>1 DEF Whole
      <4> QED
        BY <2>3, <4>1, CountsAnswer DEF CountsExact
    <3>2. translated.status # None /\ \A i \in DOMAIN file : Has(file[i], translated) <=> i \in Answer
      BY <2>1, <2>3, HasIsLabelled DEF PathInv, Answer
    <3>3. Answer \subseteq DOMAIN file
      BY DEF Answer, AnswerIn
    <3>4. IsFiniteSet(Answer)
      <4>1. IsFiniteSet(1..Len(file))
        BY <2>1, FS_Interval
      <4> QED
        BY <2>1, <3>3, <4>1, FS_Subset
    <3>5. tailed \in SUBSET Answer
      BY <2>2, <3>2
    <3>6. Cardinality(tailed) <= Cardinality(Answer)
      BY ONLY <3>4, <3>5, FS_Subset
    <3>7. ASSUME query.line = None PROVE tailed = Answer
      <4>1. translated.text = <<>>
        <5>1. parse(query).status = parseInt(query.status) /\ parseInt(query.status) # None
          BY <2>1, <3>2, ParseTypes
        <5> QED
          BY <2>1, <3>7, ParseTypes
      <4>2. LineFilter(query, translated) = <<>>
        BY <3>7, <4>1 DEF LineFilter
      <4>3. \A i \in DOMAIN file : contains(Message(file[i]), <<>>)
        <5> SUFFICES ASSUME NEW i \in 1..Len(file) PROVE contains(Message(file[i]), <<>>)
          BY <2>1
        <5>1. file[i] \in Doc
          BY <2>1, ElementOfSeq
        <5>2. Message(file[i]) \in Text
          BY <5>1, DocTexts
        <5> QED
          BY <5>2, ContainsNothing
      <4> QED
        BY <2>2, <3>2, <3>3, <4>2, <4>3
    <3> QED
      BY <3>1, <3>6, <3>7
  <2>4. ASSUME parsed.type = "search", Once, query.line \notin {None, <<>>}, Pattern = query.line,
               \A i \in LinesWith : contains(Message(file[i]), Pattern)
        PROVE  Cardinality(tailed) = countText
    <3>1. countText = Cardinality(LinesWith)
      BY <2>4, CountsLines
    <3>2. translated.status = None /\ translated.latency = None
      BY <2>1, <2>4, ParseQueryTypes
    <3>3. \A i \in DOMAIN file : Has(file[i], translated)
      BY <3>2 DEF Has
    <3>4. LineFilter(query, translated) = Pattern
      BY <2>4 DEF LineFilter
    <3>5. Pattern \in Text /\ Pattern # <<>>
      BY <2>1, <2>4, Texts DEF PathInv
    <3>6. ASSUME NEW i \in DOMAIN file, contains(Message(file[i]), Pattern) PROVE i \in LinesWith
      <4>1. file[i] \in Doc
        BY <2>1, ElementOfSeq
      <4>2. contains(RawLine(file[i]), Pattern)
        BY <3>5, <3>6, <4>1, RawLineProperties
      <4> QED
        BY <4>2 DEF LinesWith
    <3>7. LinesWith \subseteq DOMAIN file
      BY DEF LinesWith
    <3>8. tailed = LinesWith
      BY <2>2, <2>4, <3>3, <3>4, <3>6, <3>7
    <3> QED
      BY <3>1, <3>8
  <2> QED
    BY <2>3, <2>4 DEF TailAgreesWithScan
<1> QED
  BY <1>1, PathCorrect, PTL

\* What the loop has listed after k lines, from what it had before.
Listed(docs, t, before, k) ==
    IF k <= kReadLimit /\ Room(before) /\ Has(docs[k], t) THEN Append(before, docs[k]) ELSE before

Listing(f, docs, t, n) ==
    f = [k \in 0..n |-> IF k = 0 THEN <<>> ELSE Listed(docs, t, f[k - 1], k)]

\* The recursive function in Lists exists.
LEMMA ListingsExist ==
    ASSUME NEW docs, NEW t, NEW n \in Nat
    PROVE  \E f : Listing(f, docs, t, n)
<1> SUFFICES ASSUME \A f : ~Listing(f, docs, t, n) PROVE FALSE
  OBVIOUS
<1> DEFINE T == {k \in Nat : \A f : ~Listing(f, docs, t, k)}
<1>1. PICK k \in T : \A j \in T : k <= j
  <2>1. T \in SUBSET Nat /\ n \in T
    OBVIOUS
  <2> HIDE DEF T
  <2> QED
    BY <2>1, LeastNat
<1>2. k \in Nat /\ \A f : ~Listing(f, docs, t, k)
  OBVIOUS
<1>3. CASE k = 0
  <2> DEFINE f == [i \in 0..0 |-> <<>>]
  <2>1. f = [i \in 0..0 |-> IF i = 0 THEN <<>> ELSE Listed(docs, t, f[i - 1], i)]
    OBVIOUS
  <2> QED
    BY <1>2, <1>3, <2>1 DEF Listing
<1>4. CASE k # 0
  <2>1. k - 1 \in Nat /\ k - 1 \notin T
    BY <1>1, <1>2, <1>4
  <2>2. PICK g : Listing(g, docs, t, k - 1)
    BY <2>1
  <2> DEFINE f == [i \in 0..k |-> IF i = 0 THEN <<>> ELSE Listed(docs, t, g[i - 1], i)]
  <2>3. \A i \in 0..k - 1 : f[i] = g[i]
    <3> SUFFICES ASSUME NEW i \in 0..k - 1 PROVE f[i] = g[i]
      OBVIOUS
    <3>1. g = [j \in 0..k - 1 |-> IF j = 0 THEN <<>> ELSE Listed(docs, t, g[j - 1], j)]
      BY <2>2 DEF Listing
    <3>2. g[i] = IF i = 0 THEN <<>> ELSE Listed(docs, t, g[i - 1], i)
      BY <3>1, Zenon
    <3>3. i \in 0..k
      BY <1>2
    <3> QED
      BY <3>2, <3>3
  <2>4. f = [i \in 0..k |-> IF i = 0 THEN <<>> ELSE Listed(docs, t, f[i - 1], i)]
    <3>1. \A i \in 0..k : i # 0 => i - 1 \in 0..k - 1
      BY <1>2
    <3>2. \A i \in 0..k : i # 0 => f[i - 1] = g[i - 1]
      BY <2>3, <3>1
    <3> HIDE DEF f
    <3>3. f = [i \in 0..k |-> IF i = 0 THEN <<>> ELSE Listed(docs, t, g[i - 1], i)]
      BY DEF f
    <3> QED
      BY <3>2, <3>3
  <2> QED
    BY <1>2, <2>4 DEF Listing
<1> QED
  BY <1>3, <1>4

\* log holds documents of the first k lines, in their order.
Picked(log, docs, t, k) ==
    /\ log \in Seq(Doc) /\ Len(log) <= kEventLimit
    /\ \E places \in [1..Len(log) -> {i \in 1..k : i <= kReadLimit /\ Has(docs[i], t)}] :
          /\ \A i \in 1..Len(log) : log[i] = docs[places[i]]
          /\ \A i, j \in 1..Len(log) : i < j => places[i] < places[j]
    /\ log = <<>> => \A i \in 1..k : Has(docs[i], t) => i > kReadLimit

\* One line more.
LEMMA PickedStep ==
    ASSUME NEW docs \in Seq(Doc), NEW t, NEW before, NEW k \in 1..Len(docs),
           Picked(before, docs, t, k - 1)
    PROVE  Picked(Listed(docs, t, before, k), docs, t, k)
<1> DEFINE From(m) == {i \in 1..m : i <= kReadLimit /\ Has(docs[i], t)}
           n == Len(before)
<1>0. k \in Nat \ {0} /\ k \in 1..k /\ (\A i \in 1..k - 1 : i \in 1..k /\ i < k) /\ docs[k] \in Doc
  BY LenProperties, ElementOfSeq
<1>1. before \in Seq(Doc) /\ n \in Nat /\ n <= kEventLimit
  BY LenProperties DEF Picked
<1>2. PICK places \in [1..n -> From(k - 1)] :
          /\ \A i \in 1..n : before[i] = docs[places[i]]
          /\ \A i, j \in 1..n : i < j => places[i] < places[j]
  BY DEF Picked
<1>l. kEventLimit \in Nat \ {0} /\ kReadLimit \in Nat
  BY LimitsAssumption
<1>3. CASE k <= kReadLimit /\ Room(before) /\ Has(docs[k], t)
  <2> DEFINE log == Append(before, docs[k])
             pl == [i \in 1..n + 1 |-> IF i <= n THEN places[i] ELSE k]
  <2>1. /\ log \in Seq(Doc) /\ Len(log) = n + 1
        /\ \A i \in 1..n + 1 : log[i] = IF i <= n THEN before[i] ELSE docs[k]
    <3>1. /\ log \in Seq(Doc) /\ Len(log) = n + 1
          /\ \A i \in 1..n : log[i] = before[i]
          /\ log[n + 1] = docs[k]
      BY <1>0, <1>1, AppendProperties
    <3> HIDE DEF log, n
    <3>2. \A i \in 1..n + 1 : IF i <= n THEN i \in 1..n ELSE i = n + 1
      BY <1>1
    <3> QED
      BY ONLY <3>1, <3>2
  <2>2. n + 1 <= kEventLimit
    BY <1>1, <1>3, <1>l DEF Room
  <2>3. From(k - 1) \subseteq From(k) /\ k \in From(k)
    BY <1>0, <1>3
  <2> HIDE DEF log, n, From
  <2>4. \A i \in 1..n + 1 : (i <= n => i \in 1..n) /\ (~(i <= n) => i = n + 1)
    BY <1>1
  <2>5. pl \in [1..n + 1 -> From(k)]
    BY <1>2, <2>3, <2>4
  <2>6. \A i \in 1..n + 1 : pl[i] = IF i <= n THEN places[i] ELSE k
    OBVIOUS
  <2> HIDE DEF pl
  <2>7. \A i \in 1..n + 1 : log[i] = docs[pl[i]]
    BY <1>2, <2>1, <2>4, <2>6
  <2>8. \A i, j \in 1..n + 1 : i < j => pl[i] < pl[j]
    <3> SUFFICES ASSUME NEW i \in 1..n + 1, NEW j \in 1..n + 1, i < j PROVE pl[i] < pl[j]
      OBVIOUS
    <3>1. i <= n /\ i \in 1..n
      BY <1>1
    <3>2. CASE j <= n
      BY <1>2, <2>4, <2>6, <3>1, <3>2
    <3>3. CASE ~(j <= n)
      <4>1. places[i] \in 1..k - 1
        BY <1>2, <3>1 DEF From
      <4> QED
        BY <1>0, <2>6, <3>1, <3>3, <4>1
    <3> QED
      BY <3>2, <3>3
  <2>9. log # <<>>
    BY <1>1, <2>1
  <2>10. Listed(docs, t, before, k) = log
    BY <1>3 DEF Listed, log
  <2>11. Picked(log, docs, t, k)
    <3>1. \E q \in [1..Len(log) -> From(k)] :
             /\ \A i \in 1..Len(log) : log[i] = docs[q[i]]
             /\ \A i, j \in 1..Len(log) : i < j => q[i] < q[j]
      BY <2>1, <2>5, <2>7, <2>8
    <3> QED
      BY <2>1, <2>2, <2>9, <3>1 DEF Picked, From
  <2> QED
    BY <2>10, <2>11
<1>4. CASE ~(k <= kReadLimit /\ Room(before) /\ Has(docs[k], t))
  <2>1. Listed(docs, t, before, k) = before
    BY <1>4 DEF Listed
  <2>2. From(k - 1) \subseteq From(k)
    BY <1>0
  <2>3. ASSUME before = <<>>, NEW i \in 1..k, Has(docs[i], t) PROVE i > kReadLimit
    <3>1. CASE i = k
      <4>1. Room(before)
        BY <1>l, <2>3 DEF Room
      <4> QED
        BY <1>0, <1>4, <1>l, <2>3, <3>1, <4>1
    <3>2. CASE i # k
      <4>1. i \in 1..k - 1
        BY <1>0, <3>2
      <4> QED
        BY <2>3, <4>1 DEF Picked
    <3> QED
      BY <3>1, <3>2
  <2> HIDE DEF From
  <2>4. places \in [1..n -> From(k)]
    BY <1>2, <2>2
  <2>5. \E q \in [1..n -> From(k)] :
           /\ \A i \in 1..n : before[i] = docs[q[i]]
           /\ \A i, j \in 1..n : i < j => q[i] < q[j]
    BY <1>2, <2>4
  <2>6. Picked(before, docs, t, k)
    BY <1>1, <2>3, <2>5 DEF Picked, From
  <2> QED
    BY <2>1, <2>6
<1> QED
  BY <1>3, <1>4

\* What getMatchingEvents lists.
LEMMA ListsPicked ==
    ASSUME NEW docs \in Seq(Doc), NEW t
    PROVE  Picked(Lists(docs, t), docs, t, Len(docs))
<1> DEFINE n == Len(docs)
           g == CHOOSE f : f = [k \in 0..n |-> IF k = 0 THEN <<>>
                   ELSE IF k <= kReadLimit /\ Room(f[k - 1]) /\ Has(docs[k], t)
                          THEN Append(f[k - 1], docs[k]) ELSE f[k - 1]]
<1>0. n \in Nat
  BY LenProperties
<1>1. Lists(docs, t) = g[n]
  BY DEF Lists
<1> HIDE DEF n
<1>2. g = [k \in 0..n |-> IF k = 0 THEN <<>> ELSE Listed(docs, t, g[k - 1], k)]
  <2>1. \E f : Listing(f, docs, t, n)
    BY <1>0, ListingsExist
  <2> QED
    BY <2>1 DEF Listing, Listed
<1> HIDE DEF g
<1>3. \A k \in 0..n : g[k] = IF k = 0 THEN <<>> ELSE Listed(docs, t, g[k - 1], k)
  BY <1>2, Zenon
<1>4. \A k \in 0..n : Picked(g[k], docs, t, k)
  <2> SUFFICES ASSUME NEW m \in 0..n, ~Picked(g[m], docs, t, m) PROVE FALSE
    OBVIOUS
  <2> DEFINE T == {k \in 0..n : ~Picked(g[k], docs, t, k)}
  <2>1. T \in SUBSET Nat /\ T # {}
    OBVIOUS
  <2>2. PICK k \in T : \A j \in T : k <= j
    <3> HIDE DEF T
    <3> QED
      BY <2>1, LeastNat
  <2>3. k \in 0..n /\ ~Picked(g[k], docs, t, k)
    OBVIOUS
  <2>4. Picked(<<>>, docs, t, 0)
    <3> DEFINE pl == [i \in 1..0 |-> 0]
    <3>1. pl \in [1..0 -> {i \in 1..0 : i <= kReadLimit /\ Has(docs[i], t)}] /\ \A i \in 1..0 : FALSE
      OBVIOUS
    <3>2. <<>> \in Seq(Doc) /\ Len(<<>>) = 0 /\ Len(<<>>) <= kEventLimit
      BY LimitsAssumption
    <3> HIDE DEF pl
    <3> QED
      BY <3>1, <3>2 DEF Picked
  <2>5. k # 0
    <3>1. 0 \in 0..n /\ g[0] = <<>>
      BY <1>0, <1>3
    <3> QED
      BY <2>3, <2>4, <3>1
  <2>6. k - 1 \in 0..n /\ k \in 1..n /\ k - 1 \notin T
    BY <1>0, <2>2, <2>3, <2>5
  <2>7. Picked(g[k - 1], docs, t, k - 1)
    BY <2>6
  <2>8. g[k] = Listed(docs, t, g[k - 1], k)
    BY <1>3, <2>3, <2>5
  <2> QED
    BY <2>3, <2>6, <2>7, <2>8, PickedStep DEF n
<1>5. n \in 0..n
  BY <1>0
<1> QED
  BY <1>1, <1>4, <1>5 DEF n

\* For every JSON file that getMatchingEvents reads, every query and limit, the
\* listed events are documents the labels select, in the order of the file, and
\* made up only when there are none; the numbers must be ints.
THEOREM EventsCorrect == Spec => []EventsAreLogged
<1>1. PathInv => EventsAreLogged
  <2> DEFINE docs == events.json
             log == events.log
             n == Len(docs)
  <2> SUFFICES ASSUME PathInv, stage = "listed", Expressible(docs), Whole(docs, kIntMax)
               PROVE  /\ Len(events.log) <= kEventLimit
                      /\ \E places \in [DOMAIN events.log -> AnswerIn(docs)] : ListedFrom(places)
                      /\ events.fabricated => \A i \in AnswerIn(docs) : i > kReadLimit
    BY DEF EventsAreLogged
  <2>1. docs \in Seq(Doc) /\ DOMAIN docs = 1..n /\ n \in Nat
    BY LenProperties DEF PathInv, Results
  <2>e. log = Lists(docs, translated) /\ events.fabricated = (Lists(docs, translated) = <<>>)
    <3>1. events = EventsOf(docs, translated)
      BY DEF PathInv, Results
    <3> HIDE DEF docs
    <3>2. EventsOf(docs, translated).log = Lists(docs, translated)
          /\ EventsOf(docs, translated).fabricated = (Lists(docs, translated) = <<>>)
      BY DEF EventsOf
    <3> QED
      BY <3>1, <3>2, Zenon
  <2>2. \A i \in DOMAIN docs : Has(docs[i], translated) <=> i \in AnswerIn(docs)
    BY <2>1, HasIsLabelled DEF PathInv
  <2>3. AnswerIn(docs) \subseteq DOMAIN docs
    BY DEF AnswerIn
  <2>4. Picked(log, docs, translated, n) /\ (events.fabricated => log = <<>>)
    BY <2>1, <2>e, ListsPicked
  <2>5. DOMAIN log = 1..Len(log)
    BY <2>4, LenProperties DEF Picked
  <2>6. PICK places \in [1..Len(log) -> {i \in 1..n : i <= kReadLimit /\ Has(docs[i], translated)}] :
           /\ \A i \in 1..Len(log) : log[i] = docs[places[i]]
           /\ \A i, j \in 1..Len(log) : i < j => places[i] < places[j]
    BY <2>4 DEF Picked
  <2>7. \A i \in 1..Len(log) : places[i] \in AnswerIn(docs) /\ places[i] <= kReadLimit
    BY <2>1, <2>2, <2>6
  <2>8. places \in [DOMAIN log -> AnswerIn(docs)]
    BY <2>5, <2>6, <2>7
  <2>9. ListedFrom(places)
    BY <2>5, <2>6, <2>7 DEF ListedFrom
  <2>10. log = <<>> => \A i \in AnswerIn(docs) : i > kReadLimit
    BY <2>1, <2>2, <2>3, <2>4 DEF Picked
  <2> QED
    BY <2>4, <2>8, <2>9, <2>10 DEF Picked
<1> QED
  BY <1>1, PathCorrect, PTL
=============================================================================
