----------------------- MODULE AdaptiveIngesterProofs -----------------------
(***************************************************************************)
(* Proofs about the staging path.  For any threads, cells and batches, a   *)
(* reader of a cell finds the lines staged there.  With one cell, that is  *)
(* one row group under way at a time, and a log that can be written, no    *)
(* acknowledged line is lost before it is transcoded, however often the    *)
(* process crashes, be it in the middle of an append or of a replay, but   *)
(* for what a process loses that starts on a log without reading it.  With *)
(* one transcoder and no promotion, the depth counter is the backlog.      *)
(***************************************************************************)
EXTENDS AdaptiveIngester, SequenceTheorems, FiniteSetTheorems, WellFoundedInduction, TLAPS

-----------------------------------------------------------------------------
(* What recover_from_wal reads.                                             *)

\* Every set of naturals that is not empty has a least element.
LEMMA LeastNat ==
    ASSUME NEW T \in SUBSET Nat, T # {}
    PROVE  \E i \in T : \A j \in T : i <= j
<1>1. PICK i \in T : \A j \in T : ~ (<<j, i>> \in OpToRel(<, Nat))
  BY NatLessThanWellFounded, WFMin
<1>2. \A j \in T : ~ (j < i)
  BY <1>1 DEF OpToRel
<1> QED
  BY <1>2

\* Ranks number the elements of a set of positions, from 1 on.
LEMMA Ranks ==
    ASSUME NEW n \in Nat, NEW P \in SUBSET (1..n)
    PROVE  /\ IsFiniteSet(P) /\ Cardinality(P) \in Nat
           /\ \A m \in 1..Cardinality(P) : \E i \in P : Rank(i, P) = m
           /\ \A i \in P : Rank(i, P) \in 1..Cardinality(P)
           /\ \A i, j \in P : Rank(i, P) = Rank(j, P) => i = j
<1> DEFINE Upto(i) == {j \in P : j <= i}
<1>1. IsFiniteSet(P) /\ Cardinality(P) \in Nat
  <2>1. IsFiniteSet(1..n)
    BY FS_Interval
  <2>2. IsFiniteSet(P)
    BY <2>1, FS_Subset
  <2> QED
    BY <2>2, FS_CardinalityType
<1>2. \A i \in Nat : IsFiniteSet(Upto(i)) /\ Rank(i, P) = Cardinality(Upto(i)) /\ Rank(i, P) \in Nat
                     /\ Rank(i, P) <= Cardinality(P)
  BY <1>1, FS_Subset, FS_CardinalityType DEF Rank
<1>r. \A i \in Nat : Rank(i, P) \in Nat
  BY <1>2
<1>3. \A i \in P : i \in Nat /\ i >= 1 /\ i <= n
  OBVIOUS
<1>4. ASSUME NEW m \in 1..Cardinality(P) PROVE \E i \in P : Rank(i, P) = m
  <2> DEFINE T == {i \in Nat : Rank(i, P) >= m}
  <2>1. Upto(n) = P
    BY <1>3
  <2>m. m \in Nat
    BY <1>1
  <2>2. n \in T
    BY <1>1, <1>2, <2>1
  <2>3. PICK i \in T : \A j \in T : i <= j
    <3> HIDE DEF T
    <3>1. T \in SUBSET Nat
      BY DEF T
    <3> QED
      BY <2>2, <3>1, LeastNat
  <2>4. Upto(0) = {}
    <3> SUFFICES ASSUME NEW j \in P, j <= 0 PROVE FALSE
      OBVIOUS
    <3>1. j \in Nat /\ j >= 1
      BY <1>3
    <3> QED
      BY <3>1
  <2>5. Rank(0, P) = 0
    BY <1>2, <2>4, FS_EmptySet
  <2>6. i \in Nat /\ i # 0 /\ Rank(i, P) >= m /\ i - 1 \in Nat
    BY <1>1, <2>3, <2>5
  <2>7. Rank(i - 1, P) < m
    <3>1. i - 1 \notin T
      BY <2>3, <2>6
    <3>2. Rank(i - 1, P) \in Nat /\ m \in Nat
      BY <1>r, <2>m, <2>6
    <3> QED
      BY <2>6, <3>1, <3>2
  <2>8. \A j \in P : j <= i <=> j <= i - 1 \/ j = i
    <3> SUFFICES ASSUME NEW j \in P PROVE j <= i <=> j <= i - 1 \/ j = i
      OBVIOUS
    <3>1. j \in Nat
      BY <1>3
    <3> QED
      BY <2>6, <3>1
  <2>9. i \in P
    <3> SUFFICES ASSUME i \notin P PROVE FALSE
      OBVIOUS
    <3>1. Upto(i) = Upto(i - 1)
      BY <2>8
    <3>2. Rank(i, P) = Rank(i - 1, P)
      BY <3>1 DEF Rank
    <3>3. Rank(i, P) \in Nat /\ m \in Nat
      BY <1>r, <2>m, <2>6
    <3> QED
      BY <2>6, <2>7, <3>2, <3>3
  <2>10. i \notin Upto(i - 1) /\ Upto(i) = Upto(i - 1) \cup {i}
    <3>1. i \notin Upto(i - 1)
      BY <2>6
    <3>2. Upto(i) = Upto(i - 1) \cup {i}
      BY <2>8, <2>9
    <3> QED
      BY <3>1, <3>2
  <2>11. Cardinality(Upto(i)) = Cardinality(Upto(i - 1)) + 1
    <3> HIDE DEF Upto
    <3> QED
      BY <1>2, <2>6, <2>10, FS_AddElement
  <2>12. Rank(i, P) = Rank(i - 1, P) + 1 /\ Rank(i - 1, P) \in Nat /\ m \in Nat
    BY <1>r, <2>m, <2>6, <2>11 DEF Rank
  <2>13. Rank(i, P) = m
    BY <2>6, <2>7, <2>12
  <2> QED
    BY <2>9, <2>13
<1>5. ASSUME NEW i \in P PROVE Rank(i, P) \in 1..Cardinality(P)
  <2>1. i \in Upto(i)
    BY <1>3
  <2>2. Cardinality(Upto(i)) # 0
    <3> HIDE DEF Upto
    <3> QED
      BY <1>2, <1>3, <2>1, FS_EmptySet
  <2> QED
    BY <1>1, <1>2, <1>3, <2>2
<1>6. ASSUME NEW i \in P, NEW j \in P, i < j PROVE Rank(i, P) # Rank(j, P)
  <2>0. i \in Nat /\ j \in Nat /\ \A x \in P : x <= i => x <= j
    <3>1. ASSUME NEW x \in P, x <= i PROVE x <= j
      <4>1. x \in Nat /\ i \in Nat /\ j \in Nat
        BY <1>3
      <4> QED
        BY <1>6, <3>1, <4>1
    <3> QED
      BY <1>3, <3>1
  <2>1. Upto(i) \in SUBSET Upto(j) /\ j \in Upto(j) /\ j \notin Upto(i)
    <3>1. ~ (j <= i) /\ j <= j
      BY <1>6, <2>0
    <3> QED
      BY <2>0, <3>1
  <2>2. Cardinality(Upto(i)) # Cardinality(Upto(j))
    <3> HIDE DEF Upto
    <3> QED
      BY <1>2, <1>3, <2>1, FS_Subset
  <2> QED
    BY <1>2, <1>3, <2>2
<1>7. \A i, j \in P : Rank(i, P) = Rank(j, P) => i = j
  BY <1>3, <1>6
<1> QED
  BY <1>1, <1>4, <1>5, <1>7

\* The kept lines of a log are its lines that are not empty.
LEMMA KeptLines ==
    ASSUME NEW log \in Seq(LogLines)
    PROVE  Kept(log) \in Seq(LogLines) /\ ToSet(Kept(log)) = ToSet(log) \ {Blank}
<1> DEFINE P == {i \in DOMAIN log : log[i] # Blank}
           Nth(m) == CHOOSE i \in P : Rank(i, P) = m
<1>1. Len(log) \in Nat /\ DOMAIN log = 1..Len(log) /\ \A i \in DOMAIN log : log[i] \in LogLines
  BY LenProperties, ElementOfSeq
<1>2. P \in SUBSET (1..Len(log))
  BY <1>1
<1>3. Kept(log) = [m \in 1..Cardinality(P) |-> log[Nth(m)]]
  BY DEF Kept
<1>4. /\ Cardinality(P) \in Nat
      /\ \A m \in 1..Cardinality(P) : \E i \in P : Rank(i, P) = m
      /\ \A i \in P : Rank(i, P) \in 1..Cardinality(P)
      /\ \A i, j \in P : Rank(i, P) = Rank(j, P) => i = j
  <2> HIDE DEF P
  <2> QED
    BY <1>1, <1>2, Ranks
<1>p. \A i \in P : i \in DOMAIN log /\ log[i] # Blank
  OBVIOUS
<1>q. \A i \in DOMAIN log : log[i] # Blank => i \in P
  OBVIOUS
<1> HIDE DEF P
<1>5. \A m \in 1..Cardinality(P) : Nth(m) \in P /\ Rank(Nth(m), P) = m
  BY <1>4
<1> HIDE DEF Nth
<1>6. \A m \in 1..Cardinality(P) : log[Nth(m)] \in LogLines /\ log[Nth(m)] # Blank
  BY <1>1, <1>5, <1>p
<1>7. Kept(log) \in Seq(LogLines) /\ DOMAIN Kept(log) = 1..Cardinality(P)
  BY <1>3, <1>4, <1>6
<1>8. \A i \in P : Nth(Rank(i, P)) = i
  BY <1>4, <1>5
<1>9. ToSet(Kept(log)) \subseteq ToSet(log) \ {Blank}
  BY <1>3, <1>5, <1>7, <1>p DEF ToSet
<1>10. ToSet(log) \ {Blank} \subseteq ToSet(Kept(log))
  <2> SUFFICES ASSUME NEW i \in DOMAIN log, log[i] # Blank PROVE log[i] \in ToSet(Kept(log))
    BY DEF ToSet
  <2>1. i \in P /\ Rank(i, P) \in DOMAIN Kept(log) /\ Kept(log)[Rank(i, P)] = log[i]
    BY <1>3, <1>4, <1>7, <1>8, <1>q
  <2> QED
    BY <2>1 DEF ToSet
<1> QED
  BY <1>7, <1>9, <1>10

\* Appending to the log: the lines of both parts, and no others.
LEMMA ConcatLines ==
    ASSUME NEW S, NEW a \in Seq(S), NEW b \in Seq(S)
    PROVE  a \o b \in Seq(S) /\ ToSet(a \o b) = ToSet(a) \cup ToSet(b)
<1> DEFINE c == a \o b
<1>1. /\ c \in Seq(S) /\ Len(c) = Len(a) + Len(b) /\ \A i \in 1..Len(a) : c[i] = a[i]
      /\ \A i \in Len(a) + 1..Len(a) + Len(b) : c[i] = b[i - Len(a)]
  BY ConcatProperties
<1>2. /\ Len(a) \in Nat /\ Len(b) \in Nat /\ DOMAIN a = 1..Len(a) /\ DOMAIN b = 1..Len(b)
      /\ DOMAIN c = 1..Len(a) + Len(b)
  BY <1>1, LenProperties
<1> HIDE DEF c
<1>3. ASSUME NEW i \in DOMAIN c PROVE c[i] \in ToSet(a) \cup ToSet(b)
  <2>1. CASE i <= Len(a)
    BY <1>1, <1>2, <2>1 DEF ToSet
  <2>2. CASE i > Len(a)
    <3>1. i \in Len(a) + 1..Len(a) + Len(b) /\ i - Len(a) \in DOMAIN b
      BY <1>2, <2>2
    <3> QED
      BY <1>1, <3>1 DEF ToSet
  <2> QED
    BY <1>2, <2>1, <2>2
<1>4. ASSUME NEW i \in DOMAIN a PROVE a[i] \in ToSet(c)
  BY <1>1, <1>2 DEF ToSet
<1>5. ASSUME NEW i \in DOMAIN b PROVE b[i] \in ToSet(c)
  <2>1. Len(a) + i \in Len(a) + 1..Len(a) + Len(b) /\ (Len(a) + i) - Len(a) = i
        /\ Len(a) + i \in DOMAIN c
    BY <1>2
  <2>2. c[Len(a) + i] = b[i]
    BY <1>1, <2>1
  <2> QED
    BY <2>1, <2>2 DEF ToSet
<1>6. ToSet(c) = ToSet(a) \cup ToSet(b)
  BY <1>3, <1>4, <1>5 DEF ToSet
<1> QED
  BY <1>1, <1>6 DEF c

\* The lines in the file, its unfinished one included, and what the reader
\* makes of lines.
Written == ToSet(wal) \cup IF walTail THEN {Fragment} ELSE {}
Chomp(S) == {Chomped[l] : l \in S}

\* recover_from_wal returns the lines in the file that are not empty, and
\* nothing else.
LEMMA Recovered ==
    ASSUME wal \in Seq(LogLines), walTail \in BOOLEAN
    PROVE  /\ recover_from_wal \in Seq(LogLines)
           /\ ToSet(recover_from_wal) = Chomp(Written \ {Blank})
<1> DEFINE tail == IF walTail THEN <<Fragment>> ELSE <<>>
           log == wal \o tail
           kept == Kept(log)
<1>1. tail \in Seq(LogLines) /\ ToSet(tail) = IF walTail THEN {Fragment} ELSE {}
  <2>1. <<Fragment>> \in Seq(LogLines) /\ DOMAIN <<Fragment>> = {1} /\ <<Fragment>>[1] = Fragment
    BY DEF LogLines
  <2>2. <<>> \in Seq(LogLines) /\ DOMAIN <<>> = {}
    OBVIOUS
  <2> QED
    BY <2>1, <2>2 DEF ToSet
<1>2. log \in Seq(LogLines) /\ ToSet(log) = Written
  <2> HIDE DEF tail
  <2> QED
    BY <1>1, ConcatLines DEF Written
<1>0. recover_from_wal = [i \in DOMAIN kept |-> Chomped[kept[i]]]
  BY DEF recover_from_wal
<1> HIDE DEF log
<1>3. kept \in Seq(LogLines) /\ ToSet(kept) = Written \ {Blank}
  BY <1>2, KeptLines
<1> HIDE DEF kept
<1>4. /\ Len(kept) \in Nat /\ DOMAIN kept = 1..Len(kept)
      /\ \A i \in DOMAIN kept : kept[i] \in LogLines /\ Chomped[kept[i]] \in LogLines
  BY <1>3, LenProperties, ElementOfSeq, BatchesAssumption
<1>5. recover_from_wal \in Seq(LogLines)
  BY <1>0, <1>4
<1>6. ToSet(recover_from_wal) = {Chomped[kept[i]] : i \in DOMAIN kept}
  BY <1>0 DEF ToSet
<1>7. {Chomped[kept[i]] : i \in DOMAIN kept} = Chomp(ToSet(kept))
  BY DEF Chomp, ToSet
<1> QED
  BY <1>3, <1>5, <1>6, <1>7

-----------------------------------------------------------------------------
(* Row groups.                                                              *)

\* A group holds a batch: raw, all of it; compacted, what there is room for.
Holds(group, batch) ==
    IF group.is_compacted THEN group.rows = ingest_chunk(batch)
                          ELSE group.raw_chunk_buffer = batch

\* ingest_chunk keeps a prefix: everything, or as much as a group holds.
LEMMA Chunks ==
    ASSUME NEW batch \in Seq(LogLines)
    PROVE  /\ ingest_chunk(batch) \in Seq(LogLines) /\ IsPrefix(ingest_chunk(batch), batch)
           /\ ingest_chunk(batch) = batch \/ Len(ingest_chunk(batch)) = RowGroupRows
<1> DEFINE n == IF Len(batch) <= RowGroupRows THEN Len(batch) ELSE RowGroupRows
           s == SubSeq(batch, 1, n)
<1>1. Len(batch) \in Nat /\ RowGroupRows \in Nat \ {0} /\ \A i \in 1..Len(batch) : batch[i] \in LogLines
  BY LenProperties, ElementOfSeq, BoundsAssumption
<1>2. n \in Nat /\ n <= Len(batch) /\ (n = Len(batch) \/ n = RowGroupRows)
  BY <1>1
<1>3. ingest_chunk(batch) = s
  BY DEF ingest_chunk
<1> HIDE DEF n
<1>4. s \in Seq(LogLines) /\ Len(s) = n
  BY <1>1, <1>2, SubSeqProperties
<1>5. IsPrefix(s, batch)
  <2>1. SubSeq(s, 1, Len(s)) = s
    BY <1>4, SubSeqFull
  <2> QED
    BY <1>2, <1>4, <2>1 DEF IsPrefix
<1>6. n = Len(batch) => s = batch
  BY SubSeqFull
<1> QED
  BY <1>2, <1>3, <1>4, <1>5, <1>6

\* What staging, transcoding and promotion make of a group.
LEMMA Groups ==
    /\ \A g \in GroupSet : /\ g # NullPtr /\ g.is_compacted \in BOOLEAN
                           /\ g.raw_chunk_buffer \in Seq(LogLines) /\ g.rows \in Seq(LogLines)
    /\ \A b \in Seq(LogLines) : /\ StagedGroup(b) \in GroupSet /\ Holds(StagedGroup(b), b)
                                /\ StagedGroup(b).is_compacted = FALSE
                                /\ StagedGroup(b).raw_chunk_buffer = b
    /\ \A g \in GroupSet : /\ TranscodedGroup(g) \in GroupSet
                           /\ TranscodedGroup(g).is_compacted = TRUE
                           /\ TranscodedGroup(g).rows = ingest_chunk(g.raw_chunk_buffer)
    /\ \A g \in GroupSet, slot \in HotSlots :
          /\ PromotedGroup(g, slot) \in GroupSet
          /\ PromotedGroup(g, slot).is_compacted = g.is_compacted
          /\ PromotedGroup(g, slot).rows = g.rows
          /\ PromotedGroup(g, slot).raw_chunk_buffer = g.raw_chunk_buffer
<1>0. <<>> \in Seq(LogLines)
  OBVIOUS
<1>1. \A g \in GroupSet : /\ g # NullPtr /\ g.is_compacted \in BOOLEAN /\ g.slots \subseteq HotSlots
                          /\ g.raw_chunk_buffer \in Seq(LogLines) /\ g.rows \in Seq(LogLines)
  BY DEF GroupSet, NullPtr
<1>2. ASSUME NEW b \in Seq(LogLines)
      PROVE  /\ StagedGroup(b) \in GroupSet /\ Holds(StagedGroup(b), b)
             /\ StagedGroup(b).is_compacted = FALSE /\ StagedGroup(b).raw_chunk_buffer = b
  BY <1>0 DEF StagedGroup, RowGroup, GroupSet, Holds
<1>3. ASSUME NEW g \in GroupSet
      PROVE  /\ TranscodedGroup(g) \in GroupSet /\ TranscodedGroup(g).is_compacted = TRUE
             /\ TranscodedGroup(g).rows = ingest_chunk(g.raw_chunk_buffer)
  <2>1. ingest_chunk(g.raw_chunk_buffer) \in Seq(LogLines)
    BY <1>1, Chunks
  <2> QED
    BY <1>0, <2>1 DEF TranscodedGroup, RowGroup, GroupSet
<1>4. ASSUME NEW g \in GroupSet, NEW slot \in HotSlots
      PROVE  /\ PromotedGroup(g, slot) \in GroupSet
             /\ PromotedGroup(g, slot).is_compacted = g.is_compacted
             /\ PromotedGroup(g, slot).rows = g.rows
             /\ PromotedGroup(g, slot).raw_chunk_buffer = g.raw_chunk_buffer
  <2> DEFINE sl == IF ToSet(g.rows) \subseteq {Blank, Fragment} THEN g.slots ELSE g.slots \cup {slot}
  <2>1. sl \in SUBSET HotSlots
    BY <1>1
  <2>2. PromotedGroup(g, slot) = RowGroup(g.raw_chunk_buffer, g.rows, g.is_compacted, sl)
    BY DEF PromotedGroup
  <2> HIDE DEF sl
  <2> QED
    BY <1>1, <2>1, <2>2 DEF RowGroup, GroupSet
<1> QED
  BY <1>1, <1>2, <1>3, <1>4

\* A group that holds its batch is right for every reader.
LEMMA ReadersFind ==
    ASSUME NEW g \in GroupSet, NEW batch \in Seq(LogLines), Holds(g, batch)
    PROVE  /\ IsPrefix(Contents(g), batch)
           /\ \/ Contents(g) = batch
              \/ g.is_compacted /\ Len(Contents(g)) = RowGroupRows
<1>1. CASE g.is_compacted
  BY <1>1, Chunks DEF Holds, Contents
<1>2. CASE ~g.is_compacted
  <2>1. Contents(g) = batch
    BY <1>2 DEF Holds, Contents
  <2>2. Len(batch) \in Nat
    BY LenProperties
  <2> QED
    BY <2>1, <2>2 DEF IsPrefix
<1> QED
  BY <1>1, <1>2

\* Appending keeps every line of the file, the unfinished one as a fragment,
\* and adds the new ones, but for the first one after an unfinished line.
LEMMA Appends ==
    ASSUME wal \in Seq(LogLines), walTail \in BOOLEAN, NEW batch \in Seq(LogLines), batch # <<>>
    PROVE  /\ Appended(batch) \in Seq(LogLines) /\ Written \subseteq ToSet(Appended(batch))
           /\ ~walTail => ToSet(batch) \subseteq ToSet(Appended(batch))
           /\ ToSet(batch) \ {Head(batch)} \subseteq ToSet(Appended(batch))
<1>1. Tail(batch) \in Seq(LogLines)
  BY HeadTailProperties
<1>2. <<Fragment>> \in Seq(LogLines) /\ DOMAIN <<Fragment>> = {1} /\ <<Fragment>>[1] = Fragment
  BY DEF LogLines
<1>3. /\ <<Fragment>> \o Tail(batch) \in Seq(LogLines)
      /\ ToSet(<<Fragment>> \o Tail(batch)) = ToSet(<<Fragment>>) \cup ToSet(Tail(batch))
      /\ Fragment \in ToSet(<<Fragment>> \o Tail(batch))
  <2>1. Fragment \in ToSet(<<Fragment>>)
    BY <1>2 DEF ToSet
  <2> DEFINE f == <<Fragment>>
  <2>2. f \in Seq(LogLines) /\ Fragment \in ToSet(f)
    BY <1>2, <2>1
  <2> HIDE DEF f
  <2>3. \A a, b \in Seq(LogLines) : a \o b \in Seq(LogLines) /\ ToSet(a \o b) = ToSet(a) \cup ToSet(b)
    BY ONLY ConcatLines
  <2>4. f \o Tail(batch) \in Seq(LogLines) /\ ToSet(f \o Tail(batch)) = ToSet(f) \cup ToSet(Tail(batch))
    BY ONLY <1>1, <2>2, <2>3
  <2> QED
    BY <2>2, <2>4 DEF f
<1>t. ToSet(batch) \ {Head(batch)} \subseteq ToSet(Tail(batch))
  <2>1. /\ Len(batch) \in Nat /\ Len(Tail(batch)) = Len(batch) - 1 /\ Head(batch) = batch[1]
        /\ \A i \in 1..Len(Tail(batch)) : Tail(batch)[i] = batch[i + 1]
    BY HeadTailProperties, LenProperties
  <2>2. DOMAIN batch = 1..Len(batch) /\ DOMAIN Tail(batch) = 1..Len(batch) - 1
    BY <1>1, <2>1, LenProperties
  <2> SUFFICES ASSUME NEW i \in DOMAIN batch, batch[i] # Head(batch)
               PROVE  batch[i] \in ToSet(Tail(batch))
    BY DEF ToSet
  <2> DEFINE u == Tail(batch)
  <2> HIDE DEF u
  <2>3. i - 1 \in 1..Len(batch) - 1 /\ (i - 1) + 1 = i
    BY <2>1, <2>2
  <2>4. i - 1 \in DOMAIN u /\ u[i - 1] = batch[i]
    BY <2>1, <2>2, <2>3 DEF u
  <2>5. batch[i] \in ToSet(u)
    BY <2>4 DEF ToSet
  <2> QED
    BY <2>5 DEF u
<1>4. Glued(batch) \in Seq(LogLines) /\ (walTail => Fragment \in ToSet(Glued(batch)))
      /\ (~walTail => Glued(batch) = batch) /\ ToSet(batch) \ {Head(batch)} \subseteq ToSet(Glued(batch))
  BY <1>3, <1>t DEF Glued
<1>5. Appended(batch) \in Seq(LogLines)
      /\ ToSet(Appended(batch)) = ToSet(wal) \cup ToSet(Glued(batch))
  BY <1>4, ConcatLines DEF Appended
<1> QED
  BY <1>4, <1>5 DEF Written

\* The batches of producers.
LEMMA BatchLines == \A batch \in Batches : batch \in Seq(LogLines) /\ batch # <<>>
<1> SUFFICES ASSUME NEW batch \in Batches PROVE batch \in Seq(LogLines) /\ batch # <<>>
  OBVIOUS
<1>1. batch \in Seq(Lines) /\ batch # <<>> /\ Lines \subseteq LogLines
  BY BatchesAssumption DEF LogLines
<1> QED
  BY <1>1

\* active_buffer_depth stays a size_t.
LEMMA Wraps == \A n \in Int : n % DepthModulus \in 0..DepthModulus - 1
  BY BoundsAssumption

-----------------------------------------------------------------------------
(* Readers find the lines that were staged.                                 *)

CellsHold == \A c \in Cells : ~IsNull(c) => Holds(rg[c], batchOf[c])

\* The group a thread has loaded holds the batch of its cell: the cell is not
\* given to a producer meanwhile.
InHand ==
    \A t \in Threads : pc[t] \in {"transcode", "drain", "promote"} =>
        /\ old_rg[t] \in GroupSet /\ Holds(old_rg[t], batchOf[at[t]])
        /\ pc[t] \in {"transcode", "drain"} => ~old_rg[t].is_compacted

\* A producer that has logged a batch has its cell for itself.
Alone ==
    \A t \in Threads : pc[t] = "logged" =>
        /\ t \in Producers /\ ~IsRaw(at[t])
        /\ \A u \in Threads \ {t} : pc[u] # "idle" => at[u] # at[t]

\* Nothing runs, and nothing is staged, in a process that has just started.
Quiet == restarted => (\A t \in Threads : pc[t] = "idle") /\ \A c \in Cells : IsNull(c)

IInv == TypeOK /\ CellsHold /\ InHand /\ Alone /\ Quiet

\* A batch is logged.
LEMMA AppendWalStep ==
    ASSUME IInv, NEW t \in Producers, NEW batch \in Batches, NEW c \in Cells, AppendWal(t, batch, c)
    PROVE  IInv'
<1>0. TypeOK /\ t \in Threads /\ UNCHANGED <<rg, batchOf, old_rg, unread>> /\ restarted' = FALSE
      /\ pc' = [pc EXCEPT ![t] = "logged"] /\ at' = [at EXCEPT ![t] = c]
  BY DEF IInv, AppendWal, Threads, history
<1>1. /\ pc'[t] = "logged" /\ at'[t] = c
      /\ \A u \in Threads \ {t} : pc'[u] = pc[u] /\ at'[u] = at[u]
  BY <1>0 DEF TypeOK
<1>2. batch \in Seq(LogLines) /\ batch # <<>> /\ Head(batch) \in LogLines
  BY BatchLines, HeadTailProperties
<1>3. wal' \in Seq(LogLines) /\ walTail' \in BOOLEAN /\ forsaken' \subseteq LogLines
  BY <1>0, <1>2, Appends DEF AppendWal, TypeOK, walVars
<1>4. TypeOK'
  <2>1. /\ pc' \in [Threads -> {"idle", "logged", "transcode", "drain", "truncate", "promote"}]
        /\ at' \in [Threads -> Cells]
    BY <1>0 DEF TypeOK
  <2>2. lines' \in [Threads -> Seq(LogLines)]
    BY <1>0, <1>2 DEF TypeOK, AppendWal
  <2> QED
    BY <1>0, <1>3, <2>1, <2>2 DEF TypeOK, AppendWal
<1>5. CellsHold'
  BY <1>0 DEF IInv, CellsHold, IsNull
<1>6. InHand'
  BY <1>0, <1>1 DEF IInv, InHand
<1>7. Alone'
  <2>1. ~IsRaw(c) /\ \A u \in Threads : pc[u] # "idle" => at[u] # c
    BY DEF AppendWal, FreeCell, Busy
  <2>2. \A d \in Cells : IsRaw(d)' <=> IsRaw(d)
    BY <1>0 DEF IsRaw, IsNull
  <2> SUFFICES ASSUME NEW u \in Threads, pc'[u] = "logged"
               PROVE  /\ u \in Producers /\ ~IsRaw(at'[u])
                      /\ \A v \in Threads \ {u} : pc'[v] # "idle" => at'[v] # at'[u]
    BY <1>0 DEF Alone, IsRaw, IsNull
  <2>3. CASE u = t
    BY <1>1, <2>1, <2>3
  <2>4. CASE u # t
    <3>1. pc[u] = "logged" /\ at'[u] = at[u] /\ at[u] # c
      BY <1>1, <2>1, <2>4
    <3> QED
      BY <1>1, <3>1 DEF IInv, Alone
  <2> QED
    BY <2>3, <2>4
<1>8. Quiet'
  BY <1>0 DEF Quiet
<1> QED
  BY <1>4, <1>5, <1>6, <1>7, <1>8 DEF IInv

\* The batch is staged, in a cell nobody else has anything to do with.
LEMMA StageBatchStep ==
    ASSUME IInv, NEW t \in Threads, StageBatch(t)
    PROVE  IInv'
<1> DEFINE c == at[t]
<1>0. TypeOK /\ pc[t] = "logged" /\ c \in Cells /\ lines[t] \in Seq(LogLines)
      /\ rg \in [Cells -> GroupSet \cup {NullPtr}] /\ batchOf \in [Cells -> Seq(LogLines)]
      /\ rg' = [rg EXCEPT ![c] = StagedGroup(lines[t])] /\ batchOf' = [batchOf EXCEPT ![c] = lines[t]]
      /\ UNCHANGED <<at, old_rg, restarted>> /\ pc' = [pc EXCEPT ![t] = "idle"]
  BY DEF IInv, StageBatch, TypeOK
<1>1. StagedGroup(lines[t]) \in GroupSet /\ Holds(StagedGroup(lines[t]), lines[t])
  BY <1>0, Groups
<1>2. /\ rg'[c] = StagedGroup(lines[t]) /\ batchOf'[c] = lines[t]
      /\ \A d \in Cells \ {c} : rg'[d] = rg[d] /\ batchOf'[d] = batchOf[d]
  BY <1>0
<1>3. pc'[t] = "idle" /\ \A u \in Threads \ {t} : pc'[u] = pc[u] /\ (pc[u] # "idle" => at[u] # c)
  BY <1>0 DEF TypeOK, IInv, Alone
<1>4. TypeOK'
  <2>1. rg' \in [Cells -> GroupSet \cup {NullPtr}] /\ batchOf' \in [Cells -> Seq(LogLines)]
    BY <1>0, <1>1
  <2>2. pc' \in [Threads -> {"idle", "logged", "transcode", "drain", "truncate", "promote"}]
    BY <1>0 DEF TypeOK
  <2>3. active_buffer_depth' \in 0..DepthModulus - 1
    <3>1. active_buffer_depth \in Int /\ Len(lines[t]) \in Int
      BY <1>0, LenProperties, BoundsAssumption DEF TypeOK
    <3> QED
      BY <3>1, Wraps DEF StageBatch, RaisedBy
  <2>4. acked' \subseteq LogLines
    <3>1. ToSet(lines[t]) \subseteq LogLines
      BY <1>0, ElementOfSeq DEF ToSet
    <3> QED
      BY <1>0, <3>1 DEF TypeOK, StageBatch
  <2> QED
    BY <1>0, <2>1, <2>2, <2>3, <2>4 DEF TypeOK, StageBatch, walVars
<1>5. CellsHold'
  <2> SUFFICES ASSUME NEW d \in Cells, rg'[d] # NullPtr PROVE Holds(rg'[d], batchOf'[d])
    BY DEF CellsHold, IsNull, Holds
  <2> QED
    BY <1>1, <1>2 DEF IInv, CellsHold, IsNull
<1>6. InHand'
  <2> SUFFICES ASSUME NEW u \in Threads, pc'[u] \in {"transcode", "drain", "promote"}
               PROVE  /\ old_rg[u] \in GroupSet /\ Holds(old_rg[u], batchOf'[at[u]])
                      /\ pc'[u] \in {"transcode", "drain"} => ~old_rg[u].is_compacted
    BY <1>0 DEF InHand, Holds
  <2>1. pc'[u] = pc[u] /\ at[u] \in Cells \ {c}
    BY <1>0, <1>3 DEF TypeOK
  <2> QED
    BY <1>2, <2>1 DEF IInv, InHand
<1>7. Alone'
  <2> SUFFICES ASSUME NEW u \in Threads, pc'[u] = "logged"
               PROVE  /\ u \in Producers /\ ~(rg'[at[u]] # NullPtr /\ ~rg'[at[u]].is_compacted)
                      /\ \A v \in Threads \ {u} : pc'[v] # "idle" => at[v] # at[u]
    BY <1>0 DEF Alone, IsRaw, IsNull
  <2>1. u # t /\ pc[u] = "logged" /\ at[u] \in Cells \ {c} /\ rg'[at[u]] = rg[at[u]]
    BY <1>0, <1>2, <1>3 DEF TypeOK
  <2>2. \A v \in Threads : pc'[v] # "idle" => pc[v] # "idle"
    BY <1>3
  <2> QED
    BY <2>1, <2>2 DEF IInv, Alone, IsRaw, IsNull
<1>8. Quiet'
  BY <1>0 DEF IInv, Quiet
<1> QED
  BY <1>4, <1>5, <1>6, <1>7, <1>8 DEF IInv

\* A thread loads the group of a cell that no producer is about to fill.
LEMMA LoadStep ==
    ASSUME IInv, NEW t \in Threads, NEW c \in Cells, NEW p \in {"transcode", "promote"},
           pc[t] = "idle", ~IsNull(c), p = "transcode" => IsRaw(c),
           \A u \in Threads : pc[u] = "logged" => at[u] # c,
           pc' = [pc EXCEPT ![t] = p], at' = [at EXCEPT ![t] = c],
           old_rg' = [old_rg EXCEPT ![t] = rg[c]],
           UNCHANGED <<walVars, rg, active_buffer_depth, lines, restarted, unread, todo, history, crashes>>,
           promotions' \in 0..MaxPromotions
    PROVE  IInv'
<1>0. TypeOK /\ rg[c] \in GroupSet /\ UNCHANGED <<rg, batchOf, restarted>>
  BY DEF IInv, TypeOK, IsNull, history
<1>1. /\ pc'[t] = p /\ at'[t] = c /\ old_rg'[t] = rg[c]
      /\ \A u \in Threads \ {t} : pc'[u] = pc[u] /\ at'[u] = at[u] /\ old_rg'[u] = old_rg[u]
  BY <1>0 DEF TypeOK
<1>2. TypeOK'
  <2>1. /\ pc' \in [Threads -> {"idle", "logged", "transcode", "drain", "truncate", "promote"}]
        /\ at' \in [Threads -> Cells] /\ old_rg' \in [Threads -> GroupSet \cup {NullPtr}]
    BY <1>0 DEF TypeOK
  <2> QED
    BY <1>0, <2>1 DEF TypeOK, walVars, history
<1>3. CellsHold'
  BY <1>0 DEF IInv, CellsHold, IsNull
<1>4. InHand'
  <2> SUFFICES ASSUME NEW u \in Threads, pc'[u] \in {"transcode", "drain", "promote"}
               PROVE  /\ old_rg'[u] \in GroupSet /\ Holds(old_rg'[u], batchOf[at'[u]])
                      /\ pc'[u] \in {"transcode", "drain"} => ~old_rg'[u].is_compacted
    BY <1>0 DEF InHand, Holds
  <2>1. CASE u = t
    BY <1>0, <1>1, <2>1 DEF IInv, CellsHold, IsRaw
  <2>2. CASE u # t
    BY <1>1, <2>2 DEF IInv, InHand
  <2> QED
    BY <2>1, <2>2
<1>5. Alone'
  <2> SUFFICES ASSUME NEW u \in Threads, pc'[u] = "logged"
               PROVE  /\ u \in Producers /\ ~IsRaw(at'[u])
                      /\ \A v \in Threads \ {u} : pc'[v] # "idle" => at'[v] # at'[u]
    BY <1>0 DEF Alone, IsRaw, IsNull
  <2>1. u # t /\ pc[u] = "logged" /\ at'[u] = at[u] /\ at[u] # c
    BY <1>1
  <2> QED
    BY <1>1, <2>1 DEF IInv, Alone
<1>6. Quiet'
  BY <1>0 DEF IInv, Quiet
<1> QED
  BY <1>2, <1>3, <1>4, <1>5, <1>6 DEF IInv

\* A thread stores a group that holds the batch of its cell.
LEMMA StoreStep ==
    ASSUME IInv, NEW t \in Threads, NEW g \in GroupSet, Holds(g, batchOf[at[t]]),
           \/ pc[t] = "transcode" /\ pc' = [pc EXCEPT ![t] = "drain"]
           \/ pc[t] = "promote" /\ pc' = [pc EXCEPT ![t] = "idle"],
           rg' = [rg EXCEPT ![at[t]] = g], committed' \subseteq LogLines,
           UNCHANGED <<walVars, active_buffer_depth, at, lines, old_rg, restarted, unread, todo,
                       acked, forsaken, batchOf, crashes, promotions>>
    PROVE  IInv'
<1> DEFINE c == at[t]
<1>0. TypeOK /\ c \in Cells /\ pc[t] # "idle" /\ pc[t] # "logged"
  BY DEF IInv, TypeOK
<1>1. rg'[c] = g /\ \A d \in Cells \ {c} : rg'[d] = rg[d]
  BY <1>0 DEF TypeOK
<1>2. \A u \in Threads : /\ pc'[u] = "logged" => u # t /\ pc[u] = "logged"
                         /\ pc'[u] # "idle" => pc[u] # "idle"
                         /\ pc'[u] \in {"transcode", "drain", "promote"} =>
                              pc[u] \in {"transcode", "drain", "promote"}
                         /\ pc'[u] \in {"transcode", "drain"} => pc[u] \in {"transcode", "drain"}
  BY <1>0 DEF TypeOK
<1>3. TypeOK'
  <2>1. rg' \in [Cells -> GroupSet \cup {NullPtr}]
    BY <1>0 DEF TypeOK
  <2>2. pc' \in [Threads -> {"idle", "logged", "transcode", "drain", "truncate", "promote"}]
    BY <1>0 DEF TypeOK
  <2> QED
    BY <1>0, <2>1, <2>2 DEF TypeOK, walVars
<1>4. CellsHold'
  <2> SUFFICES ASSUME NEW d \in Cells, rg'[d] # NullPtr PROVE Holds(rg'[d], batchOf[d])
    BY DEF CellsHold, IsNull, Holds
  <2> QED
    BY <1>1 DEF IInv, CellsHold, IsNull
<1>5. InHand'
  <2> SUFFICES ASSUME NEW u \in Threads, pc'[u] \in {"transcode", "drain", "promote"}
               PROVE  /\ old_rg[u] \in GroupSet /\ Holds(old_rg[u], batchOf[at[u]])
                      /\ pc'[u] \in {"transcode", "drain"} => ~old_rg[u].is_compacted
    BY DEF InHand, Holds
  <2> QED
    BY <1>2 DEF IInv, InHand
<1>6. Alone'
  <2> SUFFICES ASSUME NEW u \in Threads, pc'[u] = "logged"
               PROVE  /\ u \in Producers /\ ~(rg'[at[u]] # NullPtr /\ ~rg'[at[u]].is_compacted)
                      /\ \A v \in Threads \ {u} : pc'[v] # "idle" => at[v] # at[u]
    BY DEF Alone, IsRaw, IsNull
  <2>1. u # t /\ pc[u] = "logged" /\ at[u] \in Cells \ {c} /\ rg'[at[u]] = rg[at[u]]
    BY <1>0, <1>1, <1>2 DEF TypeOK, IInv, Alone
  <2> QED
    BY <1>2, <2>1 DEF IInv, Alone, IsRaw, IsNull
<1>7. Quiet'
  BY <1>0 DEF IInv, Quiet
<1> QED
  BY <1>3, <1>4, <1>5, <1>6, <1>7 DEF IInv

\* The transcoder lowers the depth, and empties the log.
LEMMA AfterSwapStep ==
    ASSUME IInv, NEW t \in Threads, DrainDepth(t) \/ TruncateWal(t)
    PROVE  IInv'
<1>0. TypeOK /\ pc[t] \in {"drain", "truncate"}
      /\ UNCHANGED <<rg, at, lines, old_rg, restarted, todo, acked, committed, batchOf, crashes, promotions>>
      /\ unread' \subseteq LogLines /\ forsaken' \subseteq LogLines
  BY DEF IInv, TypeOK, DrainDepth, TruncateWal, history
<1>1. PICK p \in {"truncate", "idle"} : pc' = [pc EXCEPT ![t] = p]
  BY DEF DrainDepth, TruncateWal
<1>2. pc'[t] = p /\ \A u \in Threads \ {t} : pc'[u] = pc[u]
  BY <1>0, <1>1 DEF TypeOK
<1>3. TypeOK'
  <2>1. wal' \in Seq(LogLines) /\ walTail' \in BOOLEAN
    <3>1. (wal' = <<>> /\ walTail' = FALSE) \/ (wal' = wal /\ walTail' = walTail)
      BY DEF DrainDepth, TruncateWal, walVars
    <3>2. <<>> \in Seq(LogLines) /\ wal \in Seq(LogLines) /\ walTail \in BOOLEAN
      BY <1>0 DEF TypeOK
    <3> QED
      BY <3>1, <3>2
  <2>2. active_buffer_depth' \in 0..DepthModulus - 1
    <3>1. CASE DrainDepth(t)
      <4>1. pc[t] = "drain" /\ old_rg[t] \in GroupSet
        BY <3>1 DEF DrainDepth, IInv, InHand
      <4>2. Len(old_rg[t].raw_chunk_buffer) \in Nat
        BY <4>1, Groups, LenProperties
      <4>3. active_buffer_depth \in Int /\ active_buffer_depth - Len(old_rg[t].raw_chunk_buffer) \in Int
        BY <1>0, <4>2, BoundsAssumption DEF TypeOK
      <4> QED
        BY <3>1, <4>3, Wraps DEF DrainDepth, Lowered
    <3>2. CASE TruncateWal(t)
      BY <1>0, <3>2 DEF TruncateWal, TypeOK
    <3> QED
      BY <3>1, <3>2
  <2>3. pc' \in [Threads -> {"idle", "logged", "transcode", "drain", "truncate", "promote"}]
    BY <1>0, <1>1 DEF TypeOK
  <2> QED
    BY <1>0, <2>1, <2>2, <2>3 DEF TypeOK
<1>4. CellsHold'
  BY <1>0 DEF IInv, CellsHold, IsNull
<1>5. InHand'
  BY <1>0, <1>2 DEF IInv, InHand
<1>6. Alone'
  <2> SUFFICES ASSUME NEW u \in Threads, pc'[u] = "logged"
               PROVE  /\ u \in Producers /\ ~IsRaw(at[u])
                      /\ \A v \in Threads \ {u} : pc'[v] # "idle" => at[v] # at[u]
    BY <1>0 DEF Alone, IsRaw, IsNull
  <2>1. u # t /\ pc[u] = "logged" /\ \A v \in Threads : pc'[v] # "idle" => pc[v] # "idle"
    BY <1>0, <1>2
  <2> QED
    BY <2>1 DEF IInv, Alone
<1>7. Quiet'
  BY <1>0 DEF IInv, Quiet
<1> QED
  BY <1>3, <1>4, <1>5, <1>6, <1>7 DEF IInv

\* The process crashes.
LEMMA RestartStep ==
    ASSUME IInv, Restart, wal' \in Seq(LogLines), walTail' \in BOOLEAN
    PROVE  IInv'
<1>0. TypeOK /\ rg' = [c \in Cells |-> NullPtr] /\ pc' = [t \in Threads |-> "idle"]
  BY DEF IInv, Restart
<1>1. TypeOK'
  <2>1. /\ rg' \in [Cells -> GroupSet \cup {NullPtr}] /\ batchOf' \in [Cells -> Seq(LogLines)]
        /\ pc' \in [Threads -> {"idle", "logged", "transcode", "drain", "truncate", "promote"}]
        /\ active_buffer_depth' \in 0..DepthModulus - 1 /\ restarted' \in BOOLEAN
        /\ crashes' \in 0..MaxCrashes
    BY <1>0, BoundsAssumption DEF Restart, TypeOK
  <2>2. unread' \subseteq LogLines
    BY ElementOfSeq DEF Restart, ToSet
  <2> QED
    BY <1>0, <2>1, <2>2 DEF TypeOK, Restart
<1>2. \A c \in Cells : rg'[c] = NullPtr
  BY <1>0
<1>3. \A t \in Threads : pc'[t] = "idle"
  BY <1>0
<1> QED
  BY <1>1, <1>2, <1>3 DEF IInv, CellsHold, InHand, Alone, Quiet, IsNull

\* What a crash inside append_wal_entry leaves in the file.
LEMMA TornAppend ==
    ASSUME IInv, NEW t \in Producers, NEW batch, NEW n \in 0..Len(batch) - 1, NEW torn \in BOOLEAN,
           CrashInAppend(t, batch, n, torn)
    PROVE  /\ wal' \in Seq(LogLines) /\ walTail' \in BOOLEAN
           /\ Written \subseteq Written'
<1>0. wal \in Seq(LogLines) /\ walTail \in BOOLEAN /\ walTail' = torn
  BY DEF IInv, TypeOK, CrashInAppend
<1>1. batch \in Seq(LogLines)
  BY <1>0, Recovered, BatchLines DEF CrashInAppend, IInv, TypeOK
<1>2. Len(batch) \in Nat /\ \A i \in 1..Len(batch) : batch[i] \in LogLines
  BY <1>1, LenProperties, ElementOfSeq
<1>3. CASE n > 0
  <2> DEFINE part == SubSeq(batch, 1, n)
  <2>1. part \in Seq(LogLines) /\ Len(part) = n
    BY <1>2, <1>3, SubSeqProperties
  <2>2. part # <<>>
    BY <1>3, <2>1
  <2>3. wal' = Appended(part)
    BY <1>3 DEF CrashInAppend
  <2> HIDE DEF part
  <2>4. Appended(part) \in Seq(LogLines) /\ Written \subseteq ToSet(Appended(part))
    BY <1>0, <2>1, <2>2, Appends
  <2> QED
    BY <1>0, <2>3, <2>4 DEF Written
<1>4. CASE ~(n > 0)
  <2>1. wal' = wal /\ walTail' = TRUE
    BY <1>0, <1>4 DEF CrashInAppend
  <2> QED
    BY <1>0, <2>1 DEF Written
<1> QED
  BY <1>3, <1>4

\* The restarted process reads its log and replays it.
LEMMA RecoverStep ==
    ASSUME IInv, NEW t \in Producers, NEW c \in Cells, Recover(t, c)
    PROVE  IInv'
<1>0. TypeOK /\ t \in Threads /\ restarted /\ restarted' = FALSE /\ UNCHANGED <<rg, batchOf, old_rg>>
      /\ UNCHANGED <<active_buffer_depth, todo, acked, committed, forsaken, crashes, promotions>>
      /\ unread' = {}
      /\ (\A u \in Threads : pc[u] = "idle") /\ \A d \in Cells : IsNull(d)
  BY DEF IInv, Recover, Threads, history, Quiet, threadVars
<1>1. recover_from_wal \in Seq(LogLines)
  BY <1>0, Recovered DEF TypeOK
<1>2. CASE recover_from_wal = <<>>
  <2>1. UNCHANGED <<walVars, threadVars>>
    BY <1>2 DEF Recover
  <2>2. TypeOK'
    BY <1>0, <2>1 DEF TypeOK, walVars, threadVars
  <2>3. CellsHold' /\ InHand' /\ Alone' /\ Quiet'
    BY <1>0, <2>1 DEF CellsHold, InHand, Alone, Quiet, IsNull, threadVars
  <2> QED
    BY <2>2, <2>3 DEF IInv
<1>3. CASE recover_from_wal # <<>>
  <2>1. wal' = Appended(recover_from_wal) /\ walTail' = FALSE /\ pc' = [pc EXCEPT ![t] = "logged"]
        /\ at' = [at EXCEPT ![t] = c] /\ lines' = [lines EXCEPT ![t] = recover_from_wal]
    BY <1>3 DEF Recover
  <2>2. wal' \in Seq(LogLines)
    BY <1>0, <1>1, <1>3, <2>1, Appends DEF TypeOK
  <2>3. /\ pc' \in [Threads -> {"idle", "logged", "transcode", "drain", "truncate", "promote"}]
        /\ at' \in [Threads -> Cells]
    BY <1>0, <2>1 DEF TypeOK
  <2>4. lines' \in [Threads -> Seq(LogLines)]
    BY <1>0, <1>1, <2>1 DEF TypeOK
  <2>5. TypeOK'
    BY <1>0, <2>1, <2>2, <2>3, <2>4 DEF TypeOK
  <2>6. pc'[t] = "logged" /\ \A u \in Threads \ {t} : pc'[u] = "idle"
    BY <1>0, <2>1 DEF TypeOK
  <2>7. CellsHold' /\ InHand' /\ Quiet'
    BY <1>0, <2>6 DEF CellsHold, InHand, Quiet, IsNull
  <2>8. Alone'
    BY <1>0, <2>3, <2>6 DEF Alone, IsRaw, IsNull
  <2> QED
    BY <2>5, <2>7, <2>8 DEF IInv
<1> QED
  BY <1>2, <1>3

\* A process that starts has empty cells and idle threads.
LEMMA InitEstablishes == Init => IInv
<1> SUFFICES ASSUME Init PROVE IInv
  OBVIOUS
<1>1. \A t \in Threads : pc[t] = "idle"
  BY DEF Init
<1>2. \A c \in Cells : rg[c] = NullPtr
  BY DEF Init
<1>3. TypeOK
  <2>1. <<>> \in Seq(LogLines) /\ (CHOOSE c \in Cells : TRUE) \in Cells
    BY BoundsAssumption
  <2>2. /\ lines \in [Threads -> Seq(LogLines)] /\ batchOf \in [Cells -> Seq(LogLines)]
        /\ at \in [Threads -> Cells] /\ wal \in Seq(LogLines)
    BY <2>1 DEF Init
  <2>3. /\ rg \in [Cells -> GroupSet \cup {NullPtr}] /\ old_rg \in [Threads -> GroupSet \cup {NullPtr}]
        /\ pc \in [Threads -> {"idle", "logged", "transcode", "drain", "truncate", "promote"}]
    BY DEF Init
  <2>4. active_buffer_depth \in 0..DepthModulus - 1 /\ crashes \in 0..MaxCrashes
        /\ promotions \in 0..MaxPromotions
    BY BoundsAssumption DEF Init
  <2> QED
    BY <2>2, <2>3, <2>4 DEF Init, TypeOK
<1> QED
  BY <1>1, <1>2, <1>3 DEF IInv, CellsHold, InHand, Alone, Quiet, IsNull

\* The steps that load or store a group.
LEMMA LoadAndStore ==
    ASSUME IInv, NEW t \in Threads,
           \/ \E c \in Cells : LoadForTranscode(t, c) \/ LoadForPromotion(t, c)
           \/ SwapTranscoded(t) \/ \E slot \in HotSlots : StorePromoted(t, slot)
    PROVE  IInv'
<1>0. TypeOK
  BY DEF IInv
<1>1. ASSUME NEW c \in Cells, LoadForTranscode(t, c) PROVE IInv'
  <2>1. ~IsNull(c) /\ IsRaw(c) /\ \A u \in Threads : pc[u] = "logged" => at[u] # c
    BY <1>1 DEF LoadForTranscode, HasWork, IsRaw, IInv, Alone
  <2>2. promotions' \in 0..MaxPromotions
    BY <1>0, <1>1 DEF TypeOK, LoadForTranscode
  <2> QED
    BY <1>1, <2>1, <2>2, LoadStep DEF LoadForTranscode
<1>2. ASSUME NEW c \in Cells, LoadForPromotion(t, c) PROVE IInv'
  <2>1. ~IsNull(c) /\ \A u \in Threads : pc[u] = "logged" => at[u] # c
    BY <1>2 DEF LoadForPromotion, HandedOut, IInv, Alone
  <2>2. promotions' \in 0..MaxPromotions
    BY <1>0, <1>2, BoundsAssumption DEF TypeOK, LoadForPromotion
  <2> QED
    BY <1>2, <2>1, <2>2, LoadStep DEF LoadForPromotion
<1>3. ASSUME SwapTranscoded(t) PROVE IInv'
  <2> DEFINE g == TranscodedGroup(old_rg[t])
  <2>1. pc[t] = "transcode" /\ old_rg[t] \in GroupSet /\ Holds(old_rg[t], batchOf[at[t]])
        /\ ~old_rg[t].is_compacted
    BY <1>3 DEF SwapTranscoded, IInv, InHand
  <2>2. g \in GroupSet /\ Holds(g, batchOf[at[t]])
    <3>1. /\ g \in GroupSet /\ g.is_compacted = TRUE
          /\ g.rows = ingest_chunk(old_rg[t].raw_chunk_buffer)
      BY <2>1, Groups
    <3>2. old_rg[t].raw_chunk_buffer = batchOf[at[t]]
      BY <2>1 DEF Holds
    <3> HIDE DEF g
    <3> QED
      BY <3>1, <3>2 DEF Holds
  <2>3. committed' \subseteq LogLines
    <3>1. old_rg[t].raw_chunk_buffer \in Seq(LogLines)
      BY <2>1, Groups
    <3>2. ToSet(old_rg[t].raw_chunk_buffer) \subseteq LogLines
      BY <3>1, ElementOfSeq DEF ToSet
    <3> QED
      BY <1>0, <1>3, <3>2 DEF SwapTranscoded, TypeOK
  <2>4. rg' = [rg EXCEPT ![at[t]] = g] /\ pc' = [pc EXCEPT ![t] = "drain"]
        /\ UNCHANGED <<walVars, active_buffer_depth, at, lines, old_rg, restarted, unread, todo,
                       acked, forsaken, batchOf, crashes, promotions>>
    BY <1>3 DEF SwapTranscoded
  <2> HIDE DEF g
  <2> QED
    BY <2>1, <2>2, <2>3, <2>4, StoreStep
<1>4. ASSUME NEW slot \in HotSlots, StorePromoted(t, slot) PROVE IInv'
  <2> DEFINE g == PromotedGroup(old_rg[t], slot)
  <2>1. pc[t] = "promote" /\ old_rg[t] \in GroupSet /\ Holds(old_rg[t], batchOf[at[t]])
    BY <1>4 DEF StorePromoted, IInv, InHand
  <2>2. g \in GroupSet /\ Holds(g, batchOf[at[t]])
    <3>1. /\ g \in GroupSet /\ g.is_compacted = old_rg[t].is_compacted /\ g.rows = old_rg[t].rows
          /\ g.raw_chunk_buffer = old_rg[t].raw_chunk_buffer
      BY <2>1, Groups
    <3> HIDE DEF g
    <3> QED
      BY <2>1, <3>1 DEF Holds
  <2>3. committed' \subseteq LogLines
    BY <1>0, <1>4 DEF StorePromoted, TypeOK, history
  <2>4. rg' = [rg EXCEPT ![at[t]] = g] /\ pc' = [pc EXCEPT ![t] = "idle"]
        /\ UNCHANGED <<walVars, active_buffer_depth, at, lines, old_rg, restarted, unread, todo,
                       acked, forsaken, batchOf, crashes, promotions>>
    BY <1>4 DEF StorePromoted, history
  <2> HIDE DEF g
  <2> QED
    BY <2>1, <2>2, <2>3, <2>4, StoreStep
<1> QED
  BY <1>1, <1>2, <1>3, <1>4

\* Every step keeps the invariant.
LEMMA NextPreserves == IInv /\ [Next]_vars => IInv'
<1> SUFFICES ASSUME IInv, [Next]_vars PROVE IInv'
  OBVIOUS
<1>1. Producers \subseteq Threads /\ Transcoders \subseteq Threads /\ Promoters \subseteq Threads
  BY DEF Threads
<1>2. ASSUME NEW t \in Threads, StageBatch(t) \/ Transcode(t) PROVE IInv'
  BY <1>2, StageBatchStep, LoadAndStore, AfterSwapStep DEF Transcode
<1>3. ASSUME Crash PROVE IInv'
  BY <1>3, RestartStep DEF Crash, walVars, IInv, TypeOK
<1>4. ASSUME NEW t \in Producers, NEW batch, NEW n \in 0..Len(batch) - 1, NEW torn \in BOOLEAN,
             CrashInAppend(t, batch, n, torn)
      PROVE  IInv'
  <2>1. wal' \in Seq(LogLines) /\ walTail' \in BOOLEAN
    BY <1>4, TornAppend
  <2> QED
    BY <1>4, <2>1, RestartStep DEF CrashInAppend
<1>5. CASE UNCHANGED vars
  <2>1. UNCHANGED <<wal, walTail, rg, active_buffer_depth, pc, at, lines, old_rg, restarted, unread,
                    todo, acked, committed, forsaken, batchOf, crashes, promotions>>
    BY <1>5 DEF vars, walVars, threadVars, history
  <2>2. TypeOK'
    BY <2>1 DEF IInv, TypeOK
  <2> QED
    BY <2>1, <2>2 DEF IInv, CellsHold, InHand, Alone, Quiet, IsNull, IsRaw, Holds
<1> QED
  BY <1>1, <1>2, <1>3, <1>4, <1>5, AppendWalStep, LoadAndStore, RecoverStep DEF Next

\* Cells and the groups threads have loaded hold the batch staged last, a
\* producer has its cell for itself, in every reachable state.
THEOREM Inductive == Spec => []IInv
  BY InitEstablishes, NextPreserves, PTL DEF Spec

\* Whoever loads a cell, between any two steps of append_raw_batch,
\* transcode_batch_now and execute_compaction_promotion on any number of
\* threads, finds the lines that were staged, in order.
THEOREM CellsCorrect == Spec => []CellsKeepTheirBatch
<1>1. ASSUME IInv PROVE CellsKeepTheirBatch
  <2>1. TypeOK
    BY <1>1 DEF IInv
  <2> SUFFICES ASSUME NEW c \in Cells, ~IsNull(c)
               PROVE  /\ IsPrefix(Contents(rg[c]), batchOf[c])
                      /\ \/ Contents(rg[c]) = batchOf[c]
                         \/ rg[c].is_compacted /\ Len(Contents(rg[c])) = RowGroupRows
    BY <2>1 DEF CellsKeepTheirBatch
  <2>2. rg[c] \in GroupSet /\ batchOf[c] \in Seq(LogLines) /\ Holds(rg[c], batchOf[c])
    BY <1>1, <2>1 DEF IInv, CellsHold, TypeOK, IsNull
  <2> QED
    BY <2>2, ReadersFind
<1> QED
  BY <1>1, Inductive, PTL

-----------------------------------------------------------------------------
(* One row group at a time: what is acknowledged is durable.                *)

\* There is one cell, the log can be opened, and no line ends in two carriage
\* returns, of which recover_from_wal takes one each time it is run.
OneAtATime ==
    /\ \A c, d \in Cells : c = d
    /\ WalMayFail = FALSE
    /\ \A l \in LogLines : Chomped[Chomped[l]] = Chomped[l]

\* The acknowledged lines that are not transcoded and not forsaken, those that
\* can be read back from the log, and those that are raw in a group.
Excused == Chomp(committed) \cup Chomp(forsaken) \cup {Blank, Fragment}
Uncommitted == Chomp(acked) \ Excused
Readable == Chomp(Written \ {Blank})
RawIn(group) ==
    IF group = NullPtr THEN {}
    ELSE IF group.is_compacted THEN {} ELSE Chomp(ToSet(group.raw_chunk_buffer))

\* A producer has in hand, and in the log, all that is not transcoded, but for
\* what the process has not read.
LoggedRight ==
    \A t \in Threads : pc[t] = "logged" =>
        /\ Uncommitted \subseteq Chomp(ToSet(lines[t])) \cup Chomp(unread)
        /\ Chomp(ToSet(lines[t])) \ Excused \subseteq Readable

\* So does a thread that has loaded a group, and one that will truncate the
\* log leaves only unread lines behind.
LoadedRight ==
    \A t \in Threads :
        /\ pc[t] \in {"transcode", "promote"} => Uncommitted \subseteq RawIn(old_rg[t]) \cup Chomp(unread)
        /\ pc[t] \in {"drain", "truncate"} => Uncommitted \subseteq Chomp(unread)

\* So has the cell, unless the process is about to fill it.
StagedRight ==
    (\A t \in Threads : pc[t] # "logged") =>
        \A c \in Cells : Uncommitted \subseteq RawIn(rg[c]) \cup Chomp(unread)

DInv ==
    /\ walTail => restarted
    /\ Uncommitted \subseteq Readable
    /\ LoggedRight /\ LoadedRight /\ StagedRight

\* With one cell, a producer that has logged a batch is the only thread that
\* does anything.
LEMMA NobodyElse ==
    ASSUME IInv, OneAtATime, NEW t \in Threads, pc[t] = "logged"
    PROVE  \A u \in Threads \ {t} : pc[u] = "idle"
<1>1. \A u \in Threads : at[u] = at[t]
  BY DEF IInv, TypeOK, OneAtATime
<1> QED
  BY <1>1 DEF IInv, Alone

\* append_wal_entry adds to what can be read back.
LEMMA DurableAppend ==
    ASSUME IInv, DInv, OneAtATime, NEW t \in Producers, NEW batch \in Batches, NEW c \in Cells,
           AppendWal(t, batch, c)
    PROVE  DInv'
<1>0. TypeOK /\ t \in Threads /\ UNCHANGED <<rg, unread, acked, committed>>
      /\ pc' = [pc EXCEPT ![t] = "logged"] /\ lines' = [lines EXCEPT ![t] = batch]
      /\ wal' = Appended(batch) /\ walTail' = FALSE
      /\ forsaken' = forsaken \cup IF walTail THEN {Head(batch)} ELSE {}
  BY DEF IInv, AppendWal, Threads, OneAtATime
<1>1. \A u \in Threads : at[u] = c
  BY <1>0 DEF TypeOK, OneAtATime
<1>2. \A u \in Threads : pc[u] = "idle"
  BY <1>1 DEF AppendWal, FreeCell, Busy
<1>3. pc'[t] = "logged" /\ lines'[t] = batch /\ \A u \in Threads \ {t} : pc'[u] = "idle"
  BY <1>0, <1>2 DEF TypeOK
<1>4. Uncommitted \subseteq Chomp(unread)
  <2>1. Uncommitted \subseteq RawIn(rg[c]) \cup Chomp(unread)
    BY <1>0, <1>2 DEF DInv, StagedRight
  <2>2. RawIn(rg[c]) = {}
    BY DEF AppendWal, FreeCell, IsRaw, IsNull, RawIn
  <2> QED
    BY <2>1, <2>2
<1>5. Uncommitted' \subseteq Uncommitted /\ Chomp(unread)' = Chomp(unread)
  BY <1>0 DEF Uncommitted, Excused, Chomp
<1>6. /\ Written \subseteq Written' /\ ToSet(batch) \ {Head(batch)} \subseteq Written'
      /\ ~walTail => ToSet(batch) \subseteq Written'
  <2>1. wal \in Seq(LogLines) /\ walTail \in BOOLEAN
    BY <1>0 DEF TypeOK
  <2>2. /\ Written \subseteq ToSet(Appended(batch)) /\ ToSet(batch) \ {Head(batch)} \subseteq ToSet(Appended(batch))
        /\ ~walTail => ToSet(batch) \subseteq ToSet(Appended(batch))
    BY <2>1, BatchLines, Appends
  <2> QED
    BY <1>0, <2>2 DEF Written
<1>7. Readable \subseteq Readable'
  BY <1>6 DEF Readable, Chomp
<1>8. Chomp(ToSet(batch)) \ Excused' \subseteq Readable'
  <2> SUFFICES ASSUME NEW l \in ToSet(batch), Chomped[l] \notin Excused'
               PROVE  Chomped[l] \in Readable'
    BY DEF Chomp
  <2>1. l # Blank
    BY BatchesAssumption DEF Excused
  <2>2. walTail => l # Head(batch)
    BY <1>0 DEF Excused, Chomp
  <2>3. l \in Written'
    BY <1>6, <2>2
  <2> QED
    BY <2>1, <2>3 DEF Readable, Chomp
<1>9. LoggedRight'
  <2> SUFFICES ASSUME NEW u \in Threads, pc'[u] = "logged"
               PROVE  /\ Uncommitted' \subseteq Chomp(ToSet(lines'[u])) \cup Chomp(unread)'
                      /\ Chomp(ToSet(lines'[u])) \ Excused' \subseteq Readable'
    BY DEF LoggedRight, Chomp
  <2> QED
    BY <1>3, <1>4, <1>5, <1>8
<1>10. LoadedRight' /\ StagedRight'
  BY <1>0, <1>3 DEF LoadedRight, StagedRight
<1>11. Uncommitted' \subseteq Readable'
  BY <1>5, <1>7 DEF DInv
<1> QED
  BY <1>0, <1>9, <1>10, <1>11 DEF DInv

\* A batch is acknowledged once it is in the log, and is then raw in the cell.
LEMMA DurableStage ==
    ASSUME IInv, DInv, OneAtATime, NEW t \in Threads, StageBatch(t)
    PROVE  DInv'
<1> DEFINE new == Chomp(ToSet(lines[t]))
<1>0. TypeOK /\ pc[t] = "logged" /\ at[t] \in Cells /\ lines[t] \in Seq(LogLines)
      /\ rg' = [rg EXCEPT ![at[t]] = StagedGroup(lines[t])] /\ pc' = [pc EXCEPT ![t] = "idle"]
      /\ UNCHANGED <<wal, walTail, restarted, unread, committed, forsaken>> /\ acked' = acked \cup ToSet(lines[t])
  BY DEF IInv, StageBatch, TypeOK, walVars
<1>1. \A u \in Threads : pc'[u] = "idle"
  BY <1>0, NobodyElse DEF TypeOK
<1>2. Uncommitted \subseteq new \cup Chomp(unread) /\ new \ Excused \subseteq Readable
  BY <1>0 DEF DInv, LoggedRight
<1>3. Uncommitted' \subseteq Uncommitted \cup (new \ Excused) /\ Chomp(unread)' = Chomp(unread)
  BY <1>0 DEF Uncommitted, Excused, Chomp
<1>4. Readable' = Readable
  BY <1>0 DEF Readable, Written, Chomp
<1>5. ASSUME NEW c \in Cells PROVE RawIn(rg'[c]) = new
  <2>1. rg'[c] = StagedGroup(lines[t])
    BY <1>0 DEF TypeOK, OneAtATime
  <2>2. StagedGroup(lines[t]) # NullPtr /\ StagedGroup(lines[t]).is_compacted = FALSE
        /\ StagedGroup(lines[t]).raw_chunk_buffer = lines[t]
    BY <1>0, Groups
  <2> QED
    BY <2>1, <2>2 DEF RawIn
<1> HIDE DEF new
<1>6. StagedRight'
  <2> SUFFICES ASSUME NEW c \in Cells PROVE Uncommitted' \subseteq RawIn(rg'[c]) \cup Chomp(unread)'
    BY DEF StagedRight, RawIn, Chomp
  <2> QED
    BY <1>2, <1>3, <1>5
<1>7. LoggedRight' /\ LoadedRight'
  BY <1>1 DEF LoggedRight, LoadedRight
<1>8. Uncommitted' \subseteq Readable'
  BY <1>2, <1>3, <1>4 DEF DInv
<1> QED
  BY <1>0, <1>6, <1>7, <1>8 DEF DInv

\* Whoever loads the cell has all that is not yet transcoded, if it is raw.
LEMMA DurableLoad ==
    ASSUME IInv, DInv, OneAtATime, NEW t \in Threads, NEW c \in Cells,
           LoadForTranscode(t, c) \/ LoadForPromotion(t, c)
    PROVE  DInv'
<1>0. TypeOK /\ pc[t] = "idle" /\ old_rg' = [old_rg EXCEPT ![t] = rg[c]]
      /\ UNCHANGED <<wal, walTail, rg, lines, restarted, unread, acked, committed, forsaken>>
      /\ \A u \in Threads : pc[u] = "logged" => at[u] # c
  BY DEF IInv, LoadForTranscode, LoadForPromotion, walVars, history, HasWork, IsRaw, Alone, HandedOut
<1>1. \A u \in Threads : pc[u] # "logged"
  BY <1>0 DEF TypeOK, OneAtATime
<1>2. PICK p \in {"transcode", "promote"} : pc' = [pc EXCEPT ![t] = p]
  BY DEF LoadForTranscode, LoadForPromotion
<1>3. /\ pc'[t] = p /\ old_rg'[t] = rg[c]
      /\ \A u \in Threads \ {t} : pc'[u] = pc[u] /\ old_rg'[u] = old_rg[u]
  BY <1>0, <1>2 DEF TypeOK
<1>4. Uncommitted' = Uncommitted /\ Readable' = Readable /\ Chomp(unread)' = Chomp(unread)
  BY <1>0 DEF Uncommitted, Excused, Readable, Written, Chomp
<1>5. Uncommitted \subseteq RawIn(rg[c]) \cup Chomp(unread)
  BY <1>0, <1>1 DEF DInv, StagedRight
<1>6. LoadedRight'
  <2> SUFFICES ASSUME NEW u \in Threads
               PROVE  /\ pc'[u] \in {"transcode", "promote"} =>
                            Uncommitted \subseteq RawIn(old_rg'[u]) \cup Chomp(unread)
                      /\ pc'[u] \in {"drain", "truncate"} => Uncommitted \subseteq Chomp(unread)
    BY <1>4 DEF LoadedRight, RawIn, Chomp
  <2>1. CASE u = t
    BY <1>3, <1>5, <2>1
  <2>2. CASE u # t
    BY <1>3, <2>2 DEF DInv, LoadedRight
  <2> QED
    BY <2>1, <2>2
<1>7. LoggedRight'
  BY <1>1, <1>3 DEF LoggedRight
<1>8. StagedRight'
  <2> SUFFICES ASSUME NEW d \in Cells PROVE Uncommitted \subseteq RawIn(rg[d]) \cup Chomp(unread)
    BY <1>0, <1>4 DEF StagedRight, RawIn, Chomp
  <2> QED
    BY <1>0, <1>1 DEF DInv, StagedRight
<1> QED
  BY <1>0, <1>4, <1>6, <1>7, <1>8 DEF DInv

\* Transcoding the one group under way leaves nothing to read back but lines
\* that the process has not read.
LEMMA DurableSwap ==
    ASSUME IInv, DInv, OneAtATime, NEW t \in Threads, SwapTranscoded(t)
    PROVE  DInv'
<1>0. TypeOK /\ pc[t] = "transcode" /\ pc' = [pc EXCEPT ![t] = "drain"]
      /\ UNCHANGED <<wal, walTail, lines, old_rg, restarted, unread, acked, forsaken>>
      /\ committed' = committed \cup ToSet(old_rg[t].raw_chunk_buffer)
  BY DEF IInv, SwapTranscoded, walVars
<1>1. Uncommitted \subseteq Chomp(ToSet(old_rg[t].raw_chunk_buffer)) \cup Chomp(unread)
  <2>1. /\ old_rg[t] \in GroupSet /\ ~old_rg[t].is_compacted
        /\ Uncommitted \subseteq RawIn(old_rg[t]) \cup Chomp(unread)
    BY <1>0 DEF IInv, InHand, DInv, LoadedRight
  <2> QED
    BY <2>1, Groups DEF RawIn
<1>2. /\ Uncommitted' \subseteq Chomp(unread) /\ Chomp(unread)' = Chomp(unread)
      /\ Uncommitted' \subseteq Uncommitted /\ Readable' = Readable
  BY <1>0, <1>1 DEF Uncommitted, Excused, Readable, Written, Chomp
<1>3. \A u \in Threads : pc'[u] # "logged"
  <2>1. \A u \in Threads : pc[u] # "logged"
    BY <1>0, NobodyElse
  <2> QED
    BY <1>0, <2>1 DEF TypeOK
<1>4. LoggedRight' /\ LoadedRight' /\ StagedRight'
  BY <1>2, <1>3 DEF LoggedRight, LoadedRight, StagedRight
<1> QED
  BY <1>0, <1>2, <1>4 DEF DInv

\* A promotion puts back what it has copied, raw or compacted.
LEMMA DurablePromotion ==
    ASSUME IInv, DInv, OneAtATime, NEW t \in Threads, NEW slot \in HotSlots, StorePromoted(t, slot)
    PROVE  DInv'
<1> DEFINE g == PromotedGroup(old_rg[t], slot)
<1>0. TypeOK /\ pc[t] = "promote" /\ pc' = [pc EXCEPT ![t] = "idle"] /\ at[t] \in Cells
      /\ rg' = [rg EXCEPT ![at[t]] = g]
      /\ UNCHANGED <<wal, walTail, lines, old_rg, restarted, unread, acked, committed, forsaken>>
  BY DEF IInv, StorePromoted, walVars, history, TypeOK
<1>1. pc'[t] = "idle" /\ \A u \in Threads \ {t} : pc'[u] = pc[u]
  BY <1>0 DEF TypeOK
<1>2. \A u \in Threads : pc[u] # "logged"
  BY <1>0, NobodyElse
<1>3. Uncommitted' = Uncommitted /\ Readable' = Readable /\ Chomp(unread)' = Chomp(unread)
  BY <1>0 DEF Uncommitted, Excused, Readable, Written, Chomp
<1>4. Uncommitted \subseteq RawIn(g) \cup Chomp(unread)
  <2>1. old_rg[t] \in GroupSet /\ Uncommitted \subseteq RawIn(old_rg[t]) \cup Chomp(unread)
    BY <1>0 DEF IInv, InHand, DInv, LoadedRight
  <2>2. /\ g # NullPtr /\ old_rg[t] # NullPtr /\ g.is_compacted = old_rg[t].is_compacted
        /\ g.raw_chunk_buffer = old_rg[t].raw_chunk_buffer
    BY <2>1, Groups
  <2> HIDE DEF g
  <2> QED
    BY <2>1, <2>2 DEF RawIn
<1> HIDE DEF g
<1>5. StagedRight'
  <2> SUFFICES ASSUME NEW c \in Cells PROVE Uncommitted \subseteq RawIn(rg'[c]) \cup Chomp(unread)
    BY <1>3 DEF StagedRight, RawIn, Chomp
  <2>1. rg'[c] = g
    BY <1>0 DEF TypeOK, OneAtATime
  <2> QED
    BY <1>4, <2>1
<1>6. LoggedRight'
  BY <1>1, <1>2 DEF LoggedRight
<1>7. LoadedRight'
  <2> SUFFICES ASSUME NEW u \in Threads
               PROVE  /\ pc'[u] \in {"transcode", "promote"} =>
                            Uncommitted \subseteq RawIn(old_rg[u]) \cup Chomp(unread)
                      /\ pc'[u] \in {"drain", "truncate"} => Uncommitted \subseteq Chomp(unread)
    BY <1>0, <1>3 DEF LoadedRight, RawIn, Chomp
  <2> QED
    BY <1>1 DEF DInv, LoadedRight
<1> QED
  BY <1>0, <1>3, <1>5, <1>6, <1>7 DEF DInv

\* The log is emptied only when everything in it is transcoded, but for what
\* the process has not read.
LEMMA DurableTruncation ==
    ASSUME IInv, DInv, OneAtATime, NEW t \in Threads, DrainDepth(t) \/ TruncateWal(t)
    PROVE  DInv'
<1>0. TypeOK /\ pc[t] \in {"drain", "truncate"} /\ UNCHANGED <<acked, committed, restarted>>
      /\ (walTail' = FALSE \/ walTail' = walTail)
  BY DEF IInv, DrainDepth, TruncateWal, walVars, history
<1>1. Uncommitted \subseteq Chomp(unread)
  BY <1>0 DEF DInv, LoadedRight
<1>2. Uncommitted' \subseteq Readable' /\ Uncommitted' \subseteq Chomp(unread)'
  <2>1. CASE DrainDepth(t)
    <3>1. UNCHANGED <<wal, walTail, unread, acked, committed, forsaken>>
      BY <2>1 DEF DrainDepth, walVars, history
    <3>2. Uncommitted' = Uncommitted /\ Readable' = Readable /\ Chomp(unread)' = Chomp(unread)
      BY <3>1 DEF Uncommitted, Excused, Readable, Written, Chomp
    <3> QED
      BY <1>1, <3>2 DEF DInv
  <2>2. CASE TruncateWal(t)
    <3>1. forsaken' = forsaken \cup unread
      BY <2>2 DEF TruncateWal
    <3>2. Uncommitted' = {}
      BY <1>0, <1>1, <3>1 DEF Uncommitted, Excused, Chomp
    <3> QED
      BY <3>2
  <2> QED
    BY <2>1, <2>2
<1>3. \A u \in Threads : pc'[u] # "logged"
  <2>1. \A u \in Threads : pc[u] # "logged"
    BY <1>0, NobodyElse
  <2>2. PICK p \in {"truncate", "idle"} : pc' = [pc EXCEPT ![t] = p]
    BY DEF DrainDepth, TruncateWal
  <2> QED
    BY <1>0, <2>1, <2>2 DEF TypeOK
<1>4. LoggedRight' /\ LoadedRight' /\ StagedRight'
  BY <1>2, <1>3 DEF LoggedRight, LoadedRight, StagedRight
<1> QED
  BY <1>0, <1>2, <1>4 DEF DInv

\* A crash, with or without an append cut short, keeps all that was written.
LEMMA DurableCrash ==
    ASSUME IInv, DInv, Restart, Written \subseteq Written'
    PROVE  DInv'
<1>1. restarted' = TRUE /\ UNCHANGED <<acked, committed, forsaken>> /\ \A t \in Threads : pc'[t] = "idle"
  BY DEF Restart
<1>2. Uncommitted' = Uncommitted /\ Readable \subseteq Readable'
  BY <1>1 DEF Uncommitted, Excused, Readable, Chomp
<1>3. Uncommitted' \subseteq Chomp(unread)'
  <2> SUFFICES ASSUME NEW x \in Uncommitted' PROVE x \in Chomp(unread)'
    OBVIOUS
  <2>1. x \in Readable' /\ x # Fragment
    BY <1>2 DEF DInv, Uncommitted, Excused
  <2>2. PICK l \in Written' : x = Chomped[l]
    BY <2>1 DEF Readable, Chomp
  <2>3. l # Fragment
    BY <2>1, <2>2, BatchesAssumption
  <2>4. unread' = ToSet(wal')
    BY DEF Restart
  <2>5. l \in unread'
    BY <2>2, <2>3, <2>4 DEF Written
  <2> QED
    BY <2>2, <2>5 DEF Chomp
<1>4. LoggedRight' /\ LoadedRight' /\ StagedRight'
  BY <1>1, <1>3 DEF LoggedRight, LoadedRight, StagedRight
<1> QED
  BY <1>1, <1>2, <1>4 DEF DInv

\* What is replayed is all that is not transcoded, and it is in the log twice.
LEMMA DurableReplay ==
    ASSUME IInv, DInv, OneAtATime, NEW t \in Producers, NEW c \in Cells, Recover(t, c)
    PROVE  DInv'
<1>0. TypeOK /\ t \in Threads /\ restarted /\ restarted' = FALSE
      /\ UNCHANGED <<rg, acked, committed, forsaken>>
      /\ (\A u \in Threads : pc[u] = "idle") /\ wal \in Seq(LogLines) /\ walTail \in BOOLEAN
  BY DEF IInv, Recover, Threads, history, Quiet, TypeOK
<1>1. recover_from_wal \in Seq(LogLines) /\ ToSet(recover_from_wal) = Readable
  BY <1>0, Recovered DEF Readable
<1>2. Uncommitted' = Uncommitted /\ Uncommitted \subseteq Readable
  BY <1>0 DEF Uncommitted, Excused, Chomp, DInv
<1>3. CASE recover_from_wal = <<>>
  <2>1. UNCHANGED <<wal, walTail, pc>>
    BY <1>3 DEF Recover, walVars, threadVars
  <2>2. Readable = {}
    BY <1>1, <1>3 DEF ToSet
  <2>3. walTail = FALSE
    <3>1. walTail => Fragment \in Written \ {Blank}
      BY BatchesAssumption DEF Written
    <3>2. walTail => Chomped[Fragment] \in Readable
      BY <3>1 DEF Readable, Chomp
    <3> QED
      BY <1>0, <2>2, <3>2
  <2>4. LoggedRight' /\ LoadedRight' /\ StagedRight'
    BY <1>0, <1>2, <2>1, <2>2 DEF LoggedRight, LoadedRight, StagedRight
  <2> QED
    BY <1>2, <2>1, <2>2, <2>3, <2>4 DEF DInv
<1>4. CASE recover_from_wal # <<>>
  <2> DEFINE rec == recover_from_wal
  <2>1. wal' = Appended(rec) /\ walTail' = FALSE /\ pc' = [pc EXCEPT ![t] = "logged"]
        /\ lines' = [lines EXCEPT ![t] = rec]
    BY <1>4 DEF Recover
  <2>2. pc'[t] = "logged" /\ lines'[t] = rec /\ \A u \in Threads \ {t} : pc'[u] = "idle"
    BY <1>0, <2>1 DEF TypeOK
  <2>3. Readable \subseteq Readable'
    <3>1. Written \subseteq ToSet(Appended(rec))
      BY <1>0, <1>1, <1>4, Appends
    <3>2. Written \subseteq Written'
      BY <2>1, <3>1 DEF Written
    <3> QED
      BY <3>2 DEF Readable, Chomp
  <2>4. Chomp(Readable) = Readable
    <3>1. Written \subseteq LogLines
      BY <1>0, ElementOfSeq DEF Written, ToSet, LogLines
    <3>2. \A x \in Readable : Chomped[x] = x
      BY <3>1 DEF Readable, Chomp, OneAtATime
    <3> QED
      BY <3>2 DEF Chomp
  <2>5. Chomp(ToSet(rec)) = Readable
    BY <1>1, <2>4
  <2> HIDE DEF rec
  <2>6. LoggedRight'
    <3> SUFFICES ASSUME NEW u \in Threads, pc'[u] = "logged"
                 PROVE  /\ Uncommitted' \subseteq Chomp(ToSet(lines'[u]))
                        /\ Chomp(ToSet(lines'[u])) \subseteq Readable'
      BY DEF LoggedRight, Chomp
    <3> QED
      BY <1>2, <2>2, <2>3, <2>5
  <2>7. LoadedRight' /\ StagedRight'
    BY <1>0, <2>2 DEF LoadedRight, StagedRight
  <2> QED
    BY <1>2, <2>1, <2>3, <2>6, <2>7 DEF DInv
<1> QED
  BY <1>3, <1>4

\* Every step, a crash and a replay included, keeps the lines readable.
LEMMA DurableNext ==
    ASSUME OneAtATime
    PROVE  IInv /\ DInv /\ [Next]_vars => DInv'
<1> SUFFICES ASSUME IInv, DInv, [Next]_vars PROVE DInv'
  OBVIOUS
<1>1. Producers \subseteq Threads /\ Transcoders \subseteq Threads /\ Promoters \subseteq Threads
  BY DEF Threads
<1>2. ASSUME NEW t \in Threads, StageBatch(t) \/ Transcode(t) PROVE DInv'
  BY <1>2, DurableStage, DurableSwap, DurableTruncation DEF Transcode
<1>3. ASSUME Crash PROVE DInv'
  <2>1. Written \subseteq Written'
    BY <1>3 DEF Crash, walVars, Written
  <2> QED
    BY <1>3, <2>1, DurableCrash DEF Crash
<1>4. ASSUME NEW t \in Producers, NEW batch, NEW n \in 0..Len(batch) - 1, NEW torn \in BOOLEAN,
             CrashInAppend(t, batch, n, torn)
      PROVE  DInv'
  <2>1. Written \subseteq Written'
    BY <1>4, TornAppend
  <2> QED
    BY <1>4, <2>1, DurableCrash DEF CrashInAppend
<1>5. CASE UNCHANGED vars
  <2>1. UNCHANGED <<wal, walTail, rg, pc, lines, old_rg, restarted, unread, acked, committed, forsaken>>
    BY <1>5 DEF vars, walVars, threadVars, history
  <2>2. Uncommitted' = Uncommitted /\ Readable' = Readable /\ Excused' = Excused
    BY <2>1 DEF Uncommitted, Excused, Readable, Written, Chomp
  <2>3. LoggedRight' /\ LoadedRight' /\ StagedRight'
    BY <2>1, <2>2 DEF DInv, LoggedRight, LoadedRight, StagedRight, RawIn, Chomp
  <2> QED
    BY <2>1, <2>2, <2>3 DEF DInv
<1> QED
  BY <1>1, <1>2, <1>3, <1>4, <1>5, DurableAppend, DurableLoad, DurablePromotion, DurableReplay
     DEF Next

\* Nothing is acknowledged at the start.
LEMMA DurableInit == Init => DInv
<1> SUFFICES ASSUME Init PROVE DInv
  OBVIOUS
<1>1. Uncommitted = {} /\ \A t \in Threads : pc[t] = "idle"
  BY DEF Init, Uncommitted, Excused, Chomp
<1> QED
  BY <1>1 DEF Init, DInv, LoggedRight, LoadedRight, StagedRight

\* With one row group under way at a time, a line that append_raw_batch has
\* acknowledged is transcoded or can be read back by recover_from_wal, for any
\* threads and batches and however often the process crashes, in the middle
\* of an append or of a replay; but for what a process loses by starting on a
\* log without reading it, as StreamIngest and ag-lex do: the lines there when
\* it first transcodes, and its first line after an unfinished one.
THEOREM LogCorrect == OneAtATime => (Spec => []UncommittedDurable)
<1> SUFFICES ASSUME OneAtATime PROVE Spec => []UncommittedDurable
  OBVIOUS
<1>1. IInv /\ DInv /\ [Next]_vars => DInv'
  BY DurableNext
<1>2. Spec => [](IInv /\ DInv)
  BY <1>1, InitEstablishes, NextPreserves, DurableInit, PTL DEF Spec
<1>3. ASSUME IInv, DInv PROVE UncommittedDurable
  <2>1. ToSet(recover_from_wal) = Readable
    BY <1>3, Recovered DEF IInv, TypeOK, Readable
  <2> QED
    BY <1>3, <2>1 DEF UncommittedDurable, DInv, Uncommitted, Excused, Chomp
<1> QED
  BY <1>2, <1>3, PTL
-----------------------------------------------------------------------------
(* One transcoder and no promotion: the depth is exact.                     *)

\* Groups are rewritten by one transcoder only.
OneTranscoder == Promoters = {} /\ \A t, u \in Transcoders : t = u

\* What the transcoder has loaded is still in the cell.
Loaded ==
    \A t \in Threads :
        /\ pc[t] \in {"transcode", "drain"} => t \in Transcoders
        /\ pc[t] = "transcode" => IsRaw(at[t]) /\ rg[at[t]] = old_rg[t]

BacklogInv ==
    /\ Loaded /\ DepthExact
    /\ IsFiniteSet(RawLines(UncompactedCells, rg)) /\ IsFiniteSet(RawLines(Draining, old_rg))

\* Adding n before or after taking the remainder is the same.
LEMMA Remainders ==
    ASSUME NEW M \in Nat \ {0}, NEW b \in Int, NEW n \in Int
    PROVE  ((b % M) + n) % M = (b + n) % M
<1> DEFINE q == b \div M
           r == b % M
           k == (r + n) \div M
           s == (r + n) % M
           l == (b + n) \div M
           u == (b + n) % M
<1>1. /\ q \in Int /\ r \in 0..M - 1 /\ b = M * q + r
      /\ k \in Int /\ s \in 0..M - 1 /\ r + n = M * k + s
      /\ l \in Int /\ u \in 0..M - 1 /\ b + n = M * l + u
  OBVIOUS
<1> HIDE DEF q, r, k, s, l, u
<1>2. M * l + u = M * q + M * k + s /\ M * q \in Int /\ M * k \in Int /\ M * l \in Int
  BY <1>1
<1>3. M * (l - q - k) = M * l - M * q - M * k
  BY <1>1
<1> DEFINE d == l - q - k
<1>4. d \in Int /\ M * d = s - u
  BY <1>1, <1>2, <1>3
<1> HIDE DEF d
<1>5. M * d < M /\ M * d > 0 - M
  BY <1>1, <1>4
<1>6. ~(d >= 1) /\ ~(d <= -1)
  BY <1>4, <1>5
<1>7. s = u
  BY <1>1, <1>4, <1>6
<1> QED
  BY <1>7 DEF s, u, r

\* The lines of one more group.
LEMMA OneMoreGroup ==
    ASSUME NEW S, NEW f, NEW x, x \notin S, NEW n \in Nat, DOMAIN f[x].raw_chunk_buffer = 1..n,
           IsFiniteSet(RawLines(S, f))
    PROVE  /\ IsFiniteSet(RawLines(S \cup {x}, f))
           /\ Cardinality(RawLines(S \cup {x}, f)) = Cardinality(RawLines(S, f)) + n
<1> DEFINE A == RawLines(S, f)
           B == {x} \X (1..n)
<1>1. RawLines(S \cup {x}, f) = A \cup B
  BY DEF RawLines
<1>2. A \cap B = {}
  BY DEF RawLines
<1>3. IsFiniteSet(B) /\ Cardinality(B) = n
  <2>1. IsFiniteSet({x}) /\ Cardinality({x}) = 1
    BY FS_Singleton
  <2>2. IsFiniteSet(1..n) /\ Cardinality(1..n) = n
    BY FS_Interval
  <2>3. IsFiniteSet(B) /\ Cardinality(B) = Cardinality({x}) * Cardinality(1..n)
    BY ONLY <2>1, <2>2, FS_Product, Zenon DEF B
  <2> QED
    BY ONLY <2>1, <2>2, <2>3, n \in Nat
<1> HIDE DEF A, B
<1>4. IsFiniteSet(A \cup B) /\ Cardinality(A \cup B) = Cardinality(A) + n
  <2>1. IsFiniteSet(A) /\ Cardinality(A) \in Nat
    BY FS_CardinalityType DEF A
  <2>2. /\ IsFiniteSet(A \cup B)
        /\ Cardinality(A \cup B) = Cardinality(A) + Cardinality(B) - Cardinality(A \cap B)
    BY ONLY <1>3, <2>1, FS_Union, Zenon
  <2>3. Cardinality(A \cap B) = 0
    BY <1>2, FS_EmptySet
  <2> QED
    BY ONLY <1>3, <2>1, <2>2, <2>3, n \in Nat
<1> QED
  BY <1>1, <1>4 DEF A

\* The same groups have the same lines.
LEMMA SameGroups ==
    ASSUME NEW S, NEW f, NEW g, \A x \in S : f[x] = g[x]
    PROVE  RawLines(S, f) = RawLines(S, g)
BY DEF RawLines

\* The lines of a group are numbered from 1.
LEMMA Numbered ==
    ASSUME NEW g \in GroupSet
    PROVE  /\ g.raw_chunk_buffer \in Seq(LogLines) /\ Len(g.raw_chunk_buffer) \in Nat
           /\ DOMAIN g.raw_chunk_buffer = 1..Len(g.raw_chunk_buffer)
<1>1. g.raw_chunk_buffer \in Seq(LogLines)
  BY DEF GroupSet
<1> QED
  BY <1>1, LenProperties

\* A step that touches neither the cells nor the groups being subtracted.
LEMMA BacklogUntouched ==
    ASSUME BacklogInv, Loaded', UNCHANGED <<rg, active_buffer_depth>>, Draining' = Draining,
           \A t \in Draining : old_rg'[t] = old_rg[t]
    PROVE  BacklogInv'
<1>1. UncompactedCells' = UncompactedCells
  BY DEF UncompactedCells, IsRaw, IsNull
<1>2. RawLines(Draining, old_rg') = RawLines(Draining, old_rg)
  BY SameGroups
<1>3. /\ RawLines(UncompactedCells, rg)' = RawLines(UncompactedCells, rg)
      /\ RawLines(Draining, old_rg)' = RawLines(Draining, old_rg)
  BY <1>1, <1>2 DEF RawLines
<1> QED
  BY <1>3 DEF BacklogInv, DepthExact, Backlog

\* The backlog is a number, and so is what is left of it in a size_t.
LEMMA BacklogType ==
    ASSUME BacklogInv
    PROVE  /\ Cardinality(RawLines(UncompactedCells, rg)) \in Nat
           /\ Cardinality(RawLines(Draining, old_rg)) \in Nat
BY FS_CardinalityType DEF BacklogInv

\* append_wal_entry, of a new batch or of the replayed one.
LEMMA BacklogLogged ==
    ASSUME IInv, BacklogInv, NEW t \in Threads, pc[t] = "idle", NEW c \in Cells,
           pc' = [pc EXCEPT ![t] = "logged"], at' = [at EXCEPT ![t] = c],
           UNCHANGED <<rg, active_buffer_depth, old_rg>>
    PROVE  BacklogInv'
<1>1. /\ pc'[t] = "logged" /\ \A u \in Threads \ {t} : pc'[u] = pc[u] /\ at'[u] = at[u]
  BY DEF IInv, TypeOK
<1>2. Draining' = Draining
  BY <1>1 DEF Draining
<1>3. Loaded'
  BY <1>1 DEF BacklogInv, Loaded, IsRaw, IsNull
<1> QED
  BY <1>2, <1>3, BacklogUntouched

\* Staging adds the lines of the batch to both sides.
LEMMA BacklogStaged ==
    ASSUME IInv, BacklogInv, NEW t \in Threads, StageBatch(t)
    PROVE  BacklogInv'
<1> DEFINE c == at[t]
           n == Len(lines[t])
           R == Cardinality(RawLines(UncompactedCells, rg))
           D == Cardinality(RawLines(Draining, old_rg))
<1>0. /\ TypeOK /\ pc[t] = "logged" /\ c \in Cells /\ lines[t] \in Seq(LogLines) /\ n \in Nat
      /\ rg' = [rg EXCEPT ![c] = StagedGroup(lines[t])] /\ rg \in [Cells -> GroupSet \cup {NullPtr}]
      /\ UNCHANGED <<at, old_rg>> /\ pc' = [pc EXCEPT ![t] = "idle"]
      /\ active_buffer_depth' = (active_buffer_depth + n) % DepthModulus
  BY LenProperties DEF IInv, StageBatch, TypeOK, RaisedBy
<1>1. /\ StagedGroup(lines[t]) # NullPtr /\ StagedGroup(lines[t]).is_compacted = FALSE
      /\ DOMAIN StagedGroup(lines[t]).raw_chunk_buffer = 1..n
  BY <1>0, Groups, LenProperties
<1>2. ~IsRaw(c) /\ \A u \in Threads \ {t} : pc[u] # "idle" => at[u] # c
  BY <1>0 DEF IInv, Alone
<1>3. /\ rg'[c] = StagedGroup(lines[t]) /\ \A d \in Cells \ {c} : rg'[d] = rg[d]
      /\ pc'[t] = "idle" /\ \A u \in Threads \ {t} : pc'[u] = pc[u]
  BY <1>0 DEF TypeOK
<1>4. UncompactedCells' = UncompactedCells \cup {c} /\ c \notin UncompactedCells
  <2>1. \A d \in Cells : IsRaw(d)' <=> IsRaw(d) \/ d = c
    BY <1>1, <1>2, <1>3 DEF IsRaw, IsNull
  <2> QED
    BY <1>0, <1>2, <2>1 DEF UncompactedCells
<1>5. RawLines(UncompactedCells, rg') = RawLines(UncompactedCells, rg)
  <2>1. \A d \in UncompactedCells : rg'[d] = rg[d]
    BY <1>3, <1>4 DEF UncompactedCells
  <2> QED
    BY <2>1, SameGroups
<1>6. /\ IsFiniteSet(RawLines(UncompactedCells', rg'))
      /\ Cardinality(RawLines(UncompactedCells', rg')) = R + n
  <2>1. DOMAIN rg'[c].raw_chunk_buffer = 1..n
    BY <1>1, <1>3
  <2>2. IsFiniteSet(RawLines(UncompactedCells, rg'))
    BY <1>5 DEF BacklogInv
  <2>3. n \in Nat /\ c \notin UncompactedCells
    BY <1>0, <1>4
  <2> HIDE DEF c, n
  <2>4. /\ IsFiniteSet(RawLines(UncompactedCells \cup {c}, rg'))
        /\ Cardinality(RawLines(UncompactedCells \cup {c}, rg'))
             = Cardinality(RawLines(UncompactedCells, rg')) + n
    BY ONLY <2>1, <2>2, <2>3, OneMoreGroup
  <2> QED
    BY <1>4, <1>5, <2>4
<1>7. Draining' = Draining
  BY <1>0, <1>3 DEF Draining
<1>8. Loaded'
  <2> SUFFICES ASSUME NEW u \in Threads
               PROVE  /\ pc'[u] \in {"transcode", "drain"} => u \in Transcoders
                      /\ pc'[u] = "transcode" =>
                            rg'[at[u]] # NullPtr /\ ~rg'[at[u]].is_compacted /\ rg'[at[u]] = old_rg[u]
    BY <1>0 DEF Loaded, IsRaw, IsNull
  <2>1. pc'[u] \in {"transcode", "drain"} => u # t /\ pc'[u] = pc[u] /\ at[u] \in Cells \ {c}
    BY <1>0, <1>2, <1>3 DEF TypeOK
  <2> QED
    BY <1>3, <2>1 DEF BacklogInv, Loaded, IsRaw, IsNull
<1>9. DepthExact'
  <2>1. R \in Nat /\ D \in Nat /\ active_buffer_depth = (R + D) % DepthModulus
    BY BacklogType DEF BacklogInv, DepthExact, Backlog
  <2>2. Backlog' = R + n + D
    BY <1>0, <1>6, <1>7 DEF Backlog, RawLines
  <2> HIDE DEF R, D, n
  <2>3. active_buffer_depth' = ((R + D) + n) % DepthModulus
    <3> DEFINE b == R + D
    <3>1. b \in Int /\ n \in Int /\ DepthModulus \in Nat \ {0}
      BY <1>0, <2>1, BoundsAssumption
    <3>2. active_buffer_depth' = ((b % DepthModulus) + n) % DepthModulus
      BY <1>0, <2>1
    <3> HIDE DEF b
    <3>3. ((b % DepthModulus) + n) % DepthModulus = (b + n) % DepthModulus
      BY ONLY <3>1, Remainders
    <3> QED
      BY <3>2, <3>3 DEF b
  <2>4. (R + D) + n = R + n + D
    BY <1>0, <2>1
  <2> QED
    BY <2>2, <2>3, <2>4 DEF DepthExact
<1> QED
  BY <1>0, <1>6, <1>7, <1>8, <1>9 DEF BacklogInv, RawLines

\* The one transcoder takes what is in the cell.
LEMMA BacklogLoaded ==
    ASSUME IInv, BacklogInv, OneTranscoder, NEW t \in Transcoders, NEW c \in Cells,
           LoadForTranscode(t, c)
    PROVE  BacklogInv'
<1>0. TypeOK /\ t \in Threads /\ pc[t] = "idle" /\ IsRaw(c) /\ pc' = [pc EXCEPT ![t] = "transcode"]
      /\ at' = [at EXCEPT ![t] = c] /\ old_rg' = [old_rg EXCEPT ![t] = rg[c]]
      /\ UNCHANGED <<rg, active_buffer_depth>>
  BY DEF IInv, LoadForTranscode, HasWork, Threads
<1>1. /\ pc'[t] = "transcode" /\ at'[t] = c /\ old_rg'[t] = rg[c]
      /\ \A u \in Threads \ {t} : pc'[u] = pc[u] /\ at'[u] = at[u] /\ old_rg'[u] = old_rg[u]
  BY <1>0 DEF TypeOK
<1>2. Draining' = Draining /\ \A u \in Draining : old_rg'[u] = old_rg[u]
  BY <1>0, <1>1 DEF Draining
<1>3. Loaded'
  <2> SUFFICES ASSUME NEW u \in Threads
               PROVE  /\ pc'[u] \in {"transcode", "drain"} => u \in Transcoders
                      /\ pc'[u] = "transcode" =>
                            /\ rg[at'[u]] # NullPtr /\ ~rg[at'[u]].is_compacted
                            /\ rg[at'[u]] = old_rg'[u]
    BY <1>0 DEF Loaded, IsRaw, IsNull
  <2>1. CASE u = t
    BY <1>0, <1>1, <2>1 DEF IsRaw, IsNull
  <2>2. CASE u # t
    BY <1>1, <2>2 DEF BacklogInv, Loaded, IsRaw, IsNull
  <2> QED
    BY <2>1, <2>2
<1> QED
  BY <1>0, <1>2, <1>3, BacklogUntouched

\* A swap moves the lines of the group from the cells to what is subtracted.
LEMMA BacklogSwapped ==
    ASSUME IInv, BacklogInv, OneTranscoder, NEW t \in Threads, SwapTranscoded(t)
    PROVE  BacklogInv'
<1> DEFINE c == at[t]
           g == old_rg[t]
           n == Len(g.raw_chunk_buffer)
           U == UncompactedCells
           W == UncompactedCells \ {c}
<1>0. /\ TypeOK /\ pc[t] = "transcode" /\ c \in Cells
      /\ rg' = [rg EXCEPT ![c] = TranscodedGroup(g)] /\ rg \in [Cells -> GroupSet \cup {NullPtr}]
      /\ UNCHANGED <<at, old_rg, active_buffer_depth>> /\ pc' = [pc EXCEPT ![t] = "drain"]
  BY DEF IInv, SwapTranscoded, TypeOK
<1>1. t \in Transcoders /\ IsRaw(c) /\ rg[c] = g /\ g \in GroupSet
  BY <1>0 DEF BacklogInv, Loaded, IInv, InHand
<1>2. /\ TranscodedGroup(g).is_compacted = TRUE
      /\ n \in Nat /\ DOMAIN g.raw_chunk_buffer = 1..n
  BY <1>1, Groups, Numbered
<1>3. /\ rg'[c] = TranscodedGroup(g) /\ \A d \in Cells \ {c} : rg'[d] = rg[d]
      /\ pc'[t] = "drain" /\ \A u \in Threads \ {t} : pc'[u] = pc[u]
  BY <1>0 DEF TypeOK
<1>4. UncompactedCells' = W /\ c \in U /\ U = W \cup {c} /\ c \notin W
  <2>1. \A d \in Cells : IsRaw(d)' <=> IsRaw(d) /\ d # c
    BY <1>2, <1>3 DEF IsRaw, IsNull
  <2> QED
    BY <1>0, <1>1, <2>1 DEF UncompactedCells
<1>5. Draining' = Draining \cup {t} /\ t \notin Draining
  BY <1>0, <1>3 DEF Draining
<1>6. RawLines(W, rg') = RawLines(W, rg)
  <2>1. \A d \in W : rg'[d] = rg[d]
    BY <1>3 DEF UncompactedCells
  <2> QED
    BY <2>1, SameGroups
<1>7. IsFiniteSet(RawLines(W, rg)) /\ IsFiniteSet(RawLines(U, rg)) /\ IsFiniteSet(RawLines(Draining, old_rg))
  <2>1. RawLines(W, rg) \in SUBSET RawLines(U, rg)
    BY DEF RawLines
  <2> QED
    BY <2>1, FS_Subset DEF BacklogInv
<1>8. Cardinality(RawLines(U, rg)) = Cardinality(RawLines(W, rg)) + n
  <2> HIDE DEF c, g, n, U, W
  <2> QED
    BY ONLY <1>1, <1>2, <1>4, <1>7, OneMoreGroup
<1>9. /\ IsFiniteSet(RawLines(Draining \cup {t}, old_rg))
      /\ Cardinality(RawLines(Draining \cup {t}, old_rg)) = Cardinality(RawLines(Draining, old_rg)) + n
  <2> HIDE DEF n
  <2> QED
    BY ONLY <1>2, <1>5, <1>7, OneMoreGroup DEF g
<1>10. Loaded'
  <2> SUFFICES ASSUME NEW u \in Threads
               PROVE  /\ pc'[u] \in {"transcode", "drain"} => u \in Transcoders
                      /\ pc'[u] # "transcode"
    BY DEF Loaded
  <2>1. u # t => pc[u] # "transcode"
    BY <1>1 DEF BacklogInv, Loaded, OneTranscoder
  <2> QED
    BY <1>1, <1>3, <2>1 DEF BacklogInv, Loaded
<1>11. Backlog' = Backlog
  <2> DEFINE w == Cardinality(RawLines(W, rg))
             d == Cardinality(RawLines(Draining, old_rg))
  <2>1. w \in Nat /\ d \in Nat /\ n \in Nat
    BY <1>2, <1>7, FS_CardinalityType
  <2>2. Backlog = (w + n) + d
    BY <1>8 DEF Backlog
  <2>3. Backlog' = w + (d + n)
    BY <1>0, <1>4, <1>5, <1>6, <1>9 DEF Backlog, RawLines
  <2> HIDE DEF w, d, n
  <2> QED
    BY ONLY <2>1, <2>2, <2>3
<1>12. DepthExact'
  BY <1>0, <1>11 DEF BacklogInv, DepthExact
<1> QED
  BY <1>0, <1>4, <1>5, <1>6, <1>7, <1>9, <1>10, <1>12 DEF BacklogInv, RawLines

\* fetch_sub takes the lines of the transcoded group from both sides.
LEMMA BacklogDrained ==
    ASSUME IInv, BacklogInv, NEW t \in Threads, DrainDepth(t)
    PROVE  BacklogInv'
<1> DEFINE g == old_rg[t]
           n == Len(g.raw_chunk_buffer)
           W == Draining \ {t}
           r == Cardinality(RawLines(UncompactedCells, rg))
           w == Cardinality(RawLines(W, old_rg))
<1>0. /\ TypeOK /\ pc[t] = "drain" /\ active_buffer_depth' = (active_buffer_depth - n) % DepthModulus
      /\ UNCHANGED <<rg, at, old_rg>> /\ pc' = [pc EXCEPT ![t] = "truncate"]
  BY DEF IInv, DrainDepth, Lowered
<1>1. n \in Nat /\ DOMAIN g.raw_chunk_buffer = 1..n
  BY <1>0, Numbered DEF IInv, InHand
<1>2. pc'[t] = "truncate" /\ \A u \in Threads \ {t} : pc'[u] = pc[u]
  BY <1>0 DEF TypeOK
<1>3. Draining' = W /\ Draining = W \cup {t} /\ t \notin W
  BY <1>0, <1>2 DEF Draining
<1>4. IsFiniteSet(RawLines(W, old_rg)) /\ IsFiniteSet(RawLines(Draining, old_rg))
  <2>1. RawLines(W, old_rg) \in SUBSET RawLines(Draining, old_rg)
    BY DEF RawLines
  <2> QED
    BY <2>1, FS_Subset DEF BacklogInv
<1>5. Cardinality(RawLines(Draining, old_rg)) = w + n
  <2> HIDE DEF n, W
  <2> QED
    BY ONLY <1>1, <1>3, <1>4, OneMoreGroup DEF g, w
<1>6. r \in Nat /\ w \in Nat
  BY <1>4, BacklogType, FS_CardinalityType
<1>7. UncompactedCells' = UncompactedCells
  BY <1>0 DEF UncompactedCells, IsRaw, IsNull
<1>8. Backlog = r + (w + n) /\ Backlog' = r + w
  BY <1>0, <1>3, <1>5, <1>7 DEF Backlog, RawLines
<1>9. DepthExact'
  <2>1. active_buffer_depth = (r + (w + n)) % DepthModulus
    BY <1>8 DEF BacklogInv, DepthExact
  <2> HIDE DEF n, r, w
  <2> DEFINE b == r + (w + n)
             k == -n
  <2>2. b \in Int /\ k \in Int /\ b + k = r + w /\ DepthModulus \in Nat \ {0}
    BY <1>1, <1>6, BoundsAssumption
  <2>3. active_buffer_depth - n = (b % DepthModulus) + k
    <3>1. active_buffer_depth \in Int /\ active_buffer_depth = b % DepthModulus
      BY <1>0, <2>1, BoundsAssumption DEF TypeOK
    <3> QED
      BY ONLY <1>1, <3>1
  <2> HIDE DEF b, k
  <2>4. ((b % DepthModulus) + k) % DepthModulus = (b + k) % DepthModulus
    BY ONLY <2>2, Remainders
  <2> QED
    BY <1>0, <1>8, <2>2, <2>3, <2>4 DEF DepthExact
<1>10. Loaded'
  BY <1>0, <1>2 DEF BacklogInv, Loaded, IsRaw, IsNull
<1> QED
  BY <1>0, <1>3, <1>4, <1>7, <1>9, <1>10 DEF BacklogInv, RawLines

\* truncate_wal.
LEMMA BacklogTruncated ==
    ASSUME IInv, BacklogInv, NEW t \in Threads, TruncateWal(t)
    PROVE  BacklogInv'
<1>0. /\ TypeOK /\ pc[t] = "truncate" /\ UNCHANGED <<rg, at, old_rg, active_buffer_depth>>
      /\ pc' = [pc EXCEPT ![t] = "idle"]
  BY DEF IInv, TruncateWal
<1>1. pc'[t] = "idle" /\ \A u \in Threads \ {t} : pc'[u] = pc[u]
  BY <1>0 DEF TypeOK
<1>2. Draining' = Draining
  BY <1>0, <1>1 DEF Draining
<1>3. Loaded'
  BY <1>0, <1>1 DEF BacklogInv, Loaded, IsRaw, IsNull
<1> QED
  BY <1>0, <1>2, <1>3, BacklogUntouched

\* With nothing staged and nobody running there is no backlog.
LEMMA NoBacklog ==
    ASSUME \A c \in Cells : rg[c] = NullPtr, \A t \in Threads : pc[t] = "idle",
           active_buffer_depth = 0
    PROVE  BacklogInv
<1>1. UncompactedCells = {} /\ Draining = {}
  BY DEF UncompactedCells, Draining, IsRaw, IsNull
<1>2. RawLines(UncompactedCells, rg) = {} /\ RawLines(Draining, old_rg) = {}
  BY <1>1 DEF RawLines
<1>3. Backlog = 0
  BY <1>2, FS_EmptySet DEF Backlog
<1>4. DepthExact
  BY <1>3, BoundsAssumption DEF DepthExact
<1> QED
  BY <1>2, <1>4, FS_EmptySet DEF BacklogInv, Loaded

\* A crash leaves nothing staged.
LEMMA BacklogCrash ==
    ASSUME Restart
    PROVE  BacklogInv'
<1>0. (\A c \in Cells : rg'[c] = NullPtr) /\ (\A t \in Threads : pc'[t] = "idle")
      /\ active_buffer_depth' = 0
  BY DEF Restart
<1>1. UncompactedCells' = {} /\ Draining' = {}
  BY <1>0 DEF UncompactedCells, Draining, IsRaw, IsNull
<1>2. RawLines(UncompactedCells', rg') = {} /\ RawLines(Draining', old_rg') = {}
  BY <1>1 DEF RawLines
<1>3. Backlog' = 0
  <2>1. Backlog' = Cardinality(RawLines(UncompactedCells', rg')) + Cardinality(RawLines(Draining', old_rg'))
    BY DEF Backlog, RawLines
  <2> QED
    BY <1>2, <2>1, FS_EmptySet
<1>4. DepthExact'
  BY <1>0, <1>3, BoundsAssumption DEF DepthExact
<1> QED
  BY <1>0, <1>2, <1>4, FS_EmptySet DEF BacklogInv, Loaded, RawLines

\* The replay of the log begins with nothing staged.
LEMMA BacklogReplay ==
    ASSUME IInv, BacklogInv, NEW t \in Producers, NEW c \in Cells, Recover(t, c)
    PROVE  BacklogInv'
<1>0. t \in Threads /\ pc[t] = "idle" /\ UNCHANGED <<rg, active_buffer_depth>>
  BY DEF IInv, Recover, Threads, Quiet
<1>1. CASE recover_from_wal = <<>>
  <2>1. UNCHANGED <<pc, at, old_rg>>
    BY <1>1 DEF Recover, threadVars
  <2>2. Loaded' /\ Draining' = Draining
    BY <1>0, <2>1 DEF BacklogInv, Loaded, Draining, IsRaw, IsNull
  <2> QED
    BY <1>0, <2>1, <2>2, BacklogUntouched
<1>2. CASE recover_from_wal # <<>>
  <2>1. pc' = [pc EXCEPT ![t] = "logged"] /\ at' = [at EXCEPT ![t] = c] /\ UNCHANGED old_rg
    BY <1>2 DEF Recover
  <2> QED
    BY <1>0, <2>1, BacklogLogged
<1> QED
  BY <1>1, <1>2

\* Every step keeps counter and backlog together.
LEMMA BacklogNext ==
    ASSUME OneTranscoder
    PROVE  IInv /\ BacklogInv /\ [Next]_vars => BacklogInv'
<1> SUFFICES ASSUME IInv, BacklogInv, [Next]_vars PROVE BacklogInv'
  OBVIOUS
<1>1. Producers \subseteq Threads /\ Transcoders \subseteq Threads /\ Promoters = {}
  BY DEF Threads, OneTranscoder
<1>2. ASSUME NEW t \in Threads, StageBatch(t) \/ Transcode(t) PROVE BacklogInv'
  BY <1>2, BacklogStaged, BacklogSwapped, BacklogDrained, BacklogTruncated DEF Transcode
<1>3. ASSUME NEW t \in Producers, NEW batch \in Batches, NEW c \in Cells, AppendWal(t, batch, c)
      PROVE  BacklogInv'
  BY <1>1, <1>3, BacklogLogged DEF AppendWal
<1>4. ASSUME Crash PROVE BacklogInv'
  BY <1>4, BacklogCrash DEF Crash
<1>5. ASSUME NEW t \in Producers, NEW batch, NEW n \in 0..Len(batch) - 1, NEW torn \in BOOLEAN,
             CrashInAppend(t, batch, n, torn)
      PROVE  BacklogInv'
  BY <1>5, BacklogCrash DEF CrashInAppend
<1>6. CASE UNCHANGED vars
  <2>1. UNCHANGED <<rg, active_buffer_depth, pc, at, old_rg>>
    BY <1>6 DEF vars, threadVars
  <2>2. Loaded' /\ Draining' = Draining
    BY <2>1 DEF BacklogInv, Loaded, Draining, IsRaw, IsNull
  <2> QED
    BY <2>1, <2>2, BacklogUntouched
<1> QED
  BY <1>1, <1>2, <1>3, <1>4, <1>5, <1>6, BacklogLoaded, BacklogReplay DEF Next

\* With one transcoder and no promotion, active_buffer_depth is, modulo the
\* size of a size_t, the number of lines that are staged raw or swapped and
\* not yet subtracted: for any cells, producers and batches, and however
\* often the process crashes and replays its log.
THEOREM DepthCorrect == OneTranscoder => (Spec => []DepthExact)
<1> SUFFICES ASSUME OneTranscoder PROVE Spec => []DepthExact
  OBVIOUS
<1>1. IInv /\ BacklogInv /\ [Next]_vars => BacklogInv'
  BY BacklogNext
<1>2. Init => BacklogInv
  BY NoBacklog DEF Init
<1>3. Spec => [](IInv /\ BacklogInv)
  BY <1>1, <1>2, InitEstablishes, NextPreserves, PTL DEF Spec
<1>4. BacklogInv => DepthExact
  BY DEF BacklogInv
<1> QED
  BY <1>3, <1>4, PTL
=============================================================================
