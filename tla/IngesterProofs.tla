--------------------------- MODULE IngesterProofs ---------------------------
(***************************************************************************)
(* Proofs about the Ingester pipeline, for every block size, every queue   *)
(* capacity, every set of files and every query.                           *)
(***************************************************************************)
EXTENDS Ingester, FiniteSetTheorems, TLAPS

\* The rows among the first n extracted that the query selects.
RowHits(rows, s, l, n) == {i \in 1..n : Matches(rows[i], s, l)}

\* Where the two threads can be with respect to each other.
Control ==
    /\ "producer" \in asleep => ppc \in {"push", "pushFinal"}
    /\ "consumer" \in asleep => cpc = "wait"
    /\ ppc = "join" => ingest_complete_
    /\ ppc \notin {"join", "idle"} => ~ingest_complete_
    /\ ppc = "launch" => cpc = "none" /\ parsed = <<>> /\ executed = 0
    /\ ppc \in {"parse", "push", "pushFinal"} => cpc \in {"wait", "exec"}
    /\ ppc = "idle" => cpc \in {"none", "done"}
    /\ cpc \in {"none", "publish", "done"} => queue_size_ = 0
    /\ cpc \in {"publish", "done"} => ppc \in {"join", "idle"}
    /\ ppc \in {"signal", "join"} => (fault <=> cpc = "none")
    /\ cpc \in {"wait", "exec"} => ~fault
    /\ ppc = "launch" => ~fault

\* The block under construction: what it holds and where it starts.
Building ==
    /\ ppc \in {"launch", "parse"} =>
         /\ current_count < kBlockSize
         /\ current_chunk.first + current_count = Len(parsed)
         /\ \A r \in 0..current_count - 1 :
               current_chunk.rows[r] = parsed[current_chunk.first + r + 1]
    /\ ppc \in {"push", "pushFinal"} =>
         /\ Carries(current_chunk, parsed)
         /\ current_chunk.first + current_chunk.count = Len(parsed)
    /\ ppc \in {"signal", "join", "idle"} => current_chunk.first = Len(parsed)

\* The counts: rows evaluated, documents read, and what is published.
Counting ==
    ppc # "idle" =>
      /\ filepath_ \in Seq(Doc) /\ filepath_ # NoPath /\ filepath_ # Unreadable
      /\ docPos <= Len(filepath_)
      /\ ppc \in {"pushFinal", "signal", "join"} /\ ~fault => docPos = Len(filepath_)
      /\ executed <= Len(parsed)
      /\ processed_matches =
           Cardinality(RowHits(parsed, status_filter_, latency_filter_, executed))
      /\ Cardinality(RowHits(parsed, status_filter_, latency_filter_, Len(parsed))) =
           Cardinality(DocHits(filepath_, status_filter_, latency_filter_, docPos))
      /\ match_count_ = IF cpc = "done" THEN processed_matches ELSE 0

IInv ==
    /\ TypeOK
    /\ Control
    /\ RingCarriesEveryRow
    /\ NoLostWakeup
    /\ Building
    /\ Counting

-----------------------------------------------------------------------------
(* The operators the model is built from. *)

\* The ring index wraps exactly at the capacity.
LEMMA NextSlotStep ==
    ASSUME NEW i \in 0..kQueueCapacity - 1
    PROVE  NextSlot(i) = IF i + 1 = kQueueCapacity THEN 0 ELSE i + 1
<1>1. kQueueCapacity \in Nat \ {0}
  BY SizesAssumption
<1>2. CASE i + 1 = kQueueCapacity
  BY <1>1, <1>2, SMT DEF NextSlot
<1>3. CASE i + 1 < kQueueCapacity
  BY <1>1, <1>3, SMT DEF NextSlot
<1> QED
  BY <1>1, <1>2, <1>3

\* The count the filter returns for a block is a number.
LEMMA ExecuteNat ==
    ASSUME NEW c \in LogChunk
    PROVE  Execute(c) \in Nat
<1>1. c.count \in Nat
  BY SizesAssumption DEF LogChunk
<1>2. IsFiniteSet(0..c.count - 1)
  BY <1>1, FS_Interval
<1> QED
  BY <1>2, FS_Subset, FS_CardinalityType DEF Execute

\* A document that parsed yields a row of two unsigned numbers.
LEMMA RowOfType ==
    ASSUME NEW doc \in Doc, doc # Malformed
    PROVE  RowOf(doc) \in Row
  BY DEF Doc, FieldValue, RowOf, Uint64, Row

\* The initial block is a block.
LEMMA EmptyChunkType == EmptyChunk \in LogChunk
  BY SizesAssumption DEF EmptyChunk, LogChunk, ZeroRow, Row

-----------------------------------------------------------------------------
(* What the producer's steps do to the block under construction. *)

\* One parsed document adds one row, to the block and to the history alike.
LEMMA ParseFacts ==
    ASSUME IInv, ParseDoc
    PROVE  /\ parsed' \in Seq(Row)
           /\ Len(parsed') = Len(parsed) + 1
           /\ \A i \in 1..Len(parsed) : parsed'[i] = parsed[i]
           /\ parsed'[Len(parsed) + 1] = RowOf(filepath_[docPos + 1])
           /\ current_chunk' \in LogChunk
           /\ current_chunk'.first = current_chunk.first
           /\ current_chunk'.count = IF current_count + 1 = kBlockSize
                                       THEN kBlockSize ELSE current_chunk.count
           /\ current_count \in Nat /\ current_count < kBlockSize
           /\ current_chunk.first + current_count = Len(parsed)
           /\ \A r \in 0..current_count :
                 current_chunk'.rows[r] = parsed'[current_chunk.first + r + 1]
<1> DEFINE row == RowOf(filepath_[docPos + 1])
<1>1. row \in Row
  <2>1. /\ ppc = "parse" /\ docPos < Len(filepath_) /\ filepath_[docPos + 1] # Malformed
    BY DEF ParseDoc, Stream
  <2>2. filepath_ \in Seq(Doc) /\ docPos \in Nat
    BY <2>1 DEF IInv, TypeOK, Counting
  <2>3. filepath_[docPos + 1] \in Doc
    BY ONLY <2>1, <2>2
  <2> QED
    BY <2>1, <2>3, RowOfType
<1>2. /\ parsed \in Seq(Row) /\ current_chunk \in LogChunk
      /\ current_count \in Nat /\ current_count < kBlockSize
      /\ current_chunk.first + current_count = Len(parsed)
      /\ \A r \in 0..current_count - 1 :
            current_chunk.rows[r] = parsed[current_chunk.first + r + 1]
      /\ kBlockSize \in Nat
  BY SizesAssumption DEF ParseDoc, IInv, TypeOK, Building
<1>3. /\ parsed' = Append(parsed, row)
      /\ current_chunk' =
           [rows |-> [current_chunk.rows EXCEPT ![current_count] = row],
            count |-> IF current_count + 1 = kBlockSize THEN kBlockSize
                                                        ELSE current_chunk.count,
            first |-> current_chunk.first]
  BY DEF ParseDoc, Stream
<1> HIDE DEF row
<1>4. current_chunk.rows \in [0..kBlockSize - 1 -> Row] /\ current_chunk.first \in Nat
      /\ current_chunk.count \in 0..kBlockSize
  BY <1>2 DEF LogChunk
<1>5. /\ parsed' \in Seq(Row) /\ Len(parsed') = Len(parsed) + 1
      /\ \A i \in 1..Len(parsed) : parsed'[i] = parsed[i]
      /\ parsed'[Len(parsed) + 1] = row
  BY <1>1, <1>2, <1>3
<1>6. /\ current_chunk'.rows \in [0..kBlockSize - 1 -> Row]
      /\ current_chunk'.rows[current_count] = row
      /\ \A r \in 0..current_count - 1 : current_chunk'.rows[r] = current_chunk.rows[r]
  BY <1>1, <1>2, <1>3, <1>4
<1>7. current_chunk' \in LogChunk
  BY <1>2, <1>3, <1>4, <1>6 DEF LogChunk
<1>8. ASSUME NEW r \in 0..current_count
      PROVE  current_chunk'.rows[r] = parsed'[current_chunk.first + r + 1]
  <2>1. CASE r = current_count
    BY <1>2, <1>4, <1>5, <1>6, <2>1
  <2>2. CASE r < current_count
    <3>1. current_chunk.first + r + 1 \in 1..Len(parsed)
      BY <1>2, <1>4, <2>2
    <3> QED
      BY <1>2, <1>5, <1>6, <2>2, <3>1
  <2> QED
    BY <1>2, <2>1, <2>2
<1> QED
  BY <1>2, <1>3, <1>5, <1>7, <1>8 DEF row

\* Padding the last block changes no row it counts.
LEMMA PadFacts ==
    ASSUME IInv, EndOfStream, current_count > 0
    PROVE  /\ current_chunk' \in LogChunk
           /\ current_chunk'.first = current_chunk.first
           /\ current_chunk'.count = current_count
           /\ \A r \in 0..current_count - 1 : current_chunk'.rows[r] = current_chunk.rows[r]
<1>1. /\ current_chunk \in LogChunk /\ current_count \in 0..kBlockSize
      /\ kBlockSize \in Nat
  BY SizesAssumption DEF IInv, TypeOK
<1>2. current_chunk.rows \in [0..kBlockSize - 1 -> Row] /\ current_chunk.first \in Nat
  BY <1>1 DEF LogChunk
<1>3. current_chunk' =
         [rows |-> [r \in 0..kBlockSize - 1 |->
                       IF r < current_count THEN current_chunk.rows[r] ELSE ZeroRow],
          count |-> current_count, first |-> current_chunk.first]
  BY DEF EndOfStream
<1>4. ZeroRow \in Row
  BY DEF ZeroRow, Row
<1>5. current_chunk'.rows \in [0..kBlockSize - 1 -> Row]
  BY <1>1, <1>2, <1>3, <1>4
<1>6. \A r \in 0..current_count - 1 : current_chunk'.rows[r] = current_chunk.rows[r]
  BY <1>1, <1>3
<1> QED
  BY <1>1, <1>2, <1>3, <1>5, <1>6 DEF LogChunk

-----------------------------------------------------------------------------
(* Each part of the invariant is preserved. *)

\* Every action keeps the types.
LEMMA TypeStep ==
    ASSUME IInv, [Next]_vars
    PROVE  TypeOK'
<1> USE SizesAssumption DEF TypeOK, IInv, ringVars, producerVars, consumerVars, callVars,
        WakeConsumer, WakeProducer
<1>1. ASSUME NEW file \in Files, OpenFile(file) PROVE TypeOK'
  BY <1>1 DEF OpenFile
<1>2. CASE CloseFile
  BY <1>2 DEF CloseFile
<1>3. ASSUME NEW s \in StatusTargets, NEW l \in LatencyTargets, RunQueryRefused(s, l)
      PROVE TypeOK'
  BY <1>3, TargetsAssumption DEF RunQueryRefused, ResetQueue
<1>4. ASSUME NEW s \in StatusTargets, NEW l \in LatencyTargets, RunQueryStarts(s, l)
      PROVE TypeOK'
  BY <1>4, TargetsAssumption, EmptyChunkType DEF RunQueryStarts, ResetQueue
<1>5. CASE LaunchConsumer
  BY <1>5 DEF LaunchConsumer
<1>6. CASE LaunchFails
  BY <1>6 DEF LaunchFails
<1>7. CASE SkipDoc
  BY <1>7 DEF SkipDoc
<1>8. CASE ParseDoc
  <2>1. /\ parsed' \in Seq(Row) /\ current_chunk' \in LogChunk
        /\ current_count < kBlockSize
    BY <1>8, ParseFacts
  <2>2. /\ docPos' = docPos + 1 /\ current_count' = current_count + 1
        /\ ppc' \in {"push", "parse"}
        /\ UNCHANGED <<ringVars, consumerVars, callVars, asleep>>
    BY <1>8 DEF ParseDoc
  <2> QED
    BY <2>1, <2>2
<1>9. CASE ProducerSleeps
  BY <1>9 DEF ProducerSleeps
<1>10. CASE PushChunk
  <2>1. current_chunk' \in LogChunk
    BY <1>10 DEF PushChunk, LogChunk
  <2>2. head_' \in 0..kQueueCapacity - 1
    BY <1>10, NextSlotStep DEF PushChunk
  <2>3. /\ chunks_' \in [0..kQueueCapacity - 1 -> LogChunk]
        /\ queue_size_' \in 0..kQueueCapacity
    BY <1>10 DEF PushChunk, CanProduce
  <2>4. /\ ppc' \in {"parse", "signal"} /\ current_count' \in 0..kBlockSize
        /\ asleep' \subseteq {"producer", "consumer"}
        /\ UNCHANGED <<tail_, ingest_complete_, docPos, parsed, consumerVars, callVars>>
    BY <1>10 DEF PushChunk
  <2> QED
    BY <2>1, <2>2, <2>3, <2>4
<1>11. CASE EndOfStream
  <2>1. current_chunk' \in LogChunk
    BY <1>11, PadFacts DEF EndOfStream
  <2> QED
    BY <1>11, <2>1 DEF EndOfStream
<1>12. CASE SignalComplete
  BY <1>12 DEF SignalComplete
<1>13. CASE JoinAndReturn
  BY <1>13 DEF JoinAndReturn
<1>14. CASE ConsumerSleeps
  BY <1>14 DEF ConsumerSleeps
<1>15. CASE ConsumerBreaks
  BY <1>15 DEF ConsumerBreaks
<1>16. CASE PopChunk
  <2>1. tail_' \in 0..kQueueCapacity - 1
    BY <1>16, NextSlotStep DEF PopChunk
  <2> QED
    BY <1>16, <2>1 DEF PopChunk, CanConsume, Drained
<1>17. CASE ExecuteChunk
  <2>1. Execute(chunk) \in Nat
    BY ExecuteNat
  <2>2. chunk.count \in Nat
    BY DEF LogChunk
  <2> QED
    BY <1>17, <2>1, <2>2 DEF ExecuteChunk
<1>18. CASE Publish
  BY <1>18 DEF Publish
<1>19. ASSUME NEW t \in {"producer", "consumer"}, SpuriousWakeup(t) PROVE TypeOK'
  BY <1>19 DEF SpuriousWakeup
<1>20. CASE UNCHANGED vars
  BY <1>20 DEF vars
<1> QED
  BY <1>1, <1>2, <1>3, <1>4, <1>5, <1>6, <1>7, <1>8, <1>9, <1>10, <1>11, <1>12, <1>13,
     <1>14, <1>15, <1>16, <1>17, <1>18, <1>19, <1>20 DEF Next, Producer, Consumer

\* Every action keeps the correlation of the two program counters.
LEMMA ControlStep ==
    ASSUME IInv, [Next]_vars
    PROVE  Control'
<1> USE DEF TypeOK, IInv, Control, ringVars, producerVars, consumerVars, callVars,
        WakeConsumer, WakeProducer
<1>1. ASSUME NEW file \in Files, OpenFile(file) PROVE Control'
  BY <1>1 DEF OpenFile
<1>2. CASE CloseFile
  BY <1>2 DEF CloseFile
<1>3. ASSUME NEW s \in StatusTargets, NEW l \in LatencyTargets, RunQueryRefused(s, l)
      PROVE Control'
  BY <1>3 DEF RunQueryRefused, ResetQueue
<1>4. ASSUME NEW s \in StatusTargets, NEW l \in LatencyTargets, RunQueryStarts(s, l)
      PROVE Control'
  BY <1>4 DEF RunQueryStarts, ResetQueue
<1>5. CASE LaunchConsumer
  BY <1>5 DEF LaunchConsumer
<1>6. CASE LaunchFails
  BY <1>6 DEF LaunchFails
<1>7. CASE SkipDoc
  BY <1>7 DEF SkipDoc
<1>8. CASE ParseDoc
  BY <1>8 DEF ParseDoc
<1>9. CASE ProducerSleeps
  BY <1>9 DEF ProducerSleeps
<1>10. CASE PushChunk
  BY <1>10 DEF PushChunk
<1>11. CASE EndOfStream
  BY <1>11 DEF EndOfStream
<1>12. CASE SignalComplete
  BY <1>12 DEF SignalComplete
<1>13. CASE JoinAndReturn
  BY <1>13 DEF JoinAndReturn
<1>14. CASE ConsumerSleeps
  BY <1>14 DEF ConsumerSleeps
<1>15. CASE ConsumerBreaks
  BY <1>15 DEF ConsumerBreaks, Drained
<1>16. CASE PopChunk
  BY <1>16 DEF PopChunk
<1>17. CASE ExecuteChunk
  BY <1>17 DEF ExecuteChunk
<1>18. CASE Publish
  BY <1>18 DEF Publish
<1>19. ASSUME NEW t \in {"producer", "consumer"}, SpuriousWakeup(t) PROVE Control'
  BY <1>19 DEF SpuriousWakeup
<1>20. CASE UNCHANGED vars
  BY <1>20 DEF vars
<1> QED
  BY <1>1, <1>2, <1>3, <1>4, <1>5, <1>6, <1>7, <1>8, <1>9, <1>10, <1>11, <1>12, <1>13,
     <1>14, <1>15, <1>16, <1>17, <1>18, <1>19, <1>20 DEF Next, Producer, Consumer

\* Every action that makes a predicate true wakes the thread waiting for it.
LEMMA WakeStep ==
    ASSUME IInv, [Next]_vars
    PROVE  NoLostWakeup'
<1> USE SizesAssumption DEF TypeOK, IInv, NoLostWakeup, CanProduce, CanConsume, ringVars,
        producerVars, consumerVars, callVars, WakeConsumer, WakeProducer
<1>1. ASSUME NEW s \in StatusTargets, NEW l \in LatencyTargets,
             RunQueryRefused(s, l) \/ RunQueryStarts(s, l)
      PROVE  NoLostWakeup'
  BY <1>1 DEF RunQueryRefused, RunQueryStarts, ResetQueue, Control
<1>2. CASE PushChunk
  BY <1>2 DEF PushChunk
<1>3. CASE PopChunk
  BY <1>3 DEF PopChunk
<1>4. CASE SignalComplete
  BY <1>4 DEF SignalComplete
<1>5. CASE ProducerSleeps \/ ConsumerSleeps
  BY <1>5 DEF ProducerSleeps, ConsumerSleeps
<1>6. ASSUME NEW t \in {"producer", "consumer"}, SpuriousWakeup(t) PROVE NoLostWakeup'
  BY <1>6 DEF SpuriousWakeup
<1>7. CASE UNCHANGED <<ringVars, asleep>>
  BY <1>7
<1> QED
  BY <1>1, <1>2, <1>3, <1>4, <1>5, <1>6, <1>7
     DEF Next, Producer, Consumer, OpenFile, CloseFile, LaunchConsumer, LaunchFails,
         SkipDoc, ParseDoc, EndOfStream, JoinAndReturn, ConsumerBreaks, ExecuteChunk,
         Publish, vars

\* Every action keeps the block under construction in step with the rows read.
LEMMA BuildingStep ==
    ASSUME IInv, [Next]_vars
    PROVE  Building'
<1> USE SizesAssumption DEF TypeOK, IInv, Building, Carries, ringVars, producerVars,
        consumerVars, callVars
<1>1. ASSUME NEW s \in StatusTargets, NEW l \in LatencyTargets, RunQueryStarts(s, l)
      PROVE  Building'
  BY <1>1 DEF RunQueryStarts, ResetQueue, EmptyChunk
<1>2. CASE LaunchConsumer
  BY <1>2 DEF LaunchConsumer
<1>3. CASE LaunchFails
  <2>1. parsed = <<>> /\ current_count \in Nat /\ current_chunk.first \in Nat
    BY <1>3 DEF LaunchFails, Control, LogChunk
  <2> QED
    BY <1>3, <2>1 DEF LaunchFails
<1>4. CASE SkipDoc
  BY <1>4 DEF SkipDoc
<1>5. CASE ParseDoc
  <2>1. /\ ppc' = IF current_count + 1 = kBlockSize THEN "push" ELSE "parse"
        /\ current_count' = current_count + 1
    BY <1>5 DEF ParseDoc
  <2>2. /\ current_chunk'.first + current_count' = Len(parsed')
        /\ current_count' <= kBlockSize
        /\ \A r \in 0..current_count' - 1 :
              current_chunk'.rows[r] = parsed'[current_chunk'.first + r + 1]
    <3>1. current_count \in Nat /\ current_chunk.first \in Nat /\ Len(parsed) \in Nat
      BY DEF LogChunk
    <3>2. /\ current_chunk'.first = current_chunk.first
          /\ current_chunk.first + current_count = Len(parsed)
          /\ Len(parsed') = Len(parsed) + 1 /\ current_count < kBlockSize
          /\ \A r \in 0..current_count :
                current_chunk'.rows[r] = parsed'[current_chunk.first + r + 1]
      BY <1>5, ParseFacts
    <3>3. ASSUME NEW r \in 0..current_count' - 1
          PROVE  current_chunk'.rows[r] = parsed'[current_chunk'.first + r + 1]
      BY <2>1, <3>1, <3>2
    <3>4. kBlockSize \in Nat
      OBVIOUS
    <3> HIDE DEF TypeOK, IInv, Building, Carries
    <3> QED
      BY <2>1, <3>1, <3>2, <3>3, <3>4
  <2>3. current_count' = kBlockSize => current_chunk'.count = kBlockSize
    BY <1>5, <2>1, ParseFacts
  <2> QED
    BY <2>1, <2>2, <2>3
<1>6. CASE PushChunk
  BY <1>6 DEF PushChunk
<1>7. CASE EndOfStream
  <2>1. /\ ppc = "parse" /\ ppc' \in {"pushFinal", "signal"}
        /\ ppc' = "pushFinal" <=> current_count > 0
        /\ UNCHANGED <<parsed, current_count>>
    BY <1>7 DEF EndOfStream
  <2>2. CASE current_count > 0
    BY <1>7, <2>1, <2>2, PadFacts
  <2>3. CASE current_count = 0
    <3>1. UNCHANGED current_chunk
      BY <1>7, <2>3 DEF EndOfStream
    <3> QED
      BY <2>1, <2>3, <3>1 DEF LogChunk
  <2> QED
    BY <2>2, <2>3
<1>8. CASE SignalComplete
  BY <1>8 DEF SignalComplete
<1>9. CASE JoinAndReturn
  BY <1>9 DEF JoinAndReturn
<1>10. CASE UNCHANGED producerVars
  BY <1>10
<1> QED
  BY <1>1, <1>2, <1>3, <1>4, <1>5, <1>6, <1>7, <1>8, <1>9, <1>10
     DEF Next, Producer, Consumer, OpenFile, CloseFile, RunQueryRefused, ProducerSleeps,
         ConsumerSleeps, ConsumerBreaks, PopChunk, ExecuteChunk, Publish, SpuriousWakeup, vars

-----------------------------------------------------------------------------
(* The ring. *)

\* Where the ring's slots lie: inside the array, all different, and stepping
\* an index by NextSlot moves one place on.
LEMMA SlotFacts ==
    ASSUME NEW t \in 0..kQueueCapacity - 1
    PROVE  /\ \A j \in 0..kQueueCapacity : Slot(t, j) \in 0..kQueueCapacity - 1
           /\ \A j, k \in 0..kQueueCapacity - 1 : Slot(t, j) = Slot(t, k) => j = k
           /\ \A j \in 0..kQueueCapacity - 1 : NextSlot(Slot(t, j)) = Slot(t, j + 1)
           /\ \A j \in 0..kQueueCapacity - 1 : Slot(NextSlot(t), j) = Slot(t, j + 1)
           /\ Slot(t, 0) = t
<1>1. kQueueCapacity \in Nat \ {0}
  BY SizesAssumption
<1>2. \A j \in 0..kQueueCapacity : Slot(t, j) \in 0..kQueueCapacity - 1
  BY <1>1 DEF Slot
<1>3. \A j, k \in 0..kQueueCapacity - 1 : Slot(t, j) = Slot(t, k) => j = k
  BY <1>1 DEF Slot
<1>4. ASSUME NEW j \in 0..kQueueCapacity - 1
      PROVE  NextSlot(Slot(t, j)) = Slot(t, j + 1)
  <2>1. Slot(t, j) \in 0..kQueueCapacity - 1
    BY <1>1, <1>2
  <2>2. NextSlot(Slot(t, j)) = IF Slot(t, j) + 1 = kQueueCapacity THEN 0 ELSE Slot(t, j) + 1
    BY <2>1, NextSlotStep
  <2> QED
    BY <1>1, <2>2 DEF Slot
<1>5. \A j \in 0..kQueueCapacity - 1 : Slot(NextSlot(t), j) = Slot(t, j + 1)
  BY <1>1, NextSlotStep DEF Slot
<1> QED
  BY <1>1, <1>2, <1>3, <1>4, <1>5 DEF Slot

\* A push appends a block at the head and moves no other.
LEMMA PushKeepsRing ==
    ASSUME IInv, PushChunk
    PROVE  RingCarriesEveryRow'
<1> DEFINE q == queue_size_
<1>1. /\ tail_ \in 0..kQueueCapacity - 1 /\ q \in Nat /\ q < kQueueCapacity
      /\ kQueueCapacity \in Nat \ {0}
      /\ current_chunk \in LogChunk
      /\ chunks_ \in [0..kQueueCapacity - 1 -> LogChunk]
  BY SizesAssumption DEF IInv, TypeOK, PushChunk, CanProduce
<1>2. /\ chunks_' = [chunks_ EXCEPT ![head_] = current_chunk]
      /\ head_' = NextSlot(head_) /\ queue_size_' = q + 1
      /\ current_chunk'.first = Len(parsed)
      /\ UNCHANGED <<tail_, parsed, executed, cpc, chunk>>
  BY DEF PushChunk, consumerVars
<1>3. /\ Carries(current_chunk, parsed)
      /\ current_chunk.first + current_chunk.count = Len(parsed)
  BY DEF IInv, PushChunk, Building
<1>4. head_ = Slot(tail_, q)
  BY DEF IInv, RingCarriesEveryRow
<1>5. /\ chunks_'[Slot(tail_, q)] = current_chunk
      /\ \A j \in 0..q - 1 : chunks_'[Slot(tail_, j)] = chunks_[Slot(tail_, j)]
  <2>1. ASSUME NEW j \in 0..q - 1
        PROVE  Slot(tail_, j) # head_ /\ Slot(tail_, j) \in 0..kQueueCapacity - 1
    <3>1. /\ j \in 0..kQueueCapacity - 1 /\ q \in 0..kQueueCapacity - 1 /\ j # q
          /\ j \in 0..kQueueCapacity
      BY <1>1
    <3>2. Slot(tail_, j) = Slot(tail_, q) => j = q
      BY <1>1, <3>1, SlotFacts
    <3>3. Slot(tail_, j) \in 0..kQueueCapacity - 1
      BY <1>1, <3>1, SlotFacts
    <3> QED
      BY <1>4, <3>1, <3>2, <3>3
  <2>2. head_ \in 0..kQueueCapacity - 1
    BY <1>1, <1>4, SlotFacts
  <2>3. chunks_'[head_] = current_chunk
    BY <1>1, <1>2, <2>2
  <2>4. \A j \in 0..q - 1 : chunks_'[Slot(tail_, j)] = chunks_[Slot(tail_, j)]
    BY <1>1, <1>2, <2>1
  <2> QED
    BY <1>4, <2>3, <2>4
<1>6. head_' = Slot(tail_', queue_size_')
  BY <1>1, <1>2, <1>4, SlotFacts
<1>7. Taken' = Taken
  BY <1>2 DEF Taken
<1>8. ASSUME NEW j \in 0..queue_size_' - 1
      PROVE  /\ Carries(chunks_'[Slot(tail_', j)], parsed')
             /\ chunks_'[Slot(tail_', j)].first =
                   IF j = 0 THEN Taken'
                   ELSE chunks_'[Slot(tail_', j - 1)].first
                          + chunks_'[Slot(tail_', j - 1)].count
  <2>1. CASE j = q
    <3>1. current_chunk.first = IF q = 0 THEN Taken
                 ELSE chunks_[Slot(tail_, q - 1)].first + chunks_[Slot(tail_, q - 1)].count
      BY DEF IInv, RingCarriesEveryRow, Queued
    <3> QED
      BY <1>1, <1>2, <1>3, <1>5, <1>7, <2>1, <3>1
  <2>2. CASE j < q
    <3>1. /\ Carries(chunks_[Slot(tail_, j)], parsed)
          /\ chunks_[Slot(tail_, j)].first =
                IF j = 0 THEN Taken
                ELSE chunks_[Slot(tail_, j - 1)].first + chunks_[Slot(tail_, j - 1)].count
      BY <1>1, <1>2, <2>2 DEF IInv, RingCarriesEveryRow, Queued
    <3> QED
      BY <1>1, <1>2, <1>5, <1>7, <2>2, <3>1
  <2> QED
    BY <1>1, <1>2, <2>1, <2>2
<1>9. current_chunk'.first = chunks_'[Slot(tail_', q)].first + chunks_'[Slot(tail_', q)].count
  BY <1>2, <1>3, <1>5
<1>10. cpc' = "exec" => Carries(chunk', parsed') /\ chunk'.first = executed'
  BY <1>2 DEF IInv, RingCarriesEveryRow
<1>11. queue_size_' # 0 /\ queue_size_' - 1 = q
  BY <1>1, <1>2
<1> QED
  BY <1>6, <1>8, <1>9, <1>10, <1>11 DEF RingCarriesEveryRow, Queued

\* A pop takes the block at the tail, and the next one becomes the first.
LEMMA PopKeepsRing ==
    ASSUME IInv, PopChunk
    PROVE  RingCarriesEveryRow'
<1> DEFINE q == queue_size_
<1>1. /\ tail_ \in 0..kQueueCapacity - 1 /\ q \in 1..kQueueCapacity
      /\ kQueueCapacity \in Nat \ {0}
      /\ chunks_ \in [0..kQueueCapacity - 1 -> LogChunk]
  BY SizesAssumption DEF IInv, TypeOK, PopChunk, CanConsume, Drained
<1>2. /\ chunk' = chunks_[tail_] /\ tail_' = NextSlot(tail_)
      /\ queue_size_' = q - 1 /\ cpc = "wait" /\ cpc' = "exec"
      /\ UNCHANGED <<chunks_, head_, parsed, executed, current_chunk>>
  BY DEF PopChunk, producerVars
<1>3. \A j \in 0..kQueueCapacity - 1 : Slot(tail_', j) = Slot(tail_, j + 1)
  BY <1>1, <1>2, SlotFacts
<1>4. Slot(tail_, 0) = tail_
  BY <1>1, SlotFacts
<1>5. Taken = executed /\ Taken' = executed + chunk'.count
  BY <1>2 DEF Taken, IInv, TypeOK
<1>6. Carries(chunk', parsed') /\ chunk'.first = executed'
  BY <1>1, <1>2, <1>4, <1>5 DEF IInv, RingCarriesEveryRow, Queued
<1>7. ASSUME NEW j \in 0..queue_size_' - 1
      PROVE  /\ Carries(chunks_'[Slot(tail_', j)], parsed')
             /\ chunks_'[Slot(tail_', j)].first =
                   IF j = 0 THEN Taken'
                   ELSE chunks_'[Slot(tail_', j - 1)].first
                          + chunks_'[Slot(tail_', j - 1)].count
  <2>1. j + 1 \in 0..q - 1 /\ j \in 0..kQueueCapacity - 1 /\ j \in Nat
    BY <1>1, <1>2
  <2>2. /\ Carries(chunks_[Slot(tail_, j + 1)], parsed)
        /\ chunks_[Slot(tail_, j + 1)].first =
              chunks_[Slot(tail_, j)].first + chunks_[Slot(tail_, j)].count
    <3>1. (j + 1) - 1 = j /\ j + 1 # 0
      BY <2>1
    <3> QED
      BY <2>1, <3>1 DEF IInv, RingCarriesEveryRow, Queued
  <2>3. Slot(tail_', j) = Slot(tail_, j + 1)
    BY <1>3, <2>1
  <2>4. CASE j = 0
    BY <1>2, <1>4, <1>5, <1>6, <2>2, <2>3, <2>4
  <2>5. CASE j # 0
    <3>1. Slot(tail_', j - 1) = Slot(tail_, j)
      BY <1>1, <1>3, <2>1, <2>5
    <3> QED
      BY <1>2, <2>2, <2>3, <2>5, <3>1
  <2> QED
    BY <2>4, <2>5
<1>8. current_chunk'.first = IF queue_size_' = 0 THEN Taken'
        ELSE chunks_'[Slot(tail_', queue_size_' - 1)].first
               + chunks_'[Slot(tail_', queue_size_' - 1)].count
  <2>1. current_chunk.first = chunks_[Slot(tail_, q - 1)].first + chunks_[Slot(tail_, q - 1)].count
    BY <1>1 DEF IInv, RingCarriesEveryRow, Queued
  <2>2. CASE q = 1
    BY <1>2, <1>4, <1>5, <1>6, <2>1, <2>2
  <2>3. CASE q > 1
    <3>1. Slot(tail_', q - 2) = Slot(tail_, q - 1)
      BY <1>1, <1>3, <2>3
    <3> QED
      BY <1>1, <1>2, <2>1, <2>3, <3>1
  <2> QED
    BY <1>1, <2>2, <2>3
<1>9. head_' = Slot(tail_', queue_size_')
  <2>1. head_ = Slot(tail_, q)
    BY DEF IInv, RingCarriesEveryRow
  <2> QED
    BY <1>1, <1>2, <1>3, <2>1
<1> QED
  BY <1>6, <1>7, <1>8, <1>9 DEF RingCarriesEveryRow, Queued

\* Every action keeps the queued blocks in step with the rows extracted.
LEMMA RingStep ==
    ASSUME IInv, [Next]_vars
    PROVE  RingCarriesEveryRow'
<1>1. ASSUME NEW s \in StatusTargets, NEW l \in LatencyTargets,
             RunQueryRefused(s, l) \/ RunQueryStarts(s, l)
      PROVE  RingCarriesEveryRow'
  <2>1. /\ head_' = 0 /\ tail_' = 0 /\ queue_size_' = 0 /\ cpc' # "exec"
        /\ current_chunk'.first = executed'
    <3>1. CASE RunQueryRefused(s, l)
      <4>1. ppc = "idle" /\ queue_size_ = 0 /\ cpc \in {"none", "done"}
        BY <3>1 DEF IInv, Control, RunQueryRefused
      <4>2. current_chunk.first = executed
        BY <4>1 DEF IInv, RingCarriesEveryRow, Taken, TypeOK
      <4> QED
        BY <3>1, <4>1, <4>2 DEF RunQueryRefused, ResetQueue, producerVars
    <3>2. CASE RunQueryStarts(s, l)
      BY <3>2 DEF RunQueryStarts, ResetQueue, EmptyChunk
    <3> QED
      BY <1>1, <3>1, <3>2
  <2>2. executed' \in Nat
    BY TypeStep DEF TypeOK
  <2> QED
    <3>1. Taken' = executed'
      BY <2>1, <2>2 DEF Taken
    <3>2. head_' = Slot(tail_', queue_size_')
      <4>1. 0 < kQueueCapacity
        BY SizesAssumption
      <4>2. Slot(0, 0) = 0
        BY <4>1 DEF Slot
      <4> QED
        BY <2>1, <4>2
    <3>3. 0..queue_size_' - 1 = {}
      BY <2>1
    <3> QED
      BY <2>1, <3>1, <3>2, <3>3 DEF RingCarriesEveryRow
<1>2. CASE ParseDoc
  <2>1. /\ chunks_ \in [0..kQueueCapacity - 1 -> LogChunk]
        /\ tail_ \in 0..kQueueCapacity - 1 /\ queue_size_ \in 0..kQueueCapacity
        /\ kQueueCapacity \in Nat \ {0} /\ chunk \in LogChunk
    BY SizesAssumption DEF IInv, TypeOK
  <2>2. /\ current_chunk'.first = current_chunk.first
        /\ Len(parsed') = Len(parsed) + 1 /\ Len(parsed) \in Nat
        /\ \A i \in 1..Len(parsed) : parsed'[i] = parsed[i]
    BY <1>2, ParseFacts DEF IInv, TypeOK
  <2>3. UNCHANGED <<ringVars, consumerVars>>
    BY <1>2 DEF ParseDoc
  <2>4. ASSUME NEW c \in LogChunk, Carries(c, parsed) PROVE Carries(c, parsed')
    <3>1. c.first \in Nat /\ c.count \in Nat
      BY SizesAssumption DEF LogChunk
    <3>2. c.first + c.count <= Len(parsed)
      BY <2>4 DEF Carries
    <3>3. ASSUME NEW r \in 0..c.count - 1 PROVE c.rows[r] = parsed'[c.first + r + 1]
      <4>1. c.first + r + 1 \in 1..Len(parsed)
        BY <2>2, <3>1, <3>2
      <4> QED
        BY <2>2, <2>4, <4>1 DEF Carries
    <3>4. c.first + c.count <= Len(parsed')
      BY <2>2, <3>1, <3>2
    <3> QED
      BY ONLY <3>3, <3>4 DEF Carries
  <2>5. ASSUME NEW j \in 0..queue_size_ - 1 PROVE chunks_[Slot(tail_, j)] \in LogChunk
    <3>1. j \in 0..kQueueCapacity
      BY <2>1
    <3>2. Slot(tail_, j) \in 0..kQueueCapacity - 1
      BY <2>1, <3>1, SlotFacts
    <3> QED
      BY <2>1, <3>2
  <2>6. \A j \in 0..queue_size_ - 1 : Carries(chunks_[Slot(tail_, j)], parsed')
    BY <2>4, <2>5 DEF IInv, RingCarriesEveryRow, Queued
  <2>7. cpc = "exec" => Carries(chunk, parsed')
    BY <2>1, <2>4 DEF IInv, RingCarriesEveryRow
  <2> QED
    BY <2>2, <2>3, <2>6, <2>7
       DEF IInv, RingCarriesEveryRow, Queued, Taken, ringVars, consumerVars
<1>3. CASE PushChunk
  BY <1>3, PushKeepsRing
<1>4. CASE PopChunk
  BY <1>4, PopKeepsRing
<1>5. CASE ExecuteChunk
  <2>1. /\ executed' = executed + chunk.count /\ cpc = "exec" /\ cpc' = "wait"
        /\ UNCHANGED <<ringVars, producerVars, chunk>>
    BY <1>5 DEF ExecuteChunk
  <2>2. executed' \in Nat
    BY TypeStep DEF TypeOK
  <2>3. Taken' = Taken
    BY <2>1, <2>2 DEF Taken
  <2> QED
    BY <2>1, <2>3 DEF IInv, RingCarriesEveryRow, Queued, ringVars, producerVars
<1>6. CASE /\ UNCHANGED <<chunks_, head_, tail_, queue_size_, parsed, executed, chunk>>
           /\ current_chunk'.first = current_chunk.first
           /\ cpc' = "exec" <=> cpc = "exec"
  BY <1>6 DEF IInv, RingCarriesEveryRow, Queued, Taken
<1>7. CASE EndOfStream
  BY <1>6, <1>7, PadFacts DEF EndOfStream, ringVars, consumerVars, IInv, TypeOK
<1>8. CASE OpenFile(filepath_') \/ CloseFile \/ LaunchFails \/ SkipDoc \/ SignalComplete
           \/ JoinAndReturn \/ ProducerSleeps \/ ConsumerSleeps \/ UNCHANGED vars
  BY <1>6, <1>8 DEF OpenFile, CloseFile, LaunchFails, SkipDoc, SignalComplete, JoinAndReturn,
     ProducerSleeps, ConsumerSleeps, vars, ringVars, consumerVars, producerVars
<1>9. CASE LaunchConsumer \/ ConsumerBreaks \/ Publish
  BY <1>6, <1>9 DEF LaunchConsumer, ConsumerBreaks, Publish, ringVars, consumerVars,
     producerVars, IInv, Control
<1>10. CASE \E t \in {"producer", "consumer"} : SpuriousWakeup(t)
  BY <1>6, <1>10 DEF SpuriousWakeup, ringVars, consumerVars, producerVars
<1> QED
  BY <1>1, <1>2, <1>3, <1>4, <1>5, <1>7, <1>8, <1>9, <1>10
     DEF Next, Producer, Consumer, OpenFile

-----------------------------------------------------------------------------
(* The counts. *)

\* The selected rows among the first n extracted are finitely many.
LEMMA RowHitsFinite ==
    ASSUME NEW rows, NEW s, NEW l, NEW n \in Nat
    PROVE  /\ IsFiniteSet(RowHits(rows, s, l, n))
           /\ Cardinality(RowHits(rows, s, l, n)) \in Nat
<1>1. IsFiniteSet(1..n)
  BY FS_Interval
<1> QED
  BY <1>1, FS_Subset, FS_CardinalityType DEF RowHits

\* What the filter adds for a block is what the block's rows add to the
\* selected rows: the shift from block positions to row numbers is a bijection.
LEMMA ExecuteCounts ==
    ASSUME NEW c \in LogChunk, Carries(c, parsed)
    PROVE  Cardinality(RowHits(parsed, status_filter_, latency_filter_, c.first + c.count)) =
             Cardinality(RowHits(parsed, status_filter_, latency_filter_, c.first)) + Execute(c)
<1> DEFINE H(m) == RowHits(parsed, status_filter_, latency_filter_, m)
           n == c.first
           k == c.count
           S == {r \in 0..k - 1 : Matches(c.rows[r], status_filter_, latency_filter_)}
           T == {i \in n + 1..n + k : Matches(parsed[i], status_filter_, latency_filter_)}
           f == [r \in S |-> n + r + 1]
<1>1. n \in Nat /\ k \in Nat
  BY SizesAssumption DEF LogChunk
<1>2. \A r \in 0..k - 1 : c.rows[r] = parsed[n + r + 1]
  BY DEF Carries
<1>3. IsFiniteSet(S) /\ Cardinality(S) = Execute(c) /\ Execute(c) \in Nat
  <2>1. IsFiniteSet(0..k - 1)
    BY <1>1, FS_Interval
  <2> QED
    BY <2>1, FS_Subset, ExecuteNat DEF Execute
<1>4. ExistsBijection(S, T)
  <2>1. \A r \in S : n + r + 1 \in T
    BY <1>1, <1>2
  <2>2. \A i \in T : i - n - 1 \in S /\ n + (i - n - 1) + 1 = i
    <3>1. ASSUME NEW i \in T PROVE i - n - 1 \in S /\ n + (i - n - 1) + 1 = i
      <4>1. i - n - 1 \in 0..k - 1 /\ n + (i - n - 1) + 1 = i
        BY <1>1
      <4>2. c.rows[i - n - 1] = parsed[i]
        BY <1>2, <4>1
      <4> QED
        BY <4>1, <4>2
    <3> QED
      BY <3>1
  <2>3. \A r1, r2 \in S : n + r1 + 1 = n + r2 + 1 => r1 = r2
    BY <1>1
  <2> HIDE DEF S, T
  <2>4. f \in [S -> T] /\ \A r1, r2 \in S : f[r1] = f[r2] => r1 = r2
    BY <2>1, <2>3
  <2>5. \A i \in T : \E r \in S : f[r] = i
    BY <2>2
  <2>6. f \in Bijection(S, T)
    <3> HIDE DEF f
    <3> QED
      BY <2>4, <2>5 DEF Bijection, Injection, Surjection, IsInjective
  <2> QED
    BY <2>6 DEF ExistsBijection
<1>5. IsFiniteSet(T) /\ Cardinality(T) = Cardinality(S)
  BY <1>3, <1>4, FS_Bijection
<1>6. H(n + k) = H(n) \cup T
  BY <1>1 DEF RowHits
<1>7. H(n) \cap T = {}
  BY <1>1 DEF RowHits
<1>8. IsFiniteSet(H(n)) /\ Cardinality(H(n)) \in Nat
  BY <1>1, RowHitsFinite
<1> HIDE DEF S, T, H
<1>9. Cardinality(H(n) \cup T)
        = Cardinality(H(n)) + Cardinality(T) - Cardinality(H(n) \cap T)
  BY <1>5, <1>8, FS_Union
<1>10. Cardinality(H(n) \cap T) = 0
  BY <1>7, FS_EmptySet
<1>11. Cardinality(H(n + k)) = Cardinality(H(n)) + Execute(c) - 0
  BY <1>3, <1>5, <1>6, <1>9, <1>10
<1> QED
  BY <1>3, <1>8, <1>11 DEF H

\* Whether a parsed document is selected and whether its row is selected is
\* the same question, so both counts grow together.
LEMMA ParseCounts ==
    ASSUME NEW rows \in Seq(Row), NEW rows1 \in Seq(Row), NEW file \in Seq(Doc),
           NEW s, NEW l, NEW d \in Nat, d < Len(file), file[d + 1] # Malformed,
           Len(rows1) = Len(rows) + 1,
           \A i \in 1..Len(rows) : rows1[i] = rows[i],
           rows1[Len(rows) + 1] = RowOf(file[d + 1]),
           Cardinality(RowHits(rows, s, l, Len(rows))) = Cardinality(DocHits(file, s, l, d))
    PROVE  Cardinality(RowHits(rows1, s, l, Len(rows1))) =
             Cardinality(DocHits(file, s, l, d + 1))
<1> DEFINE R == RowHits(rows, s, l, Len(rows))
           D == DocHits(file, s, l, d)
           hit == Matches(RowOf(file[d + 1]), s, l)
<1>1. IsFiniteSet(R) /\ IsFiniteSet(D)
  <2>1. IsFiniteSet(1..d) /\ D \subseteq 1..d
    BY FS_Interval DEF DocHits
  <2> QED
    BY <2>1, FS_Subset, RowHitsFinite
<1>2. Len(rows) + 1 \notin R /\ d + 1 \notin D
  BY DEF RowHits, DocHits
<1>3. Cardinality(R \cup {Len(rows) + 1}) = Cardinality(R) + 1
  BY <1>1, <1>2, FS_AddElement
<1>4. Cardinality(D \cup {d + 1}) = Cardinality(D) + 1
  BY <1>1, <1>2, FS_AddElement
<1>5. RowHits(rows1, s, l, Len(rows1)) = IF hit THEN R \cup {Len(rows) + 1} ELSE R
  BY DEF RowHits
<1>6. DocHits(file, s, l, d + 1) = IF hit THEN D \cup {d + 1} ELSE D
  BY DEF DocHits
<1> HIDE DEF R, D, hit
<1> QED
  BY <1>3, <1>4, <1>5, <1>6 DEF R, D

\* Every action keeps the counts in step.
LEMMA CountingStep ==
    ASSUME IInv, [Next]_vars
    PROVE  Counting'
<1>1. ASSUME NEW s \in StatusTargets, NEW l \in LatencyTargets, RunQueryStarts(s, l)
      PROVE  Counting'
  <2>1. /\ filepath_' = filepath_ /\ filepath_ # NoPath /\ filepath_ # Unreadable
        /\ docPos' = 0 /\ executed' = 0 /\ parsed' = <<>> /\ processed_matches' = 0
        /\ match_count_' = 0 /\ cpc' = "none" /\ ppc' = "launch"
    BY <1>1 DEF RunQueryStarts, ResetQueue
  <2>2. filepath_ \in Seq(Doc)
    BY <2>1, FilesAssumption DEF IInv, TypeOK
  <2>3. /\ RowHits(parsed', status_filter_', latency_filter_', 0) = {}
        /\ DocHits(filepath_', status_filter_', latency_filter_', 0) = {}
    BY DEF RowHits, DocHits
  <2>4. /\ Len(parsed') = 0 /\ docPos' <= Len(filepath_')
        /\ filepath_' \in Seq(Doc) /\ executed' <= Len(parsed')
    BY <2>1, <2>2
  <2>5. /\ Cardinality(RowHits(parsed', status_filter_', latency_filter_', 0)) = 0
        /\ Cardinality(DocHits(filepath_', status_filter_', latency_filter_', 0)) = 0
    BY <2>3, FS_EmptySet
  <2> QED
    BY <2>1, <2>4, <2>5 DEF Counting
<1>2. CASE SkipDoc
  <2>1. /\ ppc = "parse" /\ ppc' = "parse" /\ docPos' = docPos + 1 /\ docPos < Len(filepath_)
        /\ filepath_[docPos + 1] = Malformed
        /\ UNCHANGED <<filepath_, status_filter_, latency_filter_, parsed, executed,
                       processed_matches, match_count_, cpc, fault>>
    BY <1>2 DEF SkipDoc, Stream, consumerVars, callVars
  <2>2. docPos \in Nat
    BY DEF IInv, TypeOK
  <2>3. DocHits(filepath_, status_filter_, latency_filter_, docPos + 1) =
          DocHits(filepath_, status_filter_, latency_filter_, docPos)
    BY <2>1, <2>2 DEF DocHits
  <2>4. filepath_ \in Seq(Doc) /\ docPos' <= Len(filepath_)
    BY <2>1, <2>2 DEF IInv, Counting
  <2> QED
    BY <2>1, <2>3, <2>4 DEF IInv, Counting
<1>3. CASE ParseDoc
  <2>1. /\ ppc = "parse" /\ ppc' \in {"parse", "push"} /\ docPos' = docPos + 1
        /\ docPos < Len(filepath_) /\ filepath_[docPos + 1] # Malformed
        /\ UNCHANGED <<filepath_, status_filter_, latency_filter_, executed,
                       processed_matches, match_count_, cpc, fault>>
    BY <1>3 DEF ParseDoc, Stream, consumerVars, callVars
  <2>2. /\ docPos \in Nat /\ parsed \in Seq(Row) /\ executed \in Nat
        /\ filepath_ \in Seq(Doc) /\ executed <= Len(parsed)
    BY <2>1 DEF IInv, TypeOK, Counting
  <2>3. /\ parsed' \in Seq(Row) /\ Len(parsed') = Len(parsed) + 1
        /\ \A i \in 1..Len(parsed) : parsed'[i] = parsed[i]
        /\ parsed'[Len(parsed) + 1] = RowOf(filepath_[docPos + 1])
    BY <1>3, ParseFacts
  <2>4. RowHits(parsed', status_filter_, latency_filter_, executed) =
          RowHits(parsed, status_filter_, latency_filter_, executed)
    BY <2>2, <2>3 DEF RowHits
  <2>5. Cardinality(RowHits(parsed, status_filter_, latency_filter_, Len(parsed))) =
          Cardinality(DocHits(filepath_, status_filter_, latency_filter_, docPos))
    BY <2>1 DEF IInv, Counting
  <2>6. Cardinality(RowHits(parsed', status_filter_, latency_filter_, Len(parsed'))) =
          Cardinality(DocHits(filepath_, status_filter_, latency_filter_, docPos + 1))
    <3>1. parsed \in Seq(Row) /\ filepath_ \in Seq(Doc) /\ docPos \in Nat
      BY <2>2
    <3>2. docPos < Len(filepath_) /\ filepath_[docPos + 1] # Malformed
      BY <2>1
    <3> QED
      BY ONLY <2>3, <2>5, <3>1, <3>2, ParseCounts
  <2>7. executed' <= Len(parsed') /\ docPos' <= Len(filepath_')
    BY <2>1, <2>2, <2>3
  <2> QED
    BY <2>1, <2>2, <2>4, <2>6, <2>7 DEF IInv, Counting
<1>4. CASE ExecuteChunk
  <2>1. /\ processed_matches' = processed_matches + Execute(chunk)
        /\ executed' = executed + chunk.count /\ cpc = "exec" /\ cpc' = "wait"
        /\ UNCHANGED <<filepath_, status_filter_, latency_filter_, parsed, match_count_,
                       ppc, docPos, fault>>
    BY <1>4 DEF ExecuteChunk, producerVars, callVars
  <2>2. chunk \in LogChunk /\ Carries(chunk, parsed) /\ chunk.first = executed
    BY <2>1 DEF IInv, TypeOK, RingCarriesEveryRow
  <2>3. Cardinality(RowHits(parsed, status_filter_, latency_filter_, executed + chunk.count)) =
          Cardinality(RowHits(parsed, status_filter_, latency_filter_, executed)) + Execute(chunk)
    BY <2>2, ExecuteCounts
  <2>4. executed' <= Len(parsed')
    BY <2>1, <2>2 DEF Carries
  <2> QED
    BY <2>1, <2>3, <2>4 DEF IInv, Counting
<1>5. CASE Publish
  <2>1. /\ match_count_' = match_count_ + processed_matches /\ cpc = "publish"
        /\ cpc' = "done"
        /\ UNCHANGED <<filepath_, status_filter_, latency_filter_, parsed, executed,
                       processed_matches, ppc, docPos, fault>>
    BY <1>5 DEF Publish, producerVars, callVars
  <2>2. ppc # "idle" => match_count_' = processed_matches
    BY <2>1 DEF IInv, TypeOK, Counting
  <2> QED
    BY <2>1, <2>2 DEF IInv, Counting
<1>6. CASE ppc' = "idle"
  BY <1>6 DEF Counting
<1>7. CASE /\ ppc # "idle" /\ (cpc' = "done" <=> cpc = "done")
           /\ UNCHANGED <<filepath_, status_filter_, latency_filter_, parsed, executed,
                          processed_matches, match_count_, docPos>>
           /\ ppc' \in {"pushFinal", "signal", "join"} /\ ~fault' => docPos = Len(filepath_)
  BY <1>7 DEF IInv, Counting
<1>8. CASE OpenFile(filepath_') \/ CloseFile \/ JoinAndReturn
  BY <1>6, <1>8 DEF OpenFile, CloseFile, JoinAndReturn, producerVars
<1>9. ASSUME NEW s \in StatusTargets, NEW l \in LatencyTargets, RunQueryRefused(s, l)
      PROVE  Counting'
  BY <1>6, <1>9 DEF RunQueryRefused, producerVars
<1>10. CASE LaunchConsumer \/ LaunchFails
  BY <1>7, <1>10 DEF LaunchConsumer, LaunchFails, consumerVars, producerVars, callVars,
     IInv, Control
<1>11. CASE PushChunk \/ SignalComplete \/ EndOfStream
  BY <1>7, <1>11 DEF PushChunk, SignalComplete, EndOfStream, Stream, consumerVars,
     producerVars, callVars, IInv, Counting
<1>12. CASE \/ ProducerSleeps \/ ConsumerSleeps \/ UNCHANGED vars
            \/ \E t \in {"producer", "consumer"} : SpuriousWakeup(t)
  <2>1. UNCHANGED <<producerVars, consumerVars, callVars>>
    BY <1>12 DEF ProducerSleeps, ConsumerSleeps, SpuriousWakeup, vars
  <2> QED
    BY <2>1 DEF producerVars, consumerVars, callVars, IInv, Counting
<1>13. CASE ConsumerBreaks \/ PopChunk
  <2>1. ppc # "idle"
    BY <1>13 DEF ConsumerBreaks, PopChunk, IInv, Control
  <2> QED
    BY <1>7, <1>13, <2>1 DEF ConsumerBreaks, PopChunk, producerVars, callVars, IInv, Counting
<1> QED
  BY <1>1, <1>2, <1>3, <1>4, <1>5, <1>8, <1>9, <1>10, <1>11, <1>12, <1>13
     DEF Next, Producer, Consumer, OpenFile

-----------------------------------------------------------------------------
(* The theorems. *)

\* The invariant holds initially.
LEMMA InitIInv == Init => IInv
<1> SUFFICES ASSUME Init PROVE IInv
  OBVIOUS
<1>1. TypeOK
  <2>1. 0 \in 0..kQueueCapacity - 1 /\ 0 \in 0..kQueueCapacity /\ 0 \in 0..kBlockSize
    BY SizesAssumption
  <2>2. chunks_ \in [0..kQueueCapacity - 1 -> LogChunk]
    BY EmptyChunkType DEF Init
  <2>3. current_chunk \in LogChunk /\ chunk \in LogChunk
    BY EmptyChunkType DEF Init
  <2>4. parsed \in Seq(Row)
    BY DEF Init
  <2> QED
    BY <2>1, <2>2, <2>3, <2>4 DEF Init, TypeOK
<1>2. Control /\ NoLostWakeup
  BY DEF Init, Control, NoLostWakeup
<1>3. RingCarriesEveryRow
  <2>1. Slot(0, 0) = 0
    BY SizesAssumption DEF Slot
  <2>2. 0..queue_size_ - 1 = {}
    BY DEF Init
  <2> QED
    BY <2>1, <2>2 DEF Init, RingCarriesEveryRow, Taken, EmptyChunk
<1>4. Building
  BY DEF Init, Building, EmptyChunk
<1>5. Counting
  BY DEF Init, Counting
<1> QED
  BY <1>1, <1>2, <1>3, <1>4, <1>5 DEF IInv

\* Every reachable state of the pipeline satisfies the inductive invariant.
THEOREM Inductive == Spec => []IInv
<1>1. IInv /\ [Next]_vars => IInv'
  BY TypeStep, ControlStep, RingStep, WakeStep, BuildingStep, CountingStep DEF IInv
<1> QED
  BY <1>1, InitIInv, PTL DEF Spec

\* The pipeline's variables keep their types: in particular the ring indices
\* stay inside the array and queue_size_ never passes kQueueCapacity.
THEOREM TypeCorrect == Spec => []TypeOK
<1>1. IInv => TypeOK
  BY DEF IInv
<1> QED
  BY <1>1, Inductive, PTL

\* No block is lost, overwritten, duplicated or reordered in the ring between
\* the producer's push and the consumer's pop.
THEOREM RingCorrect == Spec => []RingCarriesEveryRow
<1>1. IInv => RingCarriesEveryRow
  BY DEF IInv
<1> QED
  BY <1>1, Inductive, PTL

\* Neither thread sleeps on its condition variable while its predicate holds.
THEOREM WakeupsCorrect == Spec => []NoLostWakeup
<1>1. IInv => NoLostWakeup
  BY DEF IInv
<1> QED
  BY <1>1, Inductive, PTL

\* The consumer leaves its loop only after evaluating every extracted row.
THEOREM ConsumerCorrect == Spec => []ConsumerFinishesLast
<1>1. ASSUME IInv PROVE ConsumerFinishesLast
  <2>1. CASE cpc \in {"publish", "done"}
    <3>1. ppc \in {"join", "idle"} /\ queue_size_ = 0
      BY <1>1, <2>1 DEF IInv, Control
    <3>2. current_chunk.first = executed /\ current_chunk.first = Len(parsed)
      BY <1>1, <2>1, <3>1 DEF IInv, RingCarriesEveryRow, Taken, Building
    <3> QED
      BY <3>1, <3>2 DEF ConsumerFinishesLast
  <2> QED
    BY <2>1 DEF ConsumerFinishesLast
<1> QED
  BY <1>1, Inductive, PTL

\* What the consumer publishes is the exact number of matching documents.
LEMMA PublishedCount ==
    ASSUME IInv, ppc = "join", cpc = "done"
    PROVE  match_count_ = HitCount(filepath_, status_filter_, latency_filter_) /\ ~fault
<1>1. ~fault /\ docPos = Len(filepath_)
  BY DEF IInv, Control, Counting
<1>2. executed = Len(parsed)
  BY DEF IInv, Control, RingCarriesEveryRow, Taken, Building
<1> QED
  BY <1>1, <1>2 DEF IInv, Counting, HitCount

\* run_query's count is exact whenever the consumer thread has finished.
THEOREM CountCorrect == Spec => []CountIsExact
<1>1. IInv => CountIsExact
  BY PublishedCount DEF CountIsExact
<1> QED
  BY <1>1, Inductive, PTL

\* The threaded pipeline implements the abstract scan: every value run_query
\* returns is the one the specification with no threads allows.
THEOREM Refinement == Spec => ImplementsScan
<1>1. Init => Scan!Init
  BY DEF Init, Scan!Init
<1>2. ASSUME IInv, [Next]_vars PROVE [Scan!Next]_(Scan!vars)
  <2> USE DEF ringVars, producerVars, consumerVars, callVars
  <2>1. ASSUME NEW file \in Files, OpenFile(file) PROVE Scan!Next
    BY <2>1 DEF OpenFile, Scan!Next, Scan!SetPath
  <2>2. CASE CloseFile
    BY <2>2 DEF CloseFile, Scan!Next, Scan!SetPath
  <2>3. ASSUME NEW s \in StatusTargets, NEW l \in LatencyTargets, RunQueryRefused(s, l)
        PROVE  Scan!Next
    BY <2>3 DEF RunQueryRefused, Scan!Next, Scan!Refuse
  <2>4. ASSUME NEW s \in StatusTargets, NEW l \in LatencyTargets, RunQueryStarts(s, l)
        PROVE  Scan!Next
    BY <2>4 DEF RunQueryStarts, Scan!Next, Scan!Ask
  <2>5. CASE LaunchFails
    BY <2>5 DEF LaunchFails, Scan!Next, Scan!Fail
  <2>6. CASE JoinAndReturn
    <3>1. /\ ppc = "join" /\ ppc' = "idle" /\ result' = match_count_
          /\ cpc \in {"none", "done"}
          /\ UNCHANGED <<filepath_, status_filter_, latency_filter_, fault>>
      BY <2>6 DEF JoinAndReturn
    <3>2. match_count_ = IF fault THEN 0
                         ELSE HitCount(filepath_, status_filter_, latency_filter_)
      BY <1>2, <3>1, PublishedCount DEF IInv, Control, Counting, TypeOK
    <3> DEFINE pend == IF ppc = "idle" THEN <<>> ELSE <<status_filter_, latency_filter_>>
    <3>3. /\ pend = <<status_filter_, latency_filter_>> /\ pend # <<>>
          /\ pend[1] = status_filter_ /\ pend[2] = latency_filter_
          /\ pend' = <<>>
      BY <3>1
    <3>4. Scan!Answer
      <4> HIDE DEF pend
      <4>1. /\ pend # <<>> /\ pend' = <<>> /\ UNCHANGED <<filepath_, fault>>
            /\ result' = IF fault THEN 0 ELSE HitCount(filepath_, pend[1], pend[2])
        BY <3>1, <3>2, <3>3
      <4> QED
        BY <4>1 DEF Scan!Answer, pend
    <3> QED
      BY <3>4 DEF Scan!Next
  <2>7. CASE /\ UNCHANGED callVars
             /\ ppc' = "idle" <=> ppc = "idle"
    BY <2>7 DEF Scan!vars
  <2>8. CASE \/ LaunchConsumer \/ SkipDoc \/ ParseDoc \/ ProducerSleeps \/ PushChunk
             \/ EndOfStream \/ SignalComplete
    BY <2>7, <2>8 DEF LaunchConsumer, SkipDoc, ParseDoc, ProducerSleeps, PushChunk,
       EndOfStream, SignalComplete
  <2>9. CASE Consumer \/ UNCHANGED vars \/ \E t \in {"producer", "consumer"} : SpuriousWakeup(t)
    BY <2>7, <2>9 DEF Consumer, ConsumerSleeps, ConsumerBreaks, PopChunk, ExecuteChunk,
       Publish, SpuriousWakeup, vars
  <2> QED
    BY <1>2, <2>1, <2>2, <2>3, <2>4, <2>5, <2>6, <2>8, <2>9 DEF Next, Producer
<1> QED
  BY <1>1, <1>2, Inductive, PTL DEF Spec, ImplementsScan, Scan!Spec
=============================================================================
