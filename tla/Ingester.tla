------------------------------ MODULE Ingester ------------------------------
(***************************************************************************)
(* eureka::lex::Ingester: the streaming scan pipeline.  The thread that    *)
(* calls run_query is the producer: it parses documents, packs their       *)
(* fields into blocks of kBlockSize rows and pushes the blocks into a ring *)
(* of kQueueCapacity slots.  The consumer thread it launches pops blocks,  *)
(* runs the compiled filter and adds its count to match_count_ once, when  *)
(* the ring is empty and the producer has signalled completion.            *)
(*                                                                         *)
(* Ring, indices, size and completion flag are only touched with           *)
(* queue_mutex_ held, so each critical section is one action; a thread     *)
(* that waits on its condition variable is in `asleep' until a notify or a *)
(* spurious wakeup lets it test its predicate again.                       *)
(***************************************************************************)
EXTENDS LogScan

CONSTANTS
    kBlockSize,
    kQueueCapacity,
    NoPath           \* the empty filepath_

ASSUME SizesAssumption == kBlockSize \in Nat \ {0} /\ kQueueCapacity \in Nat \ {0}

VARIABLES
    filepath_,
    status_filter_, latency_filter_,
    chunks_, head_, tail_, queue_size_, ingest_complete_, match_count_,
    ppc,                          \* where run_query is
    docPos,                       \* documents taken from the stream
    current_chunk, current_count,
    cpc,                          \* where processing_worker_loop is
    chunk, processed_matches,
    asleep,                       \* threads blocked in a condition variable
    result,                       \* what the last run_query returned
    fault,                        \* the consumer thread could not be created
    parsed, executed              \* history: rows extracted, rows evaluated

ringVars == <<chunks_, head_, tail_, queue_size_, ingest_complete_>>
producerVars == <<ppc, docPos, current_chunk, current_count, parsed>>
consumerVars == <<cpc, chunk, processed_matches, match_count_, executed>>
callVars == <<filepath_, status_filter_, latency_filter_, result, fault>>
vars == <<ringVars, producerVars, consumerVars, callVars, asleep>>

-----------------------------------------------------------------------------
\* LogChunk.  `first' is history: how many rows precede row 0 of the block.
LogChunk == [rows : [0..kBlockSize - 1 -> Row], count : 0..kBlockSize, first : Nat]

ZeroRow == [status |-> 0, latency |-> 0]

EmptyChunk == [rows |-> [r \in 0..kBlockSize - 1 |-> ZeroRow], count |-> 0, first |-> 0]

NextSlot(i) == (i + 1) % kQueueCapacity

\* Mutant: the producer's predicate lets one block too many in.
CanProduceOffByOne == queue_size_ <= kQueueCapacity

\* The predicates of the two condition variables.
CanProduce == queue_size_ < kQueueCapacity
CanConsume == queue_size_ > 0 \/ ingest_complete_

\* Mutant: the consumer leaves as soon as completion is signalled.
DrainedOnComplete == ingest_complete_

Drained == queue_size_ = 0 /\ ingest_complete_

\* Mutant: a notify that is forgotten.
WakeNobody == asleep

\* notify_one on cv_can_produce_ / cv_can_consume_: one thread uses each.
WakeProducer == asleep \ {"producer"}
WakeConsumer == asleep \ {"consumer"}

\* The count engine.execute returns for the first c.count rows of a block.
Execute(c) ==
    Cardinality({r \in 0..c.count - 1 : Matches(c.rows[r], status_filter_, latency_filter_)})

Stream == filepath_

-----------------------------------------------------------------------------
Init ==
    /\ filepath_ = NoPath
    /\ status_filter_ = 0 /\ latency_filter_ = 0
    /\ chunks_ = [i \in 0..kQueueCapacity - 1 |-> EmptyChunk]
    /\ head_ = 0 /\ tail_ = 0 /\ queue_size_ = 0
    /\ ingest_complete_ = FALSE
    /\ match_count_ = 0
    /\ ppc = "idle" /\ docPos = 0
    /\ current_chunk = EmptyChunk /\ current_count = 0
    /\ cpc = "none" /\ chunk = EmptyChunk /\ processed_matches = 0
    /\ asleep = {}
    /\ result = 0 /\ fault = FALSE
    /\ parsed = <<>> /\ executed = 0

\* open_file stores the path before it tries to open it, so a path that
\* cannot be read is kept as well.
OpenFile(file) ==
    /\ ppc = "idle"
    /\ filepath_' = file
    /\ UNCHANGED <<ringVars, producerVars, consumerVars, status_filter_,
                   latency_filter_, result, fault, asleep>>

CloseFile ==
    /\ ppc = "idle"
    /\ filepath_' = NoPath
    /\ UNCHANGED <<ringVars, producerVars, consumerVars, status_filter_,
                   latency_filter_, result, fault, asleep>>

\* Mutants: the producer's index, or the count, survives from the last call.
ResetKeepsHead ==
    /\ ingest_complete_' = FALSE
    /\ match_count_' = 0
    /\ tail_' = 0 /\ queue_size_' = 0
    /\ UNCHANGED <<chunks_, head_>>

ResetKeepsCount ==
    /\ ingest_complete_' = FALSE
    /\ head_' = 0 /\ tail_' = 0 /\ queue_size_' = 0
    /\ UNCHANGED <<chunks_, match_count_>>

\* The assignments every call of run_query begins with.
ResetQueue ==
    /\ ingest_complete_' = FALSE
    /\ match_count_' = 0
    /\ head_' = 0 /\ tail_' = 0 /\ queue_size_' = 0
    /\ UNCHANGED chunks_

\* No path, a file that cannot be mapped: run_query returns 0.
RunQueryRefused(s, l) ==
    /\ ppc = "idle"
    /\ filepath_ \in {NoPath, Unreadable}
    /\ status_filter_' = s /\ latency_filter_' = l
    /\ ResetQueue
    /\ result' = 0 /\ fault' = FALSE
    /\ UNCHANGED <<producerVars, cpc, chunk, processed_matches, executed,
                   filepath_, asleep>>

RunQueryStarts(s, l) ==
    /\ ppc = "idle"
    /\ filepath_ \notin {NoPath, Unreadable}
    /\ status_filter_' = s /\ latency_filter_' = l
    /\ ResetQueue
    /\ ppc' = "launch" /\ docPos' = 0
    /\ current_chunk' = EmptyChunk /\ current_count' = 0
    /\ parsed' = <<>> /\ executed' = 0
    /\ cpc' = "none" /\ chunk' = EmptyChunk /\ processed_matches' = 0
    /\ fault' = FALSE
    /\ UNCHANGED <<filepath_, result, asleep>>

LaunchConsumer ==
    /\ ppc = "launch"
    /\ ppc' = "parse"
    /\ cpc' = "wait"
    /\ UNCHANGED <<ringVars, docPos, current_chunk, current_count, parsed, chunk,
                   processed_matches, match_count_, executed, callVars, asleep>>

\* std::thread throws: the catch clause skips the whole stream.
LaunchFails ==
    /\ ppc = "launch"
    /\ ppc' = "signal"
    /\ fault' = TRUE
    /\ UNCHANGED <<ringVars, docPos, current_chunk, current_count, parsed, consumerVars,
                   filepath_, status_filter_, latency_filter_, result, asleep>>

\* A document in error is skipped.
SkipDoc ==
    /\ ppc = "parse" /\ docPos < Len(Stream)
    /\ Stream[docPos + 1] = Malformed
    /\ docPos' = docPos + 1
    /\ UNCHANGED <<ringVars, ppc, current_chunk, current_count, parsed, consumerVars,
                   callVars, asleep>>

\* One document becomes one row; a full block is handed to the queue.
ParseDoc ==
    /\ ppc = "parse" /\ docPos < Len(Stream)
    /\ Stream[docPos + 1] # Malformed
    /\ LET row == RowOf(Stream[docPos + 1])
           full == current_count + 1 = kBlockSize
       IN  /\ current_chunk' =
                [rows |-> [current_chunk.rows EXCEPT ![current_count] = row],
                 count |-> IF full THEN kBlockSize ELSE current_chunk.count,
                 first |-> current_chunk.first]
           /\ parsed' = Append(parsed, row)
           /\ ppc' = IF full THEN "push" ELSE "parse"
    /\ docPos' = docPos + 1
    /\ current_count' = current_count + 1
    /\ UNCHANGED <<ringVars, consumerVars, callVars, asleep>>

\* The predicate of cv_can_produce_ is false: the producer waits.
ProducerSleeps ==
    /\ ppc \in {"push", "pushFinal"} /\ "producer" \notin asleep
    /\ ~CanProduce
    /\ asleep' = asleep \cup {"producer"}
    /\ UNCHANGED <<ringVars, producerVars, consumerVars, callVars>>

\* The block is copied into the ring.  After a full block parsing goes on;
\* after the final one the producer signals completion.
PushChunk ==
    /\ ppc \in {"push", "pushFinal"} /\ "producer" \notin asleep
    /\ CanProduce
    /\ chunks_' = [chunks_ EXCEPT ![head_] = current_chunk]
    /\ head_' = NextSlot(head_)
    /\ queue_size_' = queue_size_ + 1
    /\ asleep' = WakeConsumer
    /\ current_chunk' = [rows |-> current_chunk.rows, count |-> current_chunk.count,
                         first |-> Len(parsed)]
    /\ current_count' = IF ppc = "push" THEN 0 ELSE current_count
    /\ ppc' = IF ppc = "push" THEN "parse" ELSE "signal"
    /\ UNCHANGED <<tail_, ingest_complete_, docPos, parsed, consumerVars, callVars>>

\* The last, partial block is padded with zeros; its count stays exact.
EndOfStream ==
    /\ ppc = "parse" /\ docPos = Len(Stream)
    /\ IF current_count > 0
         THEN /\ current_chunk' =
                   [rows |-> [r \in 0..kBlockSize - 1 |->
                                IF r < current_count THEN current_chunk.rows[r]
                                                     ELSE ZeroRow],
                    count |-> current_count,
                    first |-> current_chunk.first]
              /\ ppc' = "pushFinal"
         ELSE /\ ppc' = "signal"
              /\ UNCHANGED current_chunk
    /\ UNCHANGED <<ringVars, docPos, current_count, parsed, consumerVars, callVars, asleep>>

\* Mutant: completion is set without waking the consumer.
SignalSilently ==
    /\ ppc = "signal"
    /\ ingest_complete_' = TRUE
    /\ ppc' = "join"
    /\ UNCHANGED <<chunks_, head_, tail_, queue_size_, docPos, current_chunk,
                   current_count, parsed, consumerVars, callVars, asleep>>

\* ingest_complete_ is set and notify_all called under the mutex.
SignalComplete ==
    /\ ppc = "signal"
    /\ ingest_complete_' = TRUE
    /\ asleep' = WakeConsumer
    /\ ppc' = "join"
    /\ UNCHANGED <<chunks_, head_, tail_, queue_size_, docPos, current_chunk,
                   current_count, parsed, consumerVars, callVars>>

\* Mutant: the count is read before the consumer thread has been joined.
ReturnWithoutJoin ==
    /\ ppc = "join"
    /\ cpc \in {"none", "wait", "done"}
    /\ result' = match_count_
    /\ ppc' = "idle"
    /\ UNCHANGED <<ringVars, docPos, current_chunk, current_count, parsed, consumerVars,
                   filepath_, status_filter_, latency_filter_, fault, asleep>>

\* join() returns once the consumer is done; without a consumer thread the
\* joinable() test skips it.
JoinAndReturn ==
    /\ ppc = "join"
    /\ cpc \in {"none", "done"}
    /\ result' = match_count_
    /\ ppc' = "idle"
    /\ UNCHANGED <<ringVars, docPos, current_chunk, current_count, parsed, consumerVars,
                   filepath_, status_filter_, latency_filter_, fault, asleep>>

-----------------------------------------------------------------------------
\* The predicate of cv_can_consume_ is false: the consumer waits.
ConsumerSleeps ==
    /\ cpc = "wait" /\ "consumer" \notin asleep
    /\ ~CanConsume
    /\ asleep' = asleep \cup {"consumer"}
    /\ UNCHANGED <<ringVars, producerVars, consumerVars, callVars>>

\* break: the ring is empty and nothing more will come.
ConsumerBreaks ==
    /\ cpc = "wait" /\ "consumer" \notin asleep
    /\ CanConsume /\ Drained
    /\ cpc' = "publish"
    /\ UNCHANGED <<ringVars, producerVars, chunk, processed_matches, match_count_,
                   executed, callVars, asleep>>

PopChunk ==
    /\ cpc = "wait" /\ "consumer" \notin asleep
    /\ CanConsume /\ ~Drained
    /\ chunk' = chunks_[tail_]
    /\ tail_' = NextSlot(tail_)
    /\ queue_size_' = queue_size_ - 1
    /\ asleep' = WakeProducer
    /\ cpc' = "exec"
    /\ UNCHANGED <<chunks_, head_, ingest_complete_, producerVars, processed_matches,
                   match_count_, executed, callVars>>

ExecuteChunk ==
    /\ cpc = "exec"
    /\ processed_matches' = processed_matches + Execute(chunk)
    /\ executed' = executed + chunk.count
    /\ cpc' = "wait"
    /\ UNCHANGED <<ringVars, producerVars, chunk, match_count_, callVars, asleep>>

\* match_count_ += processed_matches, then the thread function returns.
Publish ==
    /\ cpc = "publish"
    /\ match_count_' = match_count_ + processed_matches
    /\ cpc' = "done"
    /\ UNCHANGED <<ringVars, producerVars, chunk, processed_matches, executed,
                   callVars, asleep>>

\* A condition variable may wake its waiter for no reason.
SpuriousWakeup(t) ==
    /\ t \in asleep
    /\ asleep' = asleep \ {t}
    /\ UNCHANGED <<ringVars, producerVars, consumerVars, callVars>>

-----------------------------------------------------------------------------
Producer ==
    \/ LaunchConsumer \/ SkipDoc \/ ParseDoc \/ ProducerSleeps \/ PushChunk
    \/ EndOfStream \/ SignalComplete \/ JoinAndReturn

Consumer ==
    ConsumerSleeps \/ ConsumerBreaks \/ PopChunk \/ ExecuteChunk \/ Publish

Next ==
    \/ \E file \in Files : OpenFile(file)
    \/ CloseFile
    \/ \E s \in StatusTargets, l \in LatencyTargets :
          RunQueryRefused(s, l) \/ RunQueryStarts(s, l)
    \/ LaunchFails
    \/ Producer
    \/ Consumer
    \/ \E t \in {"producer", "consumer"} : SpuriousWakeup(t)

\* The operating system schedules both threads; nothing obliges a caller to
\* ask, a launch to fail or a wakeup to be spurious.
Spec == Init /\ [][Next]_vars /\ WF_vars(Producer) /\ WF_vars(Consumer)

-----------------------------------------------------------------------------
TypeOK ==
    /\ filepath_ \in Files \cup {NoPath}
    /\ status_filter_ \in Nat /\ latency_filter_ \in Nat
    /\ chunks_ \in [0..kQueueCapacity - 1 -> LogChunk]
    /\ head_ \in 0..kQueueCapacity - 1
    /\ tail_ \in 0..kQueueCapacity - 1
    /\ queue_size_ \in 0..kQueueCapacity
    /\ ingest_complete_ \in BOOLEAN
    /\ match_count_ \in Nat
    /\ ppc \in {"idle", "launch", "parse", "push", "pushFinal", "signal", "join"}
    /\ docPos \in Nat
    /\ current_chunk \in LogChunk /\ current_count \in 0..kBlockSize
    /\ cpc \in {"none", "wait", "exec", "publish", "done"}
    /\ chunk \in LogChunk /\ processed_matches \in Nat
    /\ asleep \subseteq {"producer", "consumer"}
    /\ result \in Nat /\ fault \in BOOLEAN
    /\ parsed \in Seq(Row) /\ executed \in Nat

-----------------------------------------------------------------------------
(* The ring as a queue. *)

\* The slot j places after slot t, and the j-th oldest block in the ring.
Slot(t, j) == IF t + j < kQueueCapacity THEN t + j ELSE t + j - kQueueCapacity

Queued(j) == chunks_[Slot(tail_, j)]

\* Rows that have left the ring for the consumer.
Taken == IF cpc = "exec" THEN executed + chunk.count ELSE executed

\* A block holds, at its place, the rows it should.
Carries(c, rows) ==
    /\ c.first + c.count <= Len(rows)
    /\ \A r \in 0..c.count - 1 : c.rows[r] = rows[c.first + r + 1]

\* No block is lost, overwritten, duplicated or reordered between the two
\* threads: the blocks from tail_ to head_ are, in order, exactly the rows
\* that were pushed and not yet popped, and the block being evaluated holds
\* the rows that come right before them.
RingCarriesEveryRow ==
    /\ head_ = Slot(tail_, queue_size_)
    /\ \A j \in 0..queue_size_ - 1 :
         /\ Carries(Queued(j), parsed)
         /\ Queued(j).first = IF j = 0 THEN Taken
                                       ELSE Queued(j - 1).first + Queued(j - 1).count
    /\ current_chunk.first = IF queue_size_ = 0 THEN Taken
                             ELSE Queued(queue_size_ - 1).first + Queued(queue_size_ - 1).count
    /\ cpc = "exec" => Carries(chunk, parsed) /\ chunk.first = executed

\* A thread blocked on its condition variable has nothing to do: no wakeup
\* is lost, whatever the interleaving of push, pop and completion.
NoLostWakeup ==
    /\ "consumer" \in asleep => ~CanConsume
    /\ "producer" \in asleep => ~CanProduce

\* When the consumer has published, the count is exactly the number of
\* matching documents of the file, the last partial block included.
CountIsExact ==
    (ppc = "join" /\ cpc = "done") =>
        match_count_ = HitCount(filepath_, status_filter_, latency_filter_)

\* The consumer never stops before every row the producer extracted has been
\* evaluated, and completion is never signalled with rows left unpushed.
ConsumerFinishesLast ==
    cpc \in {"publish", "done"} =>
        ppc \in {"join", "idle"} /\ executed = Len(parsed)

\* Every call of run_query returns.
QueryReturns == (ppc # "idle") ~> (ppc = "idle")

Scan == INSTANCE ScanSpec WITH
            path <- filepath_,
            pending <- IF ppc = "idle" THEN <<>> ELSE <<status_filter_, latency_filter_>>,
            answer <- result,
            Expected <- HitCount

\* The threaded pipeline implements the one-step abstract scan: what
\* run_query returns is the exact count, or 0 when there was nothing to scan
\* or no consumer thread.
ImplementsScan == Scan!Spec
=============================================================================
