---------------------------- MODULE KafkaConsumer ----------------------------
(***************************************************************************)
(* KafkaConsumerManager of the query service: the listener thread of the   *)
(* Kafka container adds records to a buffer that three threads flush: the  *)
(* listener itself when the buffer is full, a scheduled task when the      *)
(* flush interval has passed, and the thread that stops the container.     *)
(* flushBuffer is synchronized, buffer.add is not: the buffer is a         *)
(* CopyOnWriteArrayList, so each call on it is atomic, and nothing more.   *)
(***************************************************************************)
EXTENDS Naturals, Sequences, SequencesExt

CONSTANTS
    LastOffset,    \* records 1..LastOffset are published to the topic
    batchSize,
    NoOne          \* the monitor is free

Actors == {"listener", "scheduler", "stopper"}

ASSUME KafkaAssumption == LastOffset \in Nat /\ batchSize \in Nat \ {0} /\ NoOne \notin Actors

VARIABLES
    buffer,        \* the CopyOnWriteArrayList
    next, fetched, \* next record to deliver, last record of the current poll
    running,       \* the container accepts polls
    monitor,       \* owner of the object's monitor
    stage,         \* per actor: outside flushBuffer, or its step inside
    batchToFlush,  \* per actor: its copy of the buffer
    lpc,           \* the listener between two records
    kpc,           \* the stopping thread: cleanup()
    elapsed,       \* flushIntervalMs has passed since lastFlushTime
    handed,        \* history: records passed to ingestLogLines, in order
    dropped,       \* history: records of a batch whose flush failed
    raced          \* history: records added between a flush's copy and its clear

history == <<handed, dropped, raced>>
flushVars == <<monitor, stage, batchToFlush>>
vars == <<buffer, next, fetched, running, flushVars, lpc, kpc, elapsed, history>>

Init ==
    /\ buffer = <<>>
    /\ next = 1 /\ fetched = 0
    /\ running = TRUE
    /\ monitor = NoOne
    /\ stage = [a \in Actors |-> "out"]
    /\ batchToFlush = [a \in Actors |-> <<>>]
    /\ lpc = "poll" /\ kpc = "up"
    /\ elapsed = FALSE
    /\ handed = <<>> /\ dropped = {} /\ raced = {}

-----------------------------------------------------------------------------
(* flushBuffer, by any of the three actors.                                *)

\* Mutant: flushBuffer is not synchronized.
Unsynchronized(a) == TRUE

\* The monitor of the object is reentrant.
MonitorFree(a) == monitor \in {NoOne, a}

\* The monitor is taken (again, for the stopping thread, which holds it) and
\* an empty buffer returned from at once.
EnterFlush(a) ==
    /\ stage[a] = "enter" /\ MonitorFree(a)
    /\ monitor' = a
    /\ stage' = [stage EXCEPT ![a] = IF buffer = <<>> THEN "leave" ELSE "copy"]
    /\ UNCHANGED <<buffer, next, fetched, running, batchToFlush, lpc, kpc, elapsed, history>>

\* Mutant: the copy ends one short.
CopiedShort == Front(buffer)

\* new ArrayList<>(buffer)
Copied == buffer

CopyBuffer(a) ==
    /\ stage[a] = "copy"
    /\ batchToFlush' = [batchToFlush EXCEPT ![a] = Copied]
    /\ stage' = [stage EXCEPT ![a] = "clear"]
    /\ UNCHANGED <<buffer, next, fetched, running, monitor, lpc, kpc, elapsed, history>>

\* buffer.clear(), whatever it holds by now; lastFlushTime is set.
ClearBuffer(a) ==
    /\ stage[a] = "clear"
    /\ buffer' = <<>>
    /\ elapsed' = FALSE
    /\ stage' = [stage EXCEPT ![a] = "send"]
    /\ UNCHANGED <<next, fetched, running, monitor, batchToFlush, lpc, kpc, history>>

\* Broadcast, then ingestLogLines.
SendBatch(a) ==
    /\ stage[a] = "send"
    /\ handed' = handed \o batchToFlush[a]
    /\ stage' = [stage EXCEPT ![a] = "leave"]
    /\ UNCHANGED <<buffer, next, fetched, running, monitor, batchToFlush, lpc, kpc,
                   elapsed, dropped, raced>>

\* One of the two throws: logged, and the batch is gone.
SendFails(a) ==
    /\ stage[a] = "send"
    /\ dropped' = dropped \cup ToSet(batchToFlush[a])
    /\ stage' = [stage EXCEPT ![a] = "leave"]
    /\ UNCHANGED <<buffer, next, fetched, running, monitor, batchToFlush, lpc, kpc,
                   elapsed, handed, raced>>

\* The monitor is released, except by the stopping thread: it is still in
\* stopContainer.
LeaveFlush(a) ==
    /\ stage[a] = "leave"
    /\ stage' = [stage EXCEPT ![a] = "out"]
    /\ monitor' = IF a = "stopper" THEN monitor ELSE NoOne
    /\ UNCHANGED <<buffer, next, fetched, running, batchToFlush, lpc, kpc, elapsed, history>>

Flush(a) ==
    \/ EnterFlush(a) \/ CopyBuffer(a) \/ ClearBuffer(a) \/ SendBatch(a) \/ SendFails(a)
    \/ LeaveFlush(a)

-----------------------------------------------------------------------------
\* The container polls while it runs; a poll yields some records.
Poll(n) ==
    /\ lpc = "poll" /\ running
    /\ next > fetched /\ n \in next..LastOffset
    /\ fetched' = n
    /\ UNCHANGED <<buffer, next, running, flushVars, lpc, kpc, elapsed, history>>

MoreInPoll == next <= fetched

\* The listener: buffer.add ...
AddRecord ==
    /\ lpc = "poll" /\ MoreInPoll
    /\ buffer' = Append(buffer, next)
    /\ next' = next + 1
    /\ raced' = IF \E a \in Actors : stage[a] = "clear" THEN raced \cup {next} ELSE raced
    /\ lpc' = "check"
    /\ UNCHANGED <<fetched, running, flushVars, kpc, elapsed, handed, dropped>>

\* Mutant: the size test is off by one.
FullLate == Len(buffer) > batchSize

Full == Len(buffer) >= batchSize

\* ... then the size test, on whatever the buffer holds by now.
CheckSize ==
    /\ lpc = "check"
    /\ IF Full
         THEN /\ stage' = [stage EXCEPT !["listener"] = "enter"]
              /\ lpc' = "flushing"
         ELSE lpc' = "poll" /\ UNCHANGED stage
    /\ UNCHANGED <<buffer, next, fetched, running, monitor, batchToFlush, kpc, elapsed, history>>

ListenerReturns ==
    /\ lpc = "flushing" /\ stage["listener"] = "out"
    /\ lpc' = "poll"
    /\ UNCHANGED <<buffer, next, fetched, running, flushVars, kpc, elapsed, history>>

\* Time passes.
IntervalElapses ==
    /\ ~elapsed
    /\ elapsed' = TRUE
    /\ UNCHANGED <<buffer, next, fetched, running, flushVars, lpc, kpc, history>>

\* Mutant: the scheduled task flushes full batches only.
FullFlushDue == Full /\ elapsed

FlushDue == buffer # <<>> /\ elapsed

\* checkFlush, run by the scheduler until it is shut down.
CheckFlush ==
    /\ kpc # "stopped" /\ stage["scheduler"] = "out"
    /\ FlushDue
    /\ stage' = [stage EXCEPT !["scheduler"] = "enter"]
    /\ UNCHANGED <<buffer, next, fetched, running, monitor, batchToFlush, lpc, kpc,
                   elapsed, history>>

\* cleanup(): stopContainer is synchronized and tells the container to stop.
BeginStop ==
    /\ kpc = "up" /\ monitor = NoOne
    /\ monitor' = "stopper"
    /\ running' = FALSE
    /\ kpc' = "stopping"
    /\ UNCHANGED <<buffer, next, fetched, stage, batchToFlush, lpc, elapsed, history>>

\* Mutant: container.stop() waits for the listener without a timeout.
ListenerIdle == lpc = "poll" /\ next > fetched

\* container.stop() returns when the listener has finished its poll, or at
\* any moment before, when the container's shutdown timeout expires: the
\* listener may be waiting for the monitor the stopping thread holds.
StopReturns == TRUE

\* The last flush follows.
ContainerStopped ==
    /\ kpc = "stopping" /\ StopReturns
    /\ stage' = [stage EXCEPT !["stopper"] = "enter"]
    /\ kpc' = "flushing"
    /\ UNCHANGED <<buffer, next, fetched, running, monitor, batchToFlush, lpc, elapsed, history>>

\* The monitor is released and the scheduler shut down.
EndStop ==
    /\ kpc = "flushing" /\ stage["stopper"] = "out"
    /\ monitor' = NoOne
    /\ kpc' = "stopped"
    /\ UNCHANGED <<buffer, next, fetched, running, stage, batchToFlush, lpc, elapsed, history>>

Listener == AddRecord \/ CheckSize \/ ListenerReturns
Stopper == ContainerStopped \/ EndStop

Next ==
    \/ \E n \in 1..LastOffset : Poll(n)
    \/ Listener \/ IntervalElapses \/ CheckFlush \/ BeginStop \/ Stopper
    \/ \E a \in Actors : Flush(a)

\* Threads run and time passes; monitors are granted eventually; nothing
\* obliges a poll to return records or the application to stop.
Fairness ==
    /\ WF_vars(Listener) /\ WF_vars(IntervalElapses) /\ WF_vars(CheckFlush)
    /\ WF_vars(Stopper)
    /\ \A a \in Actors : SF_vars(EnterFlush(a)) /\ WF_vars(Flush(a))

Spec == Init /\ [][Next]_vars /\ Fairness

-----------------------------------------------------------------------------
TypeOK ==
    /\ buffer \in Seq(1..LastOffset)
    /\ next \in 1..LastOffset + 1 /\ fetched \in 0..LastOffset
    /\ running \in BOOLEAN /\ elapsed \in BOOLEAN
    /\ monitor \in Actors \cup {NoOne}
    /\ stage \in [Actors -> {"out", "enter", "copy", "clear", "send", "leave"}]
    /\ batchToFlush \in [Actors -> Seq(1..LastOffset)]
    /\ lpc \in {"poll", "check", "flushing"}
    /\ kpc \in {"up", "stopping", "flushing", "stopped"}
    /\ handed \in Seq(1..LastOffset) /\ dropped \cup raced \subseteq 1..LastOffset

\* However the three flushing threads interleave, records reach ingestLogLines
\* in topic order and none of them twice.  (And all variables keep their types.)
HandedInOrder ==
    /\ TypeOK
    /\ \A i, j \in DOMAIN handed : i < j => handed[i] < handed[j]

\* The buffer never outgrows a batch: the listener cannot add while it waits
\* for another thread's flush.
BufferBounded == Len(buffer) <= batchSize

\* flushBuffer copies and then clears, and buffer.add takes no monitor: a
\* record is lost only when it was added between the two.  Every other record
\* taken from the topic is in the buffer, in a flush under way, ingested, or
\* part of a batch whose failure was logged.
InFlush(r) ==
    \E a \in Actors : stage[a] \in {"clear", "send"} /\ r \in ToSet(batchToFlush[a])

LostOnlyInWindow ==
    \A r \in 1..next - 1 :
        r \in ToSet(buffer) \cup ToSet(handed) \cup dropped \cup raced \/ InFlush(r)

\* A buffered record does not wait for ever for company: the scheduled flush
\* takes it, unless the application is stopped.
BufferDrains == (buffer # <<>>) ~> (buffer = <<>> \/ kpc = "stopped")

\* Stopping ends, although stopContainer waits for a listener that may wait
\* for the monitor it holds.
StopEnds == (kpc = "stopping") ~> (kpc = "stopped")
=============================================================================
