------------------------------- MODULE PushPath -------------------------------
(***************************************************************************)
(* What happens to a batch of log lines in the query service.  Threads     *)
(* that have a batch (LokiController.pushLogs, and in the background the   *)
(* Kafka flush and the simulator) first show it to the live-tail sessions  *)
(* (broadcastLogs), then stream it to the core in chunks and wait for the  *)
(* answer at most 30 s (AarchGateGrpcClient.streamIngest).  Sessions come  *)
(* and go meanwhile, and nothing keeps two threads from sending to the     *)
(* same session, which the container refuses with an unchecked exception.  *)
(***************************************************************************)
EXTENDS Integers, SequencesExt

CONSTANTS
    Pushers,        \* threads that call pushLogs
    Background,     \* threads that do the same and look at no result
    Sessions,       \* WebSocket sessions
    Batches,        \* what is pushed, each once: sequences of lines
    Matching,       \* session -> the lines its subscription matches
    BadLabels,      \* lines with a job, level or host that is no string; the line
                    \* that is the JSON null is such a line that all sessions match
    batchSize       \* lines of a chunk (1000)

Threads == Pushers \cup Background
Lines == UNION {ToSet(b) : b \in Batches}

ASSUME PushAssumption ==
    /\ Batches \subseteq Seq(Lines)
    /\ Matching \in [Sessions -> SUBSET Lines] /\ BadLabels \subseteq Lines
    /\ batchSize \in Nat \ {0}

VARIABLES
    opened, closed,     \* sessions that were opened, those of them that were closed
    subscriptions,      \* the sessions that are registered
    received,           \* session -> the batches it has got a message of
    call,               \* thread -> its step and its local variables
    todo,               \* batches not yet pushed
    answered            \* history: the status of each batch that was answered

sessionVars == <<opened, closed, subscriptions, received>>
vars == <<sessionVars, call, todo, answered>>

Idle == [pc |-> "idle"]
At(t, pc) == call[t].pc = pc
Goto(t, pc) == call' = [call EXCEPT ![t].pc = pc]

isOpen(s) == s \in opened \ closed

\* The lines of a batch a session is sent, all in one message.
Matched(s, batch) == ToSet(batch) \cap Matching[s]

Init ==
    /\ opened = {} /\ closed = {} /\ subscriptions = {}
    /\ received = [s \in Sessions |-> <<>>]
    /\ call = [t \in Threads |-> Idle]
    /\ todo = Batches
    /\ answered = [b \in {} |-> 0]

-----------------------------------------------------------------------------
(* LokiTailHandler.                                                         *)

afterConnectionEstablished(s) ==
    /\ s \notin opened
    /\ opened' = opened \cup {s}
    /\ subscriptions' = subscriptions \cup {s}
    /\ UNCHANGED <<closed, received, call, todo, answered>>

\* The peer goes away; the container tells the handler later.
Close(s) ==
    /\ isOpen(s)
    /\ closed' = closed \cup {s}
    /\ UNCHANGED <<opened, subscriptions, received, call, todo, answered>>

afterConnectionClosed(s) ==
    /\ s \in closed \cap subscriptions
    /\ subscriptions' = subscriptions \ {s}
    /\ UNCHANGED <<opened, closed, received, call, todo, answered>>

-----------------------------------------------------------------------------
(* broadcastLogs.  The map's iterator is weakly consistent: it passes by    *)
(* what is there when it starts, and perhaps by what comes or goes later.   *)

\* A thread has a batch; there is nothing to do for an empty one, and nobody
\* to show it to without subscriptions.
FirstStep(batch) ==
    IF batch = <<>> THEN "done" ELSE IF subscriptions = {} THEN "stream" ELSE "broadcast"

Begin(t, batch) ==
    /\ At(t, "idle") /\ batch \in todo
    /\ todo' = todo \ {batch}
    /\ call' = [call EXCEPT ![t] =
         [pc |-> FirstStep(batch), batch |-> batch, there |-> subscriptions, passed |-> {},
          failed |-> {}, to |-> {}, sent |-> 0, stored |-> <<>>,
          result |-> IF batch = <<>> THEN "success" ELSE "null"]]
    /\ UNCHANGED <<sessionVars, answered>>

\* Mutant: the iterator starts over after a send.
PassedAgain(t, s) == IF Matched(s, call[t].batch) = {} THEN call[t].passed \cup {s} ELSE {}

\* The iterator has come past s; sending to s has failed with an IOException.
Passed(t, s) == call[t].passed \cup {s}
Failed(t, s) == call[t].failed \cup {s}

\* Mutant: a closed session ends the loop.
StopsAtClosed(t) ==
    IF \A s \in call[t].passed : isOpen(s)
      THEN (subscriptions \cup call[t].there) \ call[t].passed ELSE {}

\* The entries the iterator may come to.
Ahead(t) == (subscriptions \cup call[t].there) \ call[t].passed

VisitClosed(t, s) ==
    /\ At(t, "broadcast") /\ s \in Ahead(t) /\ ~isOpen(s)
    /\ subscriptions' = subscriptions \ {s}
    /\ call' = [call EXCEPT ![t].passed = Passed(t, s)]
    /\ UNCHANGED <<opened, closed, received, todo, answered>>

VisitUnmatched(t, s) ==
    /\ At(t, "broadcast") /\ s \in Ahead(t) /\ isOpen(s)
    /\ Matched(s, call[t].batch) = {}
    /\ call' = [call EXCEPT ![t].passed = Passed(t, s)]
    /\ UNCHANGED <<sessionVars, todo, answered>>

\* Collecting the labels of a matching line casts them to strings.  With the
\* JSON null there is no map to look into, and that throws in any case.
Casts(t, s) == Matched(s, call[t].batch) \cap BadLabels = {}

\* Another thread is in the middle of sending to the session.
Writing(s) == \E u \in Threads : At(u, "send") /\ s \in call[u].to

StartSend(t, s) ==
    /\ At(t, "broadcast") /\ s \in Ahead(t) /\ isOpen(s)
    /\ Matched(s, call[t].batch) # {} /\ Casts(t, s) /\ ~Writing(s)
    /\ call' = [call EXCEPT ![t] = [@ EXCEPT !.pc = "send", !.to = {s}]]
    /\ UNCHANGED <<sessionVars, todo, answered>>

\* ClassCastException, NullPointerException and IllegalStateException are not
\* IOExceptions: they leave broadcastLogs, and the batch is not ingested.
SendThrows(t, s) ==
    /\ At(t, "broadcast") /\ s \in Ahead(t) /\ isOpen(s)
    /\ Matched(s, call[t].batch) # {}
    /\ ~Casts(t, s) \/ Writing(s)
    /\ Goto(t, "threw")
    /\ UNCHANGED <<sessionVars, todo, answered>>

\* sendMessage comes back, with the message sent or with an IOException,
\* which is logged; on a session that was closed it may throw as well.
EndSend(t, s) ==
    /\ At(t, "send") /\ s \in call[t].to
    /\ \/ /\ isOpen(s)
          /\ received' = [received EXCEPT ![s] = Append(@, call[t].batch)]
          /\ call' = [call EXCEPT ![t] = [@ EXCEPT !.pc = "broadcast", !.to = {}, !.passed = Passed(t, s)]]
       \/ /\ call' = [call EXCEPT ![t] = [@ EXCEPT !.pc = "broadcast", !.to = {},
                                          !.passed = Passed(t, s), !.failed = Failed(t, s)]]
          /\ UNCHANGED received
       \/ ~isOpen(s) /\ Goto(t, "threw") /\ UNCHANGED received
    /\ UNCHANGED <<opened, closed, subscriptions, todo, answered>>

EndBroadcast(t) ==
    /\ At(t, "broadcast") /\ Ahead(t) \cap subscriptions \cap call[t].there = {}
    /\ Goto(t, "stream")
    /\ UNCHANGED <<sessionVars, todo, answered>>

-----------------------------------------------------------------------------
(* streamIngest, and the core's StreamIngest at the other end.              *)

\* Mutant: the loop runs up to the size of the batch.
OneMore(t) == call[t].sent > Len(call[t].batch)

AllSent(t) == call[t].sent >= Len(call[t].batch)

\* The end of the chunk that begins after the first n lines.
ChunkEnd(t, n) ==
    IF n + batchSize <= Len(call[t].batch) THEN n + batchSize ELSE Len(call[t].batch)

SendChunk(t) ==
    /\ At(t, "stream") /\ ~AllSent(t)
    /\ call' = [call EXCEPT ![t] = [@ EXCEPT !.sent = ChunkEnd(t, call[t].sent),
                                    !.there = {}, !.passed = {}, !.failed = {}]]
    /\ UNCHANGED <<sessionVars, todo, answered>>

\* The core reads a chunk and takes its lines in.
CoreReads(t) ==
    LET n == Len(call[t].stored)
    IN  /\ At(t, "stream") \/ At(t, "await")
        /\ n < call[t].sent
        /\ call' = [call EXCEPT ![t].stored = @ \o SubSeq(call[t].batch, n + 1, ChunkEnd(t, n))]
        /\ UNCHANGED <<sessionVars, todo, answered>>

Complete(t) ==
    /\ At(t, "stream") /\ AllSent(t)
    /\ Goto(t, "await")
    /\ UNCHANGED <<sessionVars, todo, answered>>

\* The scratch storage throws, or the stub, at any chunk: ingestLogLines
\* answers with success = false.
StagingFails(t) ==
    /\ At(t, "stream")
    /\ call' = [call EXCEPT ![t] = [@ EXCEPT !.pc = "done", !.result = "failure"]]
    /\ UNCHANGED <<sessionVars, todo, answered>>

\* The core has read the stream to its end and answers: onNext.
CoreAnswers(t) ==
    /\ At(t, "await") /\ call[t].result = "null" /\ Len(call[t].stored) = call[t].sent
    /\ call' = [call EXCEPT ![t].result = "success"]
    /\ UNCHANGED <<sessionVars, todo, answered>>

\* The latch opens: onCompleted after onNext, onError at any moment, or the
\* 30 s are over.  The result is what onNext has left, if anything.
LatchOpens(t) ==
    /\ At(t, "await")
    /\ Goto(t, "done")
    /\ UNCHANGED <<sessionVars, todo, answered>>

\* Mutant: no answer is as good as one.
NotFailed(result) == IF result = "failure" THEN 500 ELSE 204

\* A null response is dereferenced, which is as good as a failure.
StatusOf(result) == IF result = "success" THEN 204 ELSE 500

\* The thread is done with the batch; only pushLogs answers anybody.
Finish(t) ==
    /\ At(t, "done") \/ At(t, "threw")
    /\ call' = [call EXCEPT ![t] = Idle]
    /\ answered' = IF t \in Background THEN answered
                   ELSE [b \in DOMAIN answered \cup {call[t].batch} |->
                           IF b \in DOMAIN answered THEN answered[b]
                           ELSE [status |-> IF At(t, "threw") THEN 500 ELSE StatusOf(call[t].result),
                                 stored |-> call[t].stored]]
    /\ UNCHANGED <<sessionVars, todo>>

Broadcast(t) ==
    \/ \E s \in Sessions : VisitClosed(t, s) \/ VisitUnmatched(t, s) \/ StartSend(t, s)
                           \/ SendThrows(t, s) \/ EndSend(t, s)
    \/ EndBroadcast(t)
Stream(t) == SendChunk(t) \/ Complete(t) \/ LatchOpens(t)
Proceed(t) == Broadcast(t) \/ Stream(t) \/ Finish(t)

Next ==
    \/ \E s \in Sessions : afterConnectionEstablished(s) \/ Close(s) \/ afterConnectionClosed(s)
    \/ \E t \in Threads, batch \in Batches : Begin(t, batch)
    \/ \E t \in Threads : Proceed(t) \/ StagingFails(t) \/ CoreReads(t) \/ CoreAnswers(t)

\* A thread that can go on does: sends end, and the latch has a time limit.
\* Nothing obliges the staging to fail, nor the core to read or to answer.
Spec == Init /\ [][Next]_vars /\ \A t \in Threads : WF_vars(Proceed(t))

-----------------------------------------------------------------------------
Call ==
    [pc : {"broadcast", "send", "threw", "stream", "await", "done"}, batch : Batches,
     there : SUBSET Sessions, passed : SUBSET Sessions, failed : SUBSET Sessions,
     to : SUBSET Sessions, sent : Nat, stored : Seq(Lines), result : {"null", "success", "failure"}]

TypeOK ==
    /\ closed \subseteq opened /\ opened \subseteq Sessions /\ subscriptions \subseteq opened
    /\ received \in [Sessions -> Seq(Batches)]
    /\ call \in [Threads -> Call \cup {Idle}]
    /\ \A t \in Threads : ~At(t, "idle") => call[t].sent <= Len(call[t].batch)
    /\ todo \subseteq Batches /\ DOMAIN answered \subseteq Batches
    /\ \A b \in DOMAIN answered : answered[b].status \in {204, 500}

\* A push is acknowledged with 204 only when the core has taken in every line
\* of it, in order, whatever timeouts, errors and other pushes do.
AckedIsStored == \A b \in DOMAIN answered : answered[b].status = 204 => answered[b].stored = b

\* A session is sent a batch at most once, and only one with lines that match
\* its query, whatever other threads broadcast at the same time.  (And all
\* variables keep their types.)
TailExact ==
    /\ TypeOK
    /\ \A s \in Sessions :
          /\ IsInjective(received[s])
          /\ \A b \in ToSet(received[s]) : Matched(s, b) # {}

\* When a broadcast has gone through, every session that was registered
\* before it and is still open has got its lines, unless sending failed.
TailComplete ==
    \A t \in Threads : At(t, "stream") =>
        \A s \in call[t].there \ call[t].failed :
            isOpen(s) /\ Matched(s, call[t].batch) # {} => call[t].batch \in ToSet(received[s])

\* Every thread gets done with its batch, and every push is answered.
PushAnswered == \A t \in Threads : ~At(t, "idle") ~> At(t, "idle")
=============================================================================
