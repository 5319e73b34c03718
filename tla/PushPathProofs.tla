--------------------------- MODULE PushPathProofs ---------------------------
(***************************************************************************)
(* Proofs about a pushed batch, for any number of threads, sessions and    *)
(* batches: an acknowledged batch is stored, a session is sent a batch at  *)
(* most once, and a broadcast passes no open session by.                   *)
(***************************************************************************)
EXTENDS PushPath, SequenceTheorems, TLAPS

\* A batch is in one place at a time: not yet pushed, or with one thread.
Owned ==
    /\ \A t, u \in Threads : t # u /\ ~At(t, "idle") /\ ~At(u, "idle") =>
          call[t].batch # call[u].batch
    /\ \A t \in Threads : ~At(t, "idle") => call[t].batch \notin todo
    /\ \A s \in Sessions : \A b \in ToSet(received[s]) : b \notin todo

\* A session leaves the map only when it is closed, and the ones a broadcast
\* deals with were opened before.
Known(c) == c.there \cup c.passed \cup c.to
Registered ==
    /\ opened \ subscriptions \subseteq closed
    /\ \A t \in Threads : ~At(t, "idle") => Known(call[t]) \subseteq opened

\* The iterator has passed by a session when the session has the batch, and
\* it has the batch, if it is open and wants it, when it was passed.
ShowsRight(c) ==
    /\ c.pc = "send" => c.to \cap c.passed = {} /\ \A s \in c.to : Matched(s, c.batch) # {}
    /\ c.pc \in {"broadcast", "send"} =>
         \A s \in Sessions :
            /\ c.batch \in ToSet(received[s]) => s \in c.passed
            /\ s \in c.passed \ c.failed /\ isOpen(s) /\ Matched(s, c.batch) # {}
                 => c.batch \in ToSet(received[s])

\* The core has a beginning of the batch, and success means all of it.
StreamsRight(c) ==
    c.pc # "idle" =>
        /\ Len(c.stored) <= Len(c.batch)
        /\ c.stored = SubSeq(c.batch, 1, Len(c.stored))
        /\ c.result = "success" => c.stored = c.batch
        /\ c.pc = "await" => c.sent = Len(c.batch)

\* What TailComplete says of one call.
TailRight(c) ==
    c.pc = "stream" =>
        \A s \in c.there \ c.failed :
            isOpen(s) /\ Matched(s, c.batch) # {} => c.batch \in ToSet(received[s])

CallsRight == \A t \in Threads : ShowsRight(call[t]) /\ StreamsRight(call[t])

IInv ==
    /\ TypeOK /\ Owned /\ Registered /\ CallsRight
    /\ TailExact /\ TailComplete /\ AckedIsStored

-----------------------------------------------------------------------------
\* The steps of a thread that change one or several fields of its call.
LEMMA CallUpdates ==
    ASSUME NEW c \in Call
    PROVE  /\ c.pc # "idle" /\ c # Idle
           /\ \A pc \in {"threw", "stream", "await", "done"} : [c EXCEPT !.pc = pc] \in Call
           /\ \A p \in SUBSET Sessions : [c EXCEPT !.passed = p] \in Call
           /\ \A s \in Sessions : [c EXCEPT !.pc = "send", !.to = {s}] \in Call
           /\ \A p \in SUBSET Sessions :
                 [c EXCEPT !.pc = "broadcast", !.to = {}, !.passed = p] \in Call
           /\ \A p, f \in SUBSET Sessions :
                 [c EXCEPT !.pc = "broadcast", !.to = {}, !.passed = p, !.failed = f] \in Call
           /\ \A n \in Nat : [c EXCEPT !.sent = n, !.there = {}, !.passed = {},
                                       !.failed = {}] \in Call
           /\ \A r \in Seq(Lines) : [c EXCEPT !.stored = r] \in Call
           /\ [c EXCEPT !.pc = "done", !.result = "failure"] \in Call
           /\ [c EXCEPT !.result = "success"] \in Call
<1>t. /\ c.pc \in {"broadcast", "send", "threw", "stream", "await", "done"} /\ c.batch \in Batches
      /\ c.there \in SUBSET Sessions /\ c.passed \in SUBSET Sessions
      /\ c.failed \in SUBSET Sessions /\ c.to \in SUBSET Sessions
      /\ c.sent \in Nat /\ c.stored \in Seq(Lines) /\ c.result \in {"null", "success", "failure"}
  BY DEF Call
<1>0. c.pc # "idle" /\ c # Idle
  BY <1>t DEF Idle
<1>1. \A pc \in {"threw", "stream", "await", "done"} : [c EXCEPT !.pc = pc] \in Call
  BY DEF Call
<1>2. \A p \in SUBSET Sessions : [c EXCEPT !.passed = p] \in Call
  BY DEF Call
<1>3. \A s \in Sessions : [c EXCEPT !.pc = "send", !.to = {s}] \in Call
  BY DEF Call
<1>4. \A p \in SUBSET Sessions :
                 [c EXCEPT !.pc = "broadcast", !.to = {}, !.passed = p] \in Call
  BY DEF Call
<1>5. \A p, f \in SUBSET Sessions :
                 [c EXCEPT !.pc = "broadcast", !.to = {}, !.passed = p, !.failed = f] \in Call
  BY DEF Call
<1>6. \A n \in Nat : [c EXCEPT !.sent = n, !.there = {}, !.passed = {},
                                       !.failed = {}] \in Call
  BY DEF Call
<1>7. \A r \in Seq(Lines) : [c EXCEPT !.stored = r] \in Call
  BY DEF Call
<1>8. [c EXCEPT !.pc = "done", !.result = "failure"] \in Call
  BY DEF Call
<1>9. [c EXCEPT !.result = "success"] \in Call
  BY DEF Call
<1> QED
  BY <1>0, <1>1, <1>2, <1>3, <1>4, <1>5, <1>6, <1>7, <1>8, <1>9

\* What is known of a thread that has a batch.
LEMMA Active ==
    ASSUME TypeOK, NEW t \in Threads, ~At(t, "idle")
    PROVE  /\ call[t] \in Call
           /\ call[t].batch \in Batches /\ call[t].batch \in Seq(Lines)
           /\ call[t].sent \in Nat /\ call[t].sent <= Len(call[t].batch)
<1>1. call[t] \in Call
  BY DEF TypeOK, At, Idle
<1>2. call[t].batch \in Batches /\ call[t].sent \in Nat
  BY <1>1 DEF Call
<1> QED
  BY <1>1, <1>2, PushAssumption DEF TypeOK

\* A thread goes on with its batch; sessions that were found closed are
\* dropped from the map.
LEMMA CallStep ==
    ASSUME IInv, NEW t \in Threads, NEW c \in Call, ~At(t, "idle"),
           call' = [call EXCEPT ![t] = c], UNCHANGED <<opened, closed, received, todo, answered>>,
           subscriptions' \subseteq subscriptions, subscriptions \ subscriptions' \subseteq closed,
           c.batch = call[t].batch, Known(c) \subseteq opened, c.sent <= Len(c.batch),
           ShowsRight(c), StreamsRight(c), TailRight(c)
    PROVE  IInv'
<1>0. TypeOK /\ c.pc # "idle" /\ call \in [Threads -> Call \cup {Idle}]
  BY CallUpdates DEF IInv, TypeOK
<1>1. call'[t] = c /\ \A u \in Threads \ {t} : call'[u] = call[u]
  BY <1>0
<1>2. TypeOK'
  <2>1. call' \in [Threads -> Call \cup {Idle}]
    BY <1>0
  <2>2. \A u \in Threads : ~At(u, "idle")' => call'[u].sent <= Len(call'[u].batch)
    BY <1>0, <1>1 DEF TypeOK, At
  <2> QED
    BY <1>0, <2>1, <2>2 DEF TypeOK
<1>3. Owned'
  <2>1. \A u \in Threads : /\ ~At(u, "idle")' => ~At(u, "idle")
                           /\ ~At(u, "idle")' => call'[u].batch = call[u].batch
    BY <1>1 DEF At
  <2> QED
    BY <2>1 DEF IInv, Owned
<1>4. Registered'
  <2>1. opened' \ subscriptions' \subseteq closed'
    BY DEF IInv, Registered
  <2>2. ASSUME NEW u \in Threads, ~At(u, "idle")' PROVE Known(call'[u]) \subseteq opened'
    BY <1>1, <2>2 DEF IInv, Registered, At
  <2> QED
    BY <2>1, <2>2 DEF Registered, Known
<1>5. CallsRight'
  <2>1. ASSUME NEW u \in Threads PROVE ShowsRight(call'[u]) /\ StreamsRight(call'[u])
    BY <1>1 DEF IInv, CallsRight
  <2>2. \A u \in Threads : ShowsRight(call[u])' <=> ShowsRight(call'[u])
    BY DEF ShowsRight, isOpen, Matched
  <2>3. \A u \in Threads : StreamsRight(call[u])' <=> StreamsRight(call'[u])
    BY DEF StreamsRight
  <2> QED
    BY <2>1, <2>2, <2>3 DEF CallsRight
<1>6. TailExact'
  BY <1>2 DEF IInv, TailExact, Matched
<1>7. TailComplete'
  <2> SUFFICES ASSUME NEW u \in Threads, At(u, "stream")'
               PROVE  \A s \in call'[u].there \ call'[u].failed :
                         isOpen(s)' /\ Matched(s, call'[u].batch) # {}
                            => call'[u].batch \in ToSet(received'[s])
    BY DEF TailComplete, Matched
  <2>1. CASE u = t
    BY <1>1, <2>1 DEF TailRight, At, isOpen
  <2>2. CASE u # t
    BY <1>1, <2>2 DEF IInv, TailComplete, At, isOpen
  <2> QED
    BY <2>1, <2>2
<1>8. AckedIsStored'
  BY DEF IInv, AckedIsStored
<1> QED
  BY <1>2, <1>3, <1>4, <1>5, <1>6, <1>7, <1>8 DEF IInv

-----------------------------------------------------------------------------
\* What is known of the call of a thread that has a batch.
LEMMA CallFacts ==
    ASSUME IInv, NEW t \in Threads, ~At(t, "idle")
    PROVE  /\ call[t] \in Call /\ call \in [Threads -> Call \cup {Idle}]
           /\ ShowsRight(call[t]) /\ StreamsRight(call[t]) /\ TailRight(call[t])
           /\ Known(call[t]) \subseteq opened /\ subscriptions \subseteq opened
           /\ opened \subseteq Sessions /\ call[t].sent <= Len(call[t].batch)
<1>1. TypeOK /\ call[t] \in Call
  BY Active DEF IInv
<1>2. TailRight(call[t])
  BY DEF IInv, TailComplete, TailRight, At
<1> QED
  BY <1>1, <1>2 DEF IInv, TypeOK, CallsRight, Registered

\* The iterator comes to a session that is closed.
LEMMA VisitClosedStep ==
    ASSUME IInv, NEW t \in Threads, NEW s \in Sessions, VisitClosed(t, s)
    PROVE  IInv'
<1> DEFINE c == [call[t] EXCEPT !.passed = Passed(t, s)]
<1>0. ~At(t, "idle") /\ call[t].pc = "broadcast"
  BY DEF VisitClosed, At
<1>1. call[t] \in Call /\ call \in [Threads -> Call \cup {Idle}] /\ ShowsRight(call[t])
      /\ StreamsRight(call[t]) /\ Known(call[t]) \subseteq opened /\ subscriptions \subseteq opened
      /\ opened \subseteq Sessions /\ call[t].sent <= Len(call[t].batch)
  BY <1>0, CallFacts
<1>2. Passed(t, s) \in SUBSET Sessions
  BY <1>1 DEF Passed, Known
<1>3. c \in Call
  BY <1>1, <1>2, CallUpdates
<1>4. /\ c.pc = "broadcast" /\ c.batch = call[t].batch /\ c.there = call[t].there
      /\ c.passed = call[t].passed \cup {s} /\ c.failed = call[t].failed /\ c.to = call[t].to
      /\ c.sent = call[t].sent /\ c.stored = call[t].stored /\ c.result = call[t].result
  BY <1>0, <1>1 DEF Call, Passed
<1>5. s \in opened /\ s \in closed
  BY <1>1 DEF VisitClosed, Ahead, Known, isOpen
<1>6. Known(c) \subseteq opened
  BY <1>1, <1>4, <1>5 DEF Known
<1>7. ShowsRight(c) /\ TailRight(c) /\ StreamsRight(c)
  BY <1>0, <1>1, <1>4, <1>5 DEF ShowsRight, TailRight, StreamsRight, isOpen
<1>8. /\ call' = [call EXCEPT ![t] = c] /\ UNCHANGED <<opened, closed, received, todo, answered>>
      /\ subscriptions' \subseteq subscriptions /\ subscriptions \ subscriptions' \subseteq closed
  BY <1>5 DEF VisitClosed
<1> HIDE DEF c
<1> QED
  BY <1>0, <1>1, <1>3, <1>4, <1>6, <1>7, <1>8, CallStep

\* The iterator comes to a session that does not want the batch.
LEMMA VisitUnmatchedStep ==
    ASSUME IInv, NEW t \in Threads, NEW s \in Sessions, VisitUnmatched(t, s)
    PROVE  IInv'
<1> DEFINE c == [call[t] EXCEPT !.passed = Passed(t, s)]
<1>0. ~At(t, "idle") /\ call[t].pc = "broadcast"
  BY DEF VisitUnmatched, At
<1>1. call[t] \in Call /\ call \in [Threads -> Call \cup {Idle}] /\ ShowsRight(call[t])
      /\ StreamsRight(call[t]) /\ Known(call[t]) \subseteq opened /\ subscriptions \subseteq opened
      /\ opened \subseteq Sessions /\ call[t].sent <= Len(call[t].batch)
  BY <1>0, CallFacts
<1>2. Passed(t, s) \in SUBSET Sessions
  BY <1>1 DEF Passed, Known
<1>3. c \in Call
  BY <1>1, <1>2, CallUpdates
<1>4. /\ c.pc = "broadcast" /\ c.batch = call[t].batch /\ c.there = call[t].there
      /\ c.passed = call[t].passed \cup {s} /\ c.failed = call[t].failed /\ c.to = call[t].to
      /\ c.sent = call[t].sent /\ c.stored = call[t].stored /\ c.result = call[t].result
  BY <1>0, <1>1 DEF Call, Passed
<1>5. s \in opened /\ Matched(s, call[t].batch) = {}
  BY <1>1 DEF VisitUnmatched, Ahead, Known, isOpen
<1>6. Known(c) \subseteq opened
  BY <1>1, <1>4, <1>5 DEF Known
<1>7. ShowsRight(c) /\ TailRight(c) /\ StreamsRight(c)
  BY <1>0, <1>1, <1>4, <1>5 DEF ShowsRight, TailRight, StreamsRight, isOpen
<1>8. call' = [call EXCEPT ![t] = c] /\ UNCHANGED <<sessionVars, todo, answered>>
  BY DEF VisitUnmatched
<1> HIDE DEF c
<1> QED
  BY <1>0, <1>1, <1>3, <1>4, <1>6, <1>7, <1>8, CallStep DEF sessionVars

\* A thread begins to send to a session it has not come to before.
LEMMA StartSendStep ==
    ASSUME IInv, NEW t \in Threads, NEW s \in Sessions, StartSend(t, s)
    PROVE  IInv'
<1> DEFINE c == [call[t] EXCEPT !.pc = "send", !.to = {s}]
<1>0. ~At(t, "idle") /\ call[t].pc = "broadcast"
  BY DEF StartSend, At
<1>1. call[t] \in Call /\ call \in [Threads -> Call \cup {Idle}] /\ ShowsRight(call[t])
      /\ StreamsRight(call[t]) /\ Known(call[t]) \subseteq opened /\ subscriptions \subseteq opened
      /\ call[t].sent <= Len(call[t].batch)
  BY <1>0, CallFacts
<1>3. c \in Call
  BY <1>1, CallUpdates
<1>4. /\ c.pc = "send" /\ c.batch = call[t].batch /\ c.there = call[t].there
      /\ c.passed = call[t].passed /\ c.failed = call[t].failed /\ c.to = {s}
      /\ c.sent = call[t].sent /\ c.stored = call[t].stored /\ c.result = call[t].result
  BY <1>0, <1>1 DEF Call
<1>5. s \in opened /\ s \notin call[t].passed /\ Matched(s, call[t].batch) # {}
  BY <1>1 DEF StartSend, Ahead, Known, isOpen
<1>6. Known(c) \subseteq opened
  BY <1>1, <1>4, <1>5 DEF Known
<1>7. ShowsRight(c) /\ TailRight(c) /\ StreamsRight(c)
  BY <1>0, <1>1, <1>4, <1>5 DEF ShowsRight, TailRight, StreamsRight, isOpen
<1>8. call' = [call EXCEPT ![t] = c] /\ UNCHANGED <<sessionVars, todo, answered>>
  BY DEF StartSend
<1> HIDE DEF c
<1> QED
  BY <1>0, <1>1, <1>3, <1>4, <1>6, <1>7, <1>8, CallStep DEF sessionVars

\* A thread goes on to a place where nothing more is promised: it has thrown,
\* or it stops waiting.
LEMMA LeaveStep ==
    ASSUME IInv, NEW t \in Threads, ~At(t, "idle"), NEW pc \in {"threw", "done"}, Goto(t, pc),
           UNCHANGED <<sessionVars, todo, answered>>
    PROVE  IInv'
<1> DEFINE c == [call[t] EXCEPT !.pc = pc]
<1>1. call[t] \in Call /\ call \in [Threads -> Call \cup {Idle}] /\ StreamsRight(call[t])
      /\ Known(call[t]) \subseteq opened /\ call[t].sent <= Len(call[t].batch)
  BY CallFacts
<1>3. c \in Call
  BY <1>1, CallUpdates
<1>4. /\ c.pc = pc /\ c.batch = call[t].batch /\ c.there = call[t].there
      /\ c.passed = call[t].passed /\ c.failed = call[t].failed /\ c.to = call[t].to
      /\ c.sent = call[t].sent /\ c.stored = call[t].stored /\ c.result = call[t].result
  BY <1>1 DEF Call
<1>6. Known(c) \subseteq opened
  BY <1>1, <1>4 DEF Known
<1>7. ShowsRight(c) /\ TailRight(c) /\ StreamsRight(c)
  BY <1>1, <1>4 DEF ShowsRight, TailRight, StreamsRight, At
<1>8. call' = [call EXCEPT ![t] = c]
  BY DEF Goto
<1> HIDE DEF c
<1> QED
  BY <1>1, <1>3, <1>4, <1>6, <1>7, <1>8, CallStep DEF sessionVars

\* Sending fails with an IOException, and the iterator goes on.
LEMMA SendFailsStep ==
    ASSUME IInv, NEW t \in Threads, NEW s \in Sessions, At(t, "send"), s \in call[t].to,
           call' = [call EXCEPT ![t] = [@ EXCEPT !.pc = "broadcast", !.to = {},
                                        !.passed = Passed(t, s), !.failed = Failed(t, s)]],
           UNCHANGED <<sessionVars, todo, answered>>
    PROVE  IInv'
<1> DEFINE c == [call[t] EXCEPT !.pc = "broadcast", !.to = {}, !.passed = Passed(t, s),
                                !.failed = Failed(t, s)]
<1>0. ~At(t, "idle") /\ call[t].pc = "send"
  BY DEF At
<1>1. call[t] \in Call /\ call \in [Threads -> Call \cup {Idle}] /\ ShowsRight(call[t])
      /\ StreamsRight(call[t]) /\ Known(call[t]) \subseteq opened
      /\ opened \subseteq Sessions /\ call[t].sent <= Len(call[t].batch)
  BY <1>0, CallFacts
<1>2. Passed(t, s) \in SUBSET Sessions /\ Failed(t, s) \in SUBSET Sessions
  BY <1>1 DEF Passed, Failed, Known, Call
<1>3. c \in Call
  BY <1>1, <1>2, CallUpdates
<1>4. /\ c.pc = "broadcast" /\ c.batch = call[t].batch /\ c.there = call[t].there
      /\ c.passed = call[t].passed \cup {s} /\ c.failed = call[t].failed \cup {s} /\ c.to = {}
      /\ c.sent = call[t].sent /\ c.stored = call[t].stored /\ c.result = call[t].result
  BY <1>0, <1>1 DEF Call, Passed, Failed
<1>6. Known(c) \subseteq opened
  BY <1>1, <1>4 DEF Known
<1>7. ShowsRight(c) /\ TailRight(c) /\ StreamsRight(c)
  BY <1>0, <1>1, <1>4 DEF ShowsRight, TailRight, StreamsRight, isOpen
<1>8. call' = [call EXCEPT ![t] = c]
  OBVIOUS
<1> HIDE DEF c
<1> QED
  BY <1>0, <1>1, <1>3, <1>4, <1>6, <1>7, <1>8, CallStep DEF sessionVars

\* The iterator is at its end: what it has not passed is closed, since only
\* closed sessions leave the map.
LEMMA EndBroadcastStep ==
    ASSUME IInv, NEW t \in Threads, EndBroadcast(t)
    PROVE  IInv'
<1> DEFINE c == [call[t] EXCEPT !.pc = "stream"]
<1>0. ~At(t, "idle") /\ call[t].pc = "broadcast"
  BY DEF EndBroadcast, At
<1>1. call[t] \in Call /\ call \in [Threads -> Call \cup {Idle}] /\ ShowsRight(call[t])
      /\ StreamsRight(call[t]) /\ Known(call[t]) \subseteq opened /\ opened \subseteq Sessions
      /\ call[t].sent <= Len(call[t].batch)
  BY <1>0, CallFacts
<1>3. c \in Call
  BY <1>1, CallUpdates
<1>4. /\ c.pc = "stream" /\ c.batch = call[t].batch /\ c.there = call[t].there
      /\ c.passed = call[t].passed /\ c.failed = call[t].failed /\ c.to = call[t].to
      /\ c.sent = call[t].sent /\ c.stored = call[t].stored /\ c.result = call[t].result
  BY <1>0, <1>1 DEF Call
<1>5. \A s \in call[t].there : isOpen(s) => s \in call[t].passed
  BY <1>1 DEF EndBroadcast, Ahead, IInv, Registered, Known, isOpen
<1>6. Known(c) \subseteq opened
  BY <1>1, <1>4 DEF Known
<1>7. TailRight(c)
  <2> SUFFICES ASSUME NEW s \in call[t].there \ call[t].failed, isOpen(s),
                      Matched(s, call[t].batch) # {}
               PROVE  call[t].batch \in ToSet(received[s])
    BY <1>4 DEF TailRight
  <2>1. s \in call[t].passed \ call[t].failed /\ s \in Sessions
    BY <1>1, <1>5 DEF Known
  <2> QED
    BY <1>0, <1>1, <2>1 DEF ShowsRight
<1>8. ShowsRight(c) /\ StreamsRight(c)
  BY <1>0, <1>1, <1>4 DEF ShowsRight, StreamsRight, isOpen
<1>9. call' = [call EXCEPT ![t] = c] /\ UNCHANGED <<sessionVars, todo, answered>>
  BY DEF EndBroadcast, Goto
<1> HIDE DEF c
<1> QED
  BY <1>0, <1>1, <1>3, <1>4, <1>6, <1>7, <1>8, <1>9, CallStep DEF sessionVars

\* The end of a chunk is in the batch, and after its beginning.
LEMMA ChunkEnds ==
    ASSUME TypeOK, NEW t \in Threads, ~At(t, "idle"), NEW n \in Nat, n < Len(call[t].batch)
    PROVE  ChunkEnd(t, n) \in Nat /\ n < ChunkEnd(t, n) /\ ChunkEnd(t, n) <= Len(call[t].batch)
<1>1. Len(call[t].batch) \in Nat /\ batchSize \in Nat \ {0}
  BY Active, PushAssumption, LenProperties
<1> QED
  BY <1>1 DEF ChunkEnd

\* The next chunk goes out.
LEMMA SendChunkStep ==
    ASSUME IInv, NEW t \in Threads, SendChunk(t)
    PROVE  IInv'
<1> DEFINE n == ChunkEnd(t, call[t].sent)
           c == [call[t] EXCEPT !.sent = n, !.there = {}, !.passed = {}, !.failed = {}]
<1>0. ~At(t, "idle") /\ call[t].pc = "stream" /\ TypeOK
  BY DEF SendChunk, At, IInv
<1>1. call[t] \in Call /\ call \in [Threads -> Call \cup {Idle}]
      /\ StreamsRight(call[t]) /\ Known(call[t]) \subseteq opened
  BY <1>0, CallFacts
<1>2. n \in Nat /\ n <= Len(call[t].batch)
  <2>1. call[t].sent \in Nat /\ call[t].sent < Len(call[t].batch)
    <3>1. Len(call[t].batch) \in Nat /\ call[t].sent \in Nat
      BY <1>0, Active, LenProperties
    <3> QED
      BY <3>1 DEF SendChunk, AllSent
  <2> QED
    BY <1>0, <2>1, ChunkEnds
<1>9. call' = [call EXCEPT ![t] = c] /\ UNCHANGED <<sessionVars, todo, answered>>
  BY DEF SendChunk
<1> HIDE DEF n
<1>3. c \in Call
  BY <1>1, <1>2, CallUpdates
<1>4. /\ c.pc = "stream" /\ c.batch = call[t].batch /\ c.there = {}
      /\ c.passed = {} /\ c.failed = {} /\ c.to = call[t].to
      /\ c.sent = n /\ c.stored = call[t].stored /\ c.result = call[t].result
  BY <1>0, <1>1 DEF Call
<1>6. Known(c) \subseteq opened
  BY <1>1, <1>4 DEF Known
<1>7. ShowsRight(c) /\ TailRight(c) /\ StreamsRight(c)
  BY <1>0, <1>1, <1>4 DEF ShowsRight, StreamsRight, TailRight
<1> HIDE DEF c
<1> QED
  BY <1>0, <1>1, <1>2, <1>3, <1>4, <1>6, <1>7, <1>9, CallStep DEF sessionVars

\* The core takes in the chunk that follows what it has.
LEMMA CoreReadsStep ==
    ASSUME IInv, NEW t \in Threads, CoreReads(t)
    PROVE  IInv'
<1> DEFINE n == Len(call[t].stored)
           e == ChunkEnd(t, n)
           r == call[t].stored \o SubSeq(call[t].batch, n + 1, e)
           c == [call[t] EXCEPT !.stored = r]
<1>0. ~At(t, "idle") /\ call[t].pc \in {"stream", "await"} /\ TypeOK
  BY DEF CoreReads, At, IInv
<1>1. call[t] \in Call /\ call \in [Threads -> Call \cup {Idle}] /\ ShowsRight(call[t])
      /\ StreamsRight(call[t]) /\ TailRight(call[t]) /\ Known(call[t]) \subseteq opened
      /\ call[t].sent <= Len(call[t].batch)
  BY <1>0, CallFacts
<1>2. call[t].batch \in Seq(Lines) /\ call[t].stored \in Seq(Lines) /\ call[t].sent \in Nat
      /\ Len(call[t].batch) \in Nat /\ n \in Nat
  BY <1>0, <1>1, Active, LenProperties DEF Call
<1>3. n < Len(call[t].batch)
  <2>1. n < call[t].sent
    BY DEF CoreReads
  <2> HIDE DEF n
  <2> QED
    BY <1>1, <1>2, <2>1
<1>4. e \in Nat /\ n < e /\ e <= Len(call[t].batch)
  BY <1>0, <1>2, <1>3, ChunkEnds
<1>5. r = SubSeq(call[t].batch, 1, e)
  <2>1. call[t].stored = SubSeq(call[t].batch, 1, n)
    BY <1>0, <1>1 DEF StreamsRight
  <2> HIDE DEF n, e
  <2>2. SubSeq(call[t].batch, 1, n) \o SubSeq(call[t].batch, n + 1, e) = SubSeq(call[t].batch, 1, e)
    BY <1>2, <1>4, ConcatAdjacentSubSeq
  <2> QED
    BY <2>1, <2>2
<1>6. r \in Seq(Lines) /\ Len(r) = e
  <2> HIDE DEF e, r
  <2> QED
    BY <1>2, <1>4, <1>5, SubSeqProperties
<1>7. call' = [call EXCEPT ![t] = c] /\ UNCHANGED <<sessionVars, todo, answered>>
  BY DEF CoreReads
<1>8. call[t].result = "success" => call[t].stored = call[t].batch
  BY <1>0, <1>1 DEF StreamsRight
<1>9. call[t].result # "success"
  BY <1>2, <1>3, <1>8
<1> HIDE DEF n, e, r
<1>10. c \in Call
  BY <1>1, <1>6, CallUpdates
<1>11. /\ c.pc = call[t].pc /\ c.batch = call[t].batch /\ c.there = call[t].there
       /\ c.passed = call[t].passed /\ c.failed = call[t].failed /\ c.to = call[t].to
       /\ c.sent = call[t].sent /\ c.stored = r /\ c.result = call[t].result
  BY <1>0, <1>1 DEF Call
<1>12. Known(c) \subseteq opened
  BY <1>1, <1>11 DEF Known
<1> HIDE DEF c
<1>13. ShowsRight(c) /\ TailRight(c)
  BY <1>0, <1>1, <1>11 DEF ShowsRight, TailRight
<1>14. StreamsRight(c)
  BY <1>0, <1>1, <1>4, <1>5, <1>6, <1>9, <1>11 DEF StreamsRight
<1> QED
  BY <1>0, <1>1, <1>7, <1>10, <1>11, <1>12, <1>13, <1>14, CallStep DEF sessionVars

\* The last chunk is out, and the thread waits.
LEMMA CompleteStep ==
    ASSUME IInv, NEW t \in Threads, Complete(t)
    PROVE  IInv'
<1> DEFINE c == [call[t] EXCEPT !.pc = "await"]
<1>0. ~At(t, "idle") /\ call[t].pc = "stream" /\ TypeOK
  BY DEF Complete, At, IInv
<1>1. call[t] \in Call /\ call \in [Threads -> Call \cup {Idle}]
      /\ StreamsRight(call[t]) /\ Known(call[t]) \subseteq opened
      /\ call[t].sent <= Len(call[t].batch)
  BY <1>0, CallFacts
<1>2. call[t].sent = Len(call[t].batch)
  <2>1. call[t].sent \in Nat /\ Len(call[t].batch) \in Nat
    BY <1>0, Active, LenProperties
  <2> QED
    BY <1>1, <2>1 DEF Complete, AllSent
<1>3. c \in Call
  BY <1>1, CallUpdates
<1>4. /\ c.pc = "await" /\ c.batch = call[t].batch /\ c.there = call[t].there
      /\ c.passed = call[t].passed /\ c.failed = call[t].failed /\ c.to = call[t].to
      /\ c.sent = call[t].sent /\ c.stored = call[t].stored /\ c.result = call[t].result
  BY <1>0, <1>1 DEF Call
<1>6. Known(c) \subseteq opened
  BY <1>1, <1>4 DEF Known
<1>7. ShowsRight(c) /\ TailRight(c) /\ StreamsRight(c)
  BY <1>0, <1>1, <1>2, <1>4 DEF ShowsRight, StreamsRight, TailRight
<1>8. call' = [call EXCEPT ![t] = c] /\ UNCHANGED <<sessionVars, todo, answered>>
  BY DEF Complete, Goto
<1> HIDE DEF c
<1> QED
  BY <1>0, <1>1, <1>3, <1>4, <1>6, <1>7, <1>8, CallStep DEF sessionVars

\* Staging fails, or sending a chunk.
LEMMA StagingFailsStep ==
    ASSUME IInv, NEW t \in Threads, StagingFails(t)
    PROVE  IInv'
<1> DEFINE c == [call[t] EXCEPT !.pc = "done", !.result = "failure"]
<1>0. ~At(t, "idle") /\ call[t].pc = "stream"
  BY DEF StagingFails, At
<1>1. call[t] \in Call /\ call \in [Threads -> Call \cup {Idle}]
      /\ StreamsRight(call[t]) /\ Known(call[t]) \subseteq opened
      /\ call[t].sent <= Len(call[t].batch)
  BY <1>0, CallFacts
<1>3. c \in Call
  BY <1>1, CallUpdates
<1>4. /\ c.pc = "done" /\ c.batch = call[t].batch /\ c.there = call[t].there
      /\ c.passed = call[t].passed /\ c.failed = call[t].failed /\ c.to = call[t].to
      /\ c.sent = call[t].sent /\ c.stored = call[t].stored /\ c.result = "failure"
  BY <1>0, <1>1 DEF Call
<1>6. Known(c) \subseteq opened
  BY <1>1, <1>4 DEF Known
<1>7. ShowsRight(c) /\ TailRight(c) /\ StreamsRight(c)
  BY <1>0, <1>1, <1>4 DEF ShowsRight, StreamsRight, TailRight
<1>8. call' = [call EXCEPT ![t] = c] /\ UNCHANGED <<sessionVars, todo, answered>>
  BY DEF StagingFails
<1> HIDE DEF c
<1> QED
  BY <1>0, <1>1, <1>3, <1>4, <1>6, <1>7, <1>8, CallStep DEF sessionVars

\* The core answers when it has read as many lines as were sent: all of them.
LEMMA CoreAnswersStep ==
    ASSUME IInv, NEW t \in Threads, CoreAnswers(t)
    PROVE  IInv'
<1> DEFINE c == [call[t] EXCEPT !.result = "success"]
<1>0. ~At(t, "idle") /\ call[t].pc = "await" /\ TypeOK
  BY DEF CoreAnswers, At, IInv
<1>1. call[t] \in Call /\ call \in [Threads -> Call \cup {Idle}]
      /\ StreamsRight(call[t]) /\ Known(call[t]) \subseteq opened
      /\ call[t].sent <= Len(call[t].batch)
  BY <1>0, CallFacts
<1>2. call[t].stored = call[t].batch
  <2>1. call[t].stored = SubSeq(call[t].batch, 1, Len(call[t].batch))
    BY <1>0, <1>1 DEF StreamsRight, CoreAnswers
  <2>2. call[t].batch \in Seq(Lines)
    BY <1>0, Active
  <2> QED
    BY <2>1, <2>2, SubSeqFull
<1>3. c \in Call
  BY <1>1, CallUpdates
<1>4. /\ c.pc = "await" /\ c.batch = call[t].batch /\ c.there = call[t].there
      /\ c.passed = call[t].passed /\ c.failed = call[t].failed /\ c.to = call[t].to
      /\ c.sent = call[t].sent /\ c.stored = call[t].stored /\ c.result = "success"
  BY <1>0, <1>1 DEF Call
<1>6. Known(c) \subseteq opened
  BY <1>1, <1>4 DEF Known
<1>7. ShowsRight(c) /\ TailRight(c) /\ StreamsRight(c)
  BY <1>0, <1>1, <1>2, <1>4 DEF ShowsRight, StreamsRight, TailRight
<1>8. call' = [call EXCEPT ![t] = c] /\ UNCHANGED <<sessionVars, todo, answered>>
  BY DEF CoreAnswers
<1> HIDE DEF c
<1> QED
  BY <1>0, <1>1, <1>3, <1>4, <1>6, <1>7, <1>8, CallStep DEF sessionVars

\* What one more element does to a sequence.
LEMMA Appended ==
    ASSUME NEW S, NEW r \in Seq(S), NEW b \in S
    PROVE  /\ Append(r, b) \in Seq(S) /\ ToSet(Append(r, b)) = ToSet(r) \cup {b}
           /\ IsInjective(r) /\ b \notin ToSet(r) => IsInjective(Append(r, b))
<1> DEFINE a == Append(r, b)
<1>1. /\ a \in Seq(S) /\ Len(a) = Len(r) + 1 /\ \A i \in 1..Len(r) : a[i] = r[i]
      /\ a[Len(r) + 1] = b
  BY AppendProperties
<1>2. Len(r) \in Nat /\ DOMAIN r = 1..Len(r) /\ DOMAIN a = 1..Len(r) + 1
  BY <1>1, LenProperties
<1> HIDE DEF a
<1>3. ToSet(a) = ToSet(r) \cup {b}
  <2>1. DOMAIN a = DOMAIN r \cup {Len(r) + 1} /\ Len(r) + 1 \in DOMAIN a
    BY <1>2
  <2> QED
    BY <1>1, <1>2, <2>1 DEF ToSet
<1>4. ASSUME IsInjective(r), b \notin ToSet(r) PROVE IsInjective(a)
  <2>1. \A i, j \in DOMAIN r : r[i] = r[j] => i = j
    BY <1>4 DEF IsInjective
  <2>2. \A i \in DOMAIN r : r[i] # b
    BY <1>4 DEF ToSet
  <2> SUFFICES ASSUME NEW i \in DOMAIN a, NEW j \in DOMAIN a, a[i] = a[j] PROVE i = j
    BY DEF IsInjective
  <2> QED
    BY <1>1, <1>2, <2>1, <2>2
<1> QED
  BY <1>1, <1>3, <1>4 DEF a

\* The message is sent: the session has one batch more, which no other thread
\* has, and which it did not have before.
LEMMA SentStep ==
    ASSUME IInv, NEW t \in Threads, NEW s \in Sessions, At(t, "send"), s \in call[t].to,
           received' = [received EXCEPT ![s] = Append(@, call[t].batch)],
           call' = [call EXCEPT ![t] = [@ EXCEPT !.pc = "broadcast", !.to = {}, !.passed = Passed(t, s)]],
           UNCHANGED <<opened, closed, subscriptions, todo, answered>>
    PROVE  IInv'
<1> DEFINE b == call[t].batch
           c == [call[t] EXCEPT !.pc = "broadcast", !.to = {}, !.passed = Passed(t, s)]
<1>0. ~At(t, "idle") /\ call[t].pc = "send" /\ TypeOK
  BY DEF At, IInv
<1>1. call[t] \in Call /\ call \in [Threads -> Call \cup {Idle}] /\ ShowsRight(call[t])
      /\ StreamsRight(call[t]) /\ Known(call[t]) \subseteq opened
      /\ opened \subseteq Sessions /\ call[t].sent <= Len(call[t].batch)
  BY <1>0, CallFacts
<1>2. Passed(t, s) \in SUBSET Sessions
  BY <1>1 DEF Passed, Known
<1>3. c \in Call
  BY <1>1, <1>2, CallUpdates
<1>4. /\ c.pc = "broadcast" /\ c.batch = b /\ c.there = call[t].there
      /\ c.passed = call[t].passed \cup {s} /\ c.failed = call[t].failed /\ c.to = {}
      /\ c.sent = call[t].sent /\ c.stored = call[t].stored /\ c.result = call[t].result
  BY <1>0, <1>1 DEF Call, Passed
<1>5. call' = [call EXCEPT ![t] = c]
  OBVIOUS
<1> HIDE DEF c
<1>6. call'[t] = c /\ \A u \in Threads \ {t} : call'[u] = call[u]
  BY <1>1, <1>5
<1>7. b \in Batches /\ b \notin todo /\ Matched(s, b) # {} /\ b \notin ToSet(received[s])
  <2>1. b \in Batches /\ b \notin todo
    BY <1>0, <1>1 DEF IInv, Owned, Call
  <2>2. s \notin call[t].passed /\ Matched(s, b) # {}
    BY <1>0, <1>1 DEF ShowsRight
  <2> QED
    BY <1>0, <1>1, <2>1, <2>2 DEF ShowsRight
<1>8. received \in [Sessions -> Seq(Batches)]
  BY <1>0 DEF TypeOK
<1>9. /\ received' \in [Sessions -> Seq(Batches)]
      /\ \A x \in Sessions : ToSet(received'[x]) = ToSet(received[x]) \cup IF x = s THEN {b} ELSE {}
      /\ \A x \in Sessions : IsInjective(received'[x])
  <2>0. IsInjective(received[s]) /\ \A x \in Sessions : IsInjective(received[x])
    BY DEF IInv, TailExact
  <2>1. /\ Append(received[s], b) \in Seq(Batches)
        /\ ToSet(Append(received[s], b)) = ToSet(received[s]) \cup {b}
        /\ IsInjective(Append(received[s], b))
    BY <1>7, <1>8, <2>0, Appended
  <2>2. received'[s] = Append(received[s], b) /\ \A x \in Sessions \ {s} : received'[x] = received[x]
    BY <1>8
  <2>3. received' \in [Sessions -> Seq(Batches)]
    BY <1>8, <2>1
  <2> QED
    BY <2>0, <2>1, <2>2, <2>3
<1>10. TypeOK'
  <2>1. call' \in [Threads -> Call \cup {Idle}]
    BY <1>1, <1>3, <1>5
  <2>2. \A u \in Threads : ~At(u, "idle")' => call'[u].sent <= Len(call'[u].batch)
    BY <1>0, <1>1, <1>4, <1>6 DEF TypeOK, At
  <2> QED
    BY <1>0, <1>9, <2>1, <2>2 DEF TypeOK
<1>11. Owned'
  <2>1. \A u \in Threads : /\ ~At(u, "idle")' => ~At(u, "idle")
                           /\ ~At(u, "idle")' => call'[u].batch = call[u].batch
    BY <1>0, <1>4, <1>6 DEF At
  <2>2. \A x \in Sessions : \A y \in ToSet(received'[x]) : y \notin todo'
    BY <1>7, <1>9 DEF IInv, Owned
  <2> QED
    BY <2>1, <2>2 DEF IInv, Owned
<1>12. Registered'
  <2>1. opened' \ subscriptions' \subseteq closed'
    BY DEF IInv, Registered
  <2>2. Known(c) \subseteq opened
    BY <1>1, <1>4 DEF Known
  <2>3. ASSUME NEW u \in Threads, ~At(u, "idle")' PROVE Known(call'[u]) \subseteq opened'
    BY <1>6, <2>2, <2>3 DEF IInv, Registered, At
  <2> QED
    BY <2>1, <2>3 DEF Registered, Known
<1>13. CallsRight'
  <2> SUFFICES ASSUME NEW u \in Threads PROVE ShowsRight(call[u])' /\ StreamsRight(call[u])'
    BY DEF CallsRight
  <2>1. CASE u = t
    <3>1. StreamsRight(call[u])'
      BY <1>0, <1>1, <1>4, <1>6, <2>1 DEF StreamsRight
    <3>2. \A x \in Sessions :
            /\ b \in ToSet(received'[x]) => x \in c.passed
            /\ x \in c.passed \ c.failed /\ isOpen(x) /\ Matched(x, b) # {} => b \in ToSet(received'[x])
      BY <1>0, <1>1, <1>4, <1>9 DEF ShowsRight
    <3> QED
      BY <1>4, <1>6, <2>1, <3>1, <3>2 DEF ShowsRight, isOpen, Matched
  <2>2. CASE u # t
    <3>1. ShowsRight(call[u]) /\ StreamsRight(call[u]) /\ call'[u] = call[u]
      BY <1>6, <2>2 DEF IInv, CallsRight
    <3>2. CASE call[u].pc \in {"broadcast", "send"}
      <4>1. call[u].batch # b
        BY <1>0, <2>2, <3>2 DEF IInv, Owned, At
      <4>2. \A x \in Sessions : call[u].batch \in ToSet(received'[x]) <=> call[u].batch \in ToSet(received[x])
        BY <1>9, <4>1
      <4> QED
        BY <3>1, <4>2 DEF ShowsRight, StreamsRight, isOpen, Matched
    <3>3. CASE call[u].pc \notin {"broadcast", "send"}
      BY <3>1, <3>3 DEF ShowsRight, StreamsRight
    <3> QED
      BY <3>2, <3>3
  <2> QED
    BY <2>1, <2>2
<1>14. TailExact'
  <2>1. \A x \in Sessions : \A y \in ToSet(received'[x]) : Matched(x, y) # {}
    BY <1>7, <1>9 DEF IInv, TailExact
  <2> QED
    BY <1>9, <1>10, <2>1 DEF TailExact, Matched
<1>15. TailComplete'
  <2> SUFFICES ASSUME NEW u \in Threads, At(u, "stream")',
                      NEW x \in call'[u].there \ call'[u].failed,
                      isOpen(x)', Matched(x, call'[u].batch) # {}
               PROVE  call'[u].batch \in ToSet(received'[x])
    BY DEF TailComplete, Matched
  <2>1. u # t /\ call'[u] = call[u]
    BY <1>4, <1>6 DEF At
  <2>2. x \in Sessions
    BY <2>1, <1>1 DEF IInv, Registered, Known, At
  <2>3. call[u].batch \in ToSet(received[x])
    BY <2>1 DEF IInv, TailComplete, At, isOpen
  <2> QED
    BY <1>9, <2>1, <2>2, <2>3
<1>16. AckedIsStored'
  BY DEF IInv, AckedIsStored
<1> QED
  BY <1>10, <1>11, <1>12, <1>13, <1>14, <1>15, <1>16 DEF IInv

\* sendMessage comes back.
LEMMA EndSendStep ==
    ASSUME IInv, NEW t \in Threads, NEW s \in Sessions, EndSend(t, s)
    PROVE  IInv'
<1>1. CASE isOpen(s) /\ received' = [received EXCEPT ![s] = Append(@, call[t].batch)]
           /\ call' = [call EXCEPT ![t] = [@ EXCEPT !.pc = "broadcast", !.to = {}, !.passed = Passed(t, s)]]
  BY <1>1, SentStep DEF EndSend
<1>2. CASE call' = [call EXCEPT ![t] = [@ EXCEPT !.pc = "broadcast", !.to = {},
                                        !.passed = Passed(t, s), !.failed = Failed(t, s)]]
           /\ UNCHANGED received
  BY <1>2, SendFailsStep DEF EndSend, sessionVars
<1>3. CASE ~isOpen(s) /\ Goto(t, "threw") /\ UNCHANGED received
  <2>1. ~At(t, "idle")
    BY DEF EndSend, At
  <2> QED
    BY <1>3, <2>1, LeaveStep DEF EndSend, sessionVars
<1> QED
  BY <1>1, <1>2, <1>3 DEF EndSend

-----------------------------------------------------------------------------
\* A thread takes a batch nobody has had before.
LEMMA BeginStep ==
    ASSUME IInv, NEW t \in Threads, NEW batch \in Batches, Begin(t, batch)
    PROVE  IInv'
<1> DEFINE c == [pc |-> FirstStep(batch), batch |-> batch, there |-> subscriptions, passed |-> {},
                 failed |-> {}, to |-> {}, sent |-> 0, stored |-> <<>>,
                 result |-> IF batch = <<>> THEN "success" ELSE "null"]
<1>0. TypeOK /\ call[t].pc = "idle" /\ batch \in todo /\ todo' = todo \ {batch}
      /\ call' = [call EXCEPT ![t] = c] /\ UNCHANGED <<opened, closed, subscriptions, received, answered>>
  BY DEF IInv, Begin, At, sessionVars
<1>1. call \in [Threads -> Call \cup {Idle}] /\ subscriptions \subseteq opened
      /\ opened \subseteq Sessions /\ subscriptions \in SUBSET Sessions
  BY <1>0 DEF TypeOK
<1>2. /\ FirstStep(batch) \in {"done", "stream", "broadcast"}
      /\ FirstStep(batch) = "stream" => subscriptions = {}
  BY DEF FirstStep
<1>3. batch \in Seq(Lines) /\ Len(batch) \in Nat /\ <<>> \in Seq(Lines) /\ Len(<<>>) = 0
      /\ SubSeq(batch, 1, 0) = <<>>
  BY PushAssumption, LenProperties
<1>4. c \in Call
  BY <1>1, <1>2, <1>3 DEF Call
<1>5. /\ c.pc \in {"done", "stream", "broadcast"} /\ (c.pc = "stream" => c.there = {})
      /\ c.batch = batch /\ c.there = subscriptions /\ c.passed = {} /\ c.failed = {} /\ c.to = {}
      /\ c.sent = 0 /\ c.stored = <<>> /\ (c.result = "success" => batch = <<>>)
  BY <1>2
<1> HIDE DEF c
<1>6. call'[t] = c /\ \A u \in Threads \ {t} : call'[u] = call[u]
  BY <1>0, <1>1
<1>7. TypeOK'
  <2>1. call' \in [Threads -> Call \cup {Idle}]
    BY <1>0, <1>1, <1>4
  <2>2. \A u \in Threads : ~At(u, "idle")' => call'[u].sent <= Len(call'[u].batch)
    BY <1>0, <1>3, <1>5, <1>6 DEF TypeOK, At
  <2> QED
    BY <1>0, <2>1, <2>2 DEF TypeOK
<1>8. Owned'
  <2>1. \A u \in Threads \ {t} : /\ ~At(u, "idle")' <=> ~At(u, "idle")
                                 /\ call'[u].batch = call[u].batch
    BY <1>6 DEF At
  <2>2. \A u \in Threads \ {t} : ~At(u, "idle")' => call'[u].batch # batch
    BY <1>0, <2>1 DEF IInv, Owned
  <2>3. \A u, v \in Threads : u # v /\ ~At(u, "idle")' /\ ~At(v, "idle")' => call'[u].batch # call'[v].batch
    BY <1>5, <1>6, <2>1, <2>2 DEF IInv, Owned
  <2>4. \A u \in Threads : ~At(u, "idle")' => call'[u].batch \notin todo'
    BY <1>0, <1>5, <1>6, <2>1 DEF IInv, Owned
  <2>5. \A s \in Sessions : \A b \in ToSet(received'[s]) : b \notin todo'
    BY <1>0 DEF IInv, Owned
  <2> QED
    BY <2>3, <2>4, <2>5 DEF Owned
<1>9. Registered'
  <2>1. opened' \ subscriptions' \subseteq closed'
    BY <1>0 DEF IInv, Registered
  <2>2. Known(c) \subseteq opened
    BY <1>1, <1>5 DEF Known
  <2>3. ASSUME NEW u \in Threads, ~At(u, "idle")' PROVE Known(call'[u]) \subseteq opened'
    BY <1>0, <1>6, <2>2, <2>3 DEF IInv, Registered, At
  <2> QED
    BY <2>1, <2>3 DEF Registered, Known
<1>10. CallsRight'
  <2> SUFFICES ASSUME NEW u \in Threads PROVE ShowsRight(call[u])' /\ StreamsRight(call[u])'
    BY DEF CallsRight
  <2>1. CASE u = t
    <3>1. \A s \in Sessions : batch \notin ToSet(received'[s])
      BY <1>0 DEF IInv, Owned
    <3>2. ShowsRight(call[u])'
      BY <1>5, <1>6, <2>1, <3>1 DEF ShowsRight, isOpen, Matched
    <3>3. StreamsRight(call[u])'
      <4>1. Len(c.stored) = 0 /\ Len(c.stored) <= Len(c.batch) /\ c.pc # "await"
            /\ (c.result = "success" => c.stored = c.batch)
        BY <1>3, <1>5
      <4>2. c.stored = SubSeq(c.batch, 1, Len(c.stored))
        BY <1>3, <1>5, <4>1
      <4>3. call[u]' = c
        BY <1>6, <2>1
      <4> QED
        BY <4>1, <4>2, <4>3 DEF StreamsRight
    <3> QED
      BY <3>2, <3>3
  <2>2. CASE u # t
    <3>1. ShowsRight(call[u]) /\ StreamsRight(call[u]) /\ call'[u] = call[u]
      BY <1>6, <2>2 DEF IInv, CallsRight
    <3> QED
      BY <1>0, <3>1 DEF ShowsRight, StreamsRight, isOpen, Matched
  <2> QED
    BY <2>1, <2>2
<1>11. TailExact'
  BY <1>0, <1>7 DEF IInv, TailExact, Matched
<1>12. TailComplete'
  <2> SUFFICES ASSUME NEW u \in Threads, At(u, "stream")',
                      NEW x \in call'[u].there \ call'[u].failed,
                      isOpen(x)', Matched(x, call'[u].batch) # {}
               PROVE  call'[u].batch \in ToSet(received'[x])
    BY DEF TailComplete, Matched
  <2>1. u # t /\ call'[u] = call[u]
    BY <1>5, <1>6 DEF At
  <2> QED
    BY <1>0, <2>1 DEF IInv, TailComplete, At, isOpen
<1>13. AckedIsStored'
  BY <1>0 DEF IInv, AckedIsStored
<1> QED
  BY <1>7, <1>8, <1>9, <1>10, <1>11, <1>12, <1>13 DEF IInv

\* A thread is done; a push that was answered with 204 had success as its
\* result, which means that all of it is stored.
LEMMA FinishStep ==
    ASSUME IInv, NEW t \in Threads, Finish(t)
    PROVE  IInv'
<1> DEFINE b == call[t].batch
<1>0. TypeOK /\ call[t].pc \in {"done", "threw"} /\ ~At(t, "idle") /\ call' = [call EXCEPT ![t] = Idle]
      /\ UNCHANGED <<opened, closed, subscriptions, received, todo>>
  BY DEF IInv, Finish, At, sessionVars
<1>1. call \in [Threads -> Call \cup {Idle}] /\ StreamsRight(call[t]) /\ b \in Batches
  BY <1>0, CallFacts, Active
<1>2. call'[t] = Idle /\ Idle.pc = "idle" /\ \A u \in Threads \ {t} : call'[u] = call[u]
  BY <1>0, <1>1 DEF Idle
<1>3. DOMAIN answered' \subseteq Batches
      /\ \A x \in DOMAIN answered' : answered'[x].status \in {204, 500}
                                     /\ (answered'[x].status = 204 => answered'[x].stored = x)
  <2>0. DOMAIN answered \subseteq Batches
        /\ \A x \in DOMAIN answered : answered[x].status \in {204, 500}
                                     /\ (answered[x].status = 204 => answered[x].stored = x)
    BY <1>0 DEF TypeOK, IInv, AckedIsStored
  <2>1. CASE t \in Background
    BY <2>0, <2>1 DEF Finish
  <2>2. CASE t \notin Background
    <3> DEFINE a == [status |-> IF At(t, "threw") THEN 500 ELSE StatusOf(call[t].result),
                     stored |-> call[t].stored]
    <3>1. answered' = [x \in DOMAIN answered \cup {b} |-> IF x \in DOMAIN answered THEN answered[x] ELSE a]
      BY <2>2 DEF Finish
    <3>2. a.status \in {204, 500} /\ (a.status = 204 => call[t].result = "success")
      BY DEF StatusOf
    <3>3. a.status = 204 => a.stored = b
      BY <1>0, <1>1, <3>2 DEF StreamsRight
    <3> HIDE DEF a
    <3> QED
      BY <1>1, <2>0, <3>1, <3>2, <3>3
  <2> QED
    BY <2>1, <2>2
<1>4. TypeOK'
  <2>1. call' \in [Threads -> Call \cup {Idle}]
    BY <1>0, <1>1
  <2>2. \A u \in Threads : ~At(u, "idle")' => call'[u].sent <= Len(call'[u].batch)
    BY <1>0, <1>2 DEF TypeOK, At
  <2> QED
    BY <1>0, <1>3, <2>1, <2>2 DEF TypeOK
<1>5. \A u \in Threads : ~At(u, "idle")' => u # t /\ ~At(u, "idle") /\ call'[u] = call[u]
  BY <1>2 DEF At
<1>6. Owned'
  BY <1>0, <1>5 DEF IInv, Owned
<1>7. Registered'
  BY <1>0, <1>5 DEF IInv, Registered, Known
<1>8. CallsRight'
  <2> SUFFICES ASSUME NEW u \in Threads PROVE ShowsRight(call[u])' /\ StreamsRight(call[u])'
    BY DEF CallsRight
  <2>1. CASE u = t
    BY <1>2, <2>1 DEF ShowsRight, StreamsRight
  <2>2. CASE u # t
    <3>1. ShowsRight(call[u]) /\ StreamsRight(call[u]) /\ call'[u] = call[u]
      BY <1>2, <2>2 DEF IInv, CallsRight
    <3> QED
      BY <1>0, <3>1 DEF ShowsRight, StreamsRight, isOpen, Matched
  <2> QED
    BY <2>1, <2>2
<1>9. TailExact'
  BY <1>0, <1>4 DEF IInv, TailExact, Matched
<1>10. TailComplete'
  <2> SUFFICES ASSUME NEW u \in Threads, At(u, "stream")',
                      NEW x \in call'[u].there \ call'[u].failed,
                      isOpen(x)', Matched(x, call'[u].batch) # {}
               PROVE  call'[u].batch \in ToSet(received'[x])
    BY DEF TailComplete, Matched
  <2>1. call'[u] = call[u]
    BY <1>2 DEF At
  <2> QED
    BY <1>0, <2>1 DEF IInv, TailComplete, At, isOpen
<1>11. AckedIsStored'
  BY <1>3 DEF AckedIsStored
<1> QED
  BY <1>4, <1>6, <1>7, <1>8, <1>9, <1>10, <1>11 DEF IInv

\* Sessions come and go: none that was opened before is opened again, and
\* only a closed one leaves the map.
LEMMA SessionStep ==
    ASSUME IInv, UNCHANGED <<received, call, todo, answered>>,
           opened \subseteq opened', opened' \subseteq Sessions, closed' \subseteq opened',
           subscriptions' \subseteq opened', opened' \ subscriptions' \subseteq closed',
           \A s \in opened : isOpen(s)' => isOpen(s)
    PROVE  IInv'
<1>1. TypeOK'
  BY DEF IInv, TypeOK, At
<1>2. Owned'
  BY DEF IInv, Owned, At
<1>3. Registered'
  BY DEF IInv, Registered, Known, At
<1>4. CallsRight'
  <2> SUFFICES ASSUME NEW u \in Threads PROVE ShowsRight(call[u])' /\ StreamsRight(call[u])'
    BY DEF CallsRight
  <2>1. ShowsRight(call[u]) /\ StreamsRight(call[u])
    BY DEF IInv, CallsRight
  <2>2. call[u].pc \in {"broadcast", "send"} => call[u].passed \subseteq opened
    BY DEF IInv, Registered, Known, At
  <2>3. ShowsRight(call[u])'
    BY <2>1, <2>2 DEF ShowsRight, Matched
  <2> QED
    BY <2>1, <2>3 DEF StreamsRight
<1>5. TailExact'
  BY <1>1 DEF IInv, TailExact, Matched
<1>6. TailComplete'
  <2> SUFFICES ASSUME NEW u \in Threads, At(u, "stream"),
                      NEW x \in call[u].there \ call[u].failed,
                      isOpen(x)', Matched(x, call[u].batch) # {}
               PROVE  call[u].batch \in ToSet(received[x])
    BY DEF TailComplete, Matched, At
  <2>1. x \in opened
    BY DEF IInv, Registered, Known, At
  <2> QED
    BY <2>1 DEF IInv, TailComplete
<1>7. AckedIsStored'
  BY DEF IInv, AckedIsStored
<1> QED
  BY <1>1, <1>2, <1>3, <1>4, <1>5, <1>6, <1>7 DEF IInv

-----------------------------------------------------------------------------
\* At the start no session is open and no thread has a batch.
LEMMA InitEstablishes == Init => IInv
<1> SUFFICES ASSUME Init PROVE IInv
  OBVIOUS
<1>1. \A t \in Threads : call[t].pc = "idle" /\ At(t, "idle")
  BY DEF Init, Idle, At
<1>2. \A s \in Sessions : received[s] = <<>> /\ DOMAIN received[s] = {}
  BY DEF Init
<1>3. TypeOK
  <2>1. call \in [Threads -> Call \cup {Idle}]
    BY DEF Init
  <2>2. received \in [Sessions -> Seq(Batches)]
    BY DEF Init
  <2> QED
    BY <1>1, <2>1, <2>2 DEF Init, TypeOK
<1>4. \A s \in Sessions : ToSet(received[s]) = {} /\ IsInjective(received[s])
  BY <1>2 DEF ToSet, IsInjective
<1>5. Owned /\ Registered
  BY <1>1, <1>4 DEF Init, Owned, Registered
<1>6. CallsRight /\ TailComplete
  BY <1>1 DEF CallsRight, ShowsRight, StreamsRight, TailComplete, At
<1>7. TailExact /\ AckedIsStored
  BY <1>3, <1>4 DEF Init, TailExact, AckedIsStored
<1> QED
  BY <1>3, <1>5, <1>6, <1>7 DEF IInv

\* Every step keeps the invariant.
LEMMA NextPreserves == IInv /\ [Next]_vars => IInv'
<1> SUFFICES ASSUME IInv, [Next]_vars PROVE IInv'
  OBVIOUS
<1>0. closed \subseteq opened /\ opened \subseteq Sessions /\ subscriptions \subseteq opened
      /\ opened \ subscriptions \subseteq closed
  BY DEF IInv, TypeOK, Registered
<1>1. ASSUME NEW s \in Sessions, afterConnectionEstablished(s) PROVE IInv'
  BY <1>0, <1>1, SessionStep DEF afterConnectionEstablished, isOpen
<1>2. ASSUME NEW s \in Sessions, Close(s) PROVE IInv'
  BY <1>0, <1>2, SessionStep DEF Close, isOpen
<1>3. ASSUME NEW s \in Sessions, afterConnectionClosed(s) PROVE IInv'
  BY <1>0, <1>3, SessionStep DEF afterConnectionClosed, isOpen
<1>4. ASSUME NEW t \in Threads, NEW batch \in Batches, Begin(t, batch) PROVE IInv'
  BY <1>4, BeginStep
<1>5. ASSUME NEW t \in Threads, NEW s \in Sessions, SendThrows(t, s) PROVE IInv'
  <2>1. ~At(t, "idle")
    BY <1>5 DEF SendThrows, At
  <2> QED
    BY <1>5, <2>1, LeaveStep DEF SendThrows
<1>6. ASSUME NEW t \in Threads, Broadcast(t) PROVE IInv'
  BY <1>5, <1>6, VisitClosedStep, VisitUnmatchedStep, StartSendStep, EndSendStep, EndBroadcastStep
     DEF Broadcast
<1>7. ASSUME NEW t \in Threads, LatchOpens(t) PROVE IInv'
  <2>1. ~At(t, "idle")
    BY <1>7 DEF LatchOpens, At
  <2> QED
    BY <1>7, <2>1, LeaveStep DEF LatchOpens
<1>8. ASSUME NEW t \in Threads, Stream(t) PROVE IInv'
  BY <1>7, <1>8, SendChunkStep, CompleteStep DEF Stream
<1>9. ASSUME NEW t \in Threads, Proceed(t) \/ StagingFails(t) \/ CoreReads(t) \/ CoreAnswers(t)
      PROVE  IInv'
  BY <1>6, <1>8, <1>9, FinishStep, StagingFailsStep, CoreReadsStep, CoreAnswersStep DEF Proceed
<1>10. CASE UNCHANGED vars
  <2>1. UNCHANGED <<opened, closed, subscriptions, received, call, todo, answered>>
    BY <1>10 DEF vars, sessionVars
  <2> QED
    BY <1>0, <2>1, SessionStep DEF isOpen
<1> QED
  BY <1>1, <1>2, <1>3, <1>4, <1>9, <1>10 DEF Next

-----------------------------------------------------------------------------
\* Each batch has one owner, sessions leave the map only when closed, and
\* iterators, streams and tails are right, in every reachable state.
THEOREM Inductive == Spec => []IInv
  BY InitEstablishes, NextPreserves, PTL DEF Spec

\* pushLogs answers 204 only for a batch the core has taken in whole, in
\* order, whatever timeouts, stream errors and other threads do.
THEOREM AckCorrect == Spec => []AckedIsStored
<1>1. IInv => AckedIsStored
  BY DEF IInv
<1> QED
  BY <1>1, Inductive, PTL

\* broadcastLogs sends a session each batch at most once, and only batches
\* with lines that match, with any number of threads broadcasting.
THEOREM TailOnce == Spec => []TailExact
<1>1. IInv => TailExact
  BY DEF IInv
<1> QED
  BY <1>1, Inductive, PTL

\* When broadcastLogs comes back, every session that was registered before
\* it, is still open and wants the batch has got it, unless sending failed.
THEOREM TailReaches == Spec => []TailComplete
<1>1. IInv => TailComplete
  BY DEF IInv
<1> QED
  BY <1>1, Inductive, PTL
=============================================================================
