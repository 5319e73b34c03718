------------------------ MODULE KafkaConsumerProofs ------------------------
(***************************************************************************)
(* Proofs about the Kafka buffer: whatever the three flushing threads do,  *)
(* records are handed on in order, the buffer stays within a batch, and    *)
(* only records added between a copy and its clear are lost.               *)
(***************************************************************************)
EXTENDS KafkaConsumer, SequenceTheorems, TLAPS

Inside == {"copy", "clear", "send", "leave"}

\* The monitor's owner is the only actor inside flushBuffer; the stopping
\* thread holds it from the beginning of stopContainer to its end.
Exclusion ==
    /\ \A a \in Actors : stage[a] \in Inside => monitor = a
    /\ kpc \in {"stopping", "flushing"} => monitor = "stopper"
    /\ stage["stopper"] # "out" => kpc = "flushing"
    /\ stage["listener"] # "out" => lpc = "flushing"

Increasing(s) == \A i, j \in DOMAIN s : i < j => s[i] < s[j]

\* Every element of s is smaller than every element of t.
Before(s, t) == \A i \in DOMAIN s, j \in DOMAIN t : s[i] < t[j]

Below(s, n) == \A i \in DOMAIN s : s[i] < n

\* What was handed on comes before what a flush is about to hand on, which
\* comes before what is buffered, which comes before what is still to come.
Ordered ==
    /\ Increasing(handed) /\ Increasing(buffer) /\ Before(handed, buffer)
    /\ Below(handed, next) /\ Below(buffer, next)
    /\ \A a \in Actors : stage[a] = "send" =>
          /\ Increasing(batchToFlush[a])
          /\ Before(handed, batchToFlush[a]) /\ Before(batchToFlush[a], buffer)
          /\ Below(batchToFlush[a], next)

\* Between copy and clear the buffer is the copy, and after it what raced.
Window ==
    \A a \in Actors : stage[a] = "clear" =>
        /\ Len(batchToFlush[a]) <= Len(buffer)
        /\ \A i \in 1..Len(batchToFlush[a]) : batchToFlush[a][i] = buffer[i]
        /\ \A i \in Len(batchToFlush[a]) + 1..Len(buffer) : buffer[i] \in raced

\* The listener adds only to a buffer with room for one more, and finds it
\* empty when it has flushed.
Room ==
    /\ Len(buffer) <= batchSize
    /\ lpc = "poll" => Len(buffer) < batchSize
    /\ lpc = "flushing" /\ stage["listener"] \in {"send", "leave", "out"} => buffer = <<>>

IInv == TypeOK /\ Exclusion /\ Ordered /\ Window /\ Room /\ LostOnlyInWindow

-----------------------------------------------------------------------------
(* Sequences.                                                               *)

\* buffer.add(record): the newest offset goes to the end, so order is kept.
LEMMA AppendOrder ==
    ASSUME NEW s \in Seq(1..LastOffset), NEW n \in 1..LastOffset, Below(s, n)
    PROVE  /\ Increasing(s) => Increasing(Append(s, n))
           /\ Below(Append(s, n), n + 1)
           /\ \A t \in Seq(1..LastOffset) : Before(t, s) /\ Below(t, n) => Before(t, Append(s, n))
<1> DEFINE u == Append(s, n)
<1>1. /\ Len(s) \in Nat /\ DOMAIN s = 1..Len(s) /\ DOMAIN u = 1..Len(s) + 1
      /\ \A i \in 1..Len(s) : u[i] = s[i] /\ s[i] \in Nat
      /\ u[Len(s) + 1] = n
  BY KafkaAssumption, AppendProperties
<1> HIDE DEF u
<1>2. \A i \in DOMAIN u : \/ i \in DOMAIN s /\ u[i] = s[i]
                          \/ i = Len(s) + 1 /\ u[i] = n
  BY <1>1
<1>3. Increasing(s) => Increasing(u)
  BY <1>1, <1>2 DEF Increasing, Below, u
<1>4. Below(u, n + 1)
  BY <1>1, <1>2 DEF Below
<1>5. \A t \in Seq(1..LastOffset) : Before(t, s) /\ Below(t, n) => Before(t, u)
  BY <1>2 DEF Before, Below
<1> QED
  BY <1>3, <1>4, <1>5 DEF u

\* Handing on a batch after earlier batches keeps the order.
LEMMA ConcatOrder ==
    ASSUME NEW s \in Seq(1..LastOffset), NEW t \in Seq(1..LastOffset)
    PROVE  /\ Increasing(s) /\ Increasing(t) /\ Before(s, t) => Increasing(s \o t)
           /\ \A n \in Nat : Below(s, n) /\ Below(t, n) => Below(s \o t, n)
           /\ \A u \in Seq(1..LastOffset) : Before(s, u) /\ Before(t, u) => Before(s \o t, u)
<1> DEFINE st == s \o t
<1>1. /\ Len(s) \in Nat /\ Len(t) \in Nat
      /\ DOMAIN s = 1..Len(s) /\ DOMAIN t = 1..Len(t) /\ DOMAIN st = 1..Len(s) + Len(t)
      /\ \A i \in 1..Len(s) + Len(t) : st[i] = IF i <= Len(s) THEN s[i] ELSE t[i - Len(s)]
  OBVIOUS
<1> HIDE DEF st
<1>2. \A i \in DOMAIN st : \/ i <= Len(s) /\ i \in DOMAIN s /\ st[i] = s[i]
                           \/ i > Len(s) /\ i - Len(s) \in DOMAIN t /\ st[i] = t[i - Len(s)]
  BY <1>1
<1>3. ASSUME Increasing(s), Increasing(t), Before(s, t) PROVE Increasing(st)
  <2> SUFFICES ASSUME NEW i \in DOMAIN st, NEW j \in DOMAIN st, i < j PROVE st[i] < st[j]
    BY DEF Increasing
  <2>1. i \in Nat /\ j \in Nat
    BY <1>1
  <2>2. CASE j <= Len(s)
    BY <1>1, <1>2, <1>3, <2>1, <2>2 DEF Increasing
  <2>3. CASE i <= Len(s) /\ j > Len(s)
    BY <1>1, <1>2, <1>3, <2>1, <2>3 DEF Before
  <2>4. CASE i > Len(s)
    <3>1. i - Len(s) \in DOMAIN t /\ j - Len(s) \in DOMAIN t /\ i - Len(s) < j - Len(s)
      BY <1>1, <1>2, <2>1, <2>4
    <3> QED
      BY <1>1, <1>2, <1>3, <2>1, <2>4, <3>1 DEF Increasing
  <2> QED
    BY <1>1, <2>1, <2>2, <2>3, <2>4
<1>4. \A n \in Nat : Below(s, n) /\ Below(t, n) => Below(st, n)
  BY <1>2 DEF Below
<1>5. \A u \in Seq(1..LastOffset) : Before(s, u) /\ Before(t, u) => Before(st, u)
  BY <1>2 DEF Before
<1> QED
  BY <1>3, <1>4, <1>5 DEF st

\* t is a prefix of s.
LEMMA PrefixOrder ==
    ASSUME NEW s \in Seq(1..LastOffset), NEW t \in Seq(1..LastOffset), Len(t) <= Len(s),
           \A i \in 1..Len(t) : t[i] = s[i]
    PROVE  /\ Increasing(s) => Increasing(t)
           /\ \A n \in Nat : Below(s, n) => Below(t, n)
           /\ \A u \in Seq(1..LastOffset) : Before(u, s) => Before(u, t)
<1>1. \A i \in DOMAIN t : i \in DOMAIN s /\ t[i] = s[i]
  OBVIOUS
<1> QED
  BY <1>1 DEF Increasing, Below, Before

\* The elements of an extended sequence.
LEMMA ElementsOf ==
    ASSUME NEW s \in Seq(1..LastOffset)
    PROVE  /\ \A x \in 1..LastOffset : ToSet(Append(s, x)) = ToSet(s) \cup {x}
           /\ \A t \in Seq(1..LastOffset) : ToSet(s \o t) = ToSet(s) \cup ToSet(t)
<1>1. ASSUME NEW x \in 1..LastOffset PROVE ToSet(Append(s, x)) = ToSet(s) \cup {x}
  <2>1. /\ Len(s) \in Nat /\ DOMAIN s = 1..Len(s) /\ DOMAIN Append(s, x) = 1..Len(s) + 1
        /\ \A i \in 1..Len(s) : Append(s, x)[i] = s[i]
        /\ Append(s, x)[Len(s) + 1] = x
    OBVIOUS
  <2>2. \A i \in 1..Len(s) + 1 : i \in 1..Len(s) \/ i = Len(s) + 1
    BY <2>1
  <2> QED
    BY <2>1, <2>2 DEF ToSet
<1>2. ASSUME NEW t \in Seq(1..LastOffset) PROVE ToSet(s \o t) = ToSet(s) \cup ToSet(t)
  <2>1. Range(s \o t) = Range(s) \cup Range(t)
    BY RangeConcatenation
  <2> QED
    BY <2>1 DEF ToSet, Range
<1> QED
  BY <1>1, <1>2

-----------------------------------------------------------------------------
\* Nothing is buffered, handed on or owned at the start.
LEMMA InitEstablishes == Init => IInv
<1> SUFFICES ASSUME Init PROVE IInv
  OBVIOUS
<1> USE KafkaAssumption DEF Init, Actors
<1>1. TypeOK
  <2>1. running \in BOOLEAN /\ elapsed \in BOOLEAN
    OBVIOUS
  <2> QED
    BY <2>1 DEF TypeOK
<1>2. Exclusion /\ Window /\ Room
  BY DEF Exclusion, Window, Room, Inside
<1>3. Ordered
  BY DEF Ordered, Increasing, Before, Below
<1>4. LostOnlyInWindow
  BY DEF LostOnlyInWindow
<1> QED
  BY <1>1, <1>2, <1>3, <1>4 DEF IInv

\* The steps that have a lemma's attention, one actor at a time.
LEMMA Steps ==
    ASSUME Next
    PROVE  \/ \E n \in 1..LastOffset : Poll(n)
           \/ AddRecord \/ CheckSize \/ ListenerReturns
           \/ IntervalElapses \/ CheckFlush \/ BeginStop \/ ContainerStopped \/ EndStop
           \/ \E a \in Actors : \/ EnterFlush(a) \/ CopyBuffer(a) \/ ClearBuffer(a)
                                \/ SendBatch(a) \/ SendFails(a) \/ LeaveFlush(a)
BY DEF Next, Listener, Stopper, Flush

\* Every step of listener, scheduler and stopper keeps the types.
LEMMA TypePreserved == IInv /\ [Next]_vars => TypeOK'
<1> SUFFICES ASSUME IInv, [Next]_vars PROVE TypeOK'
  OBVIOUS
<1> USE KafkaAssumption DEF IInv, TypeOK, Actors, flushVars, history
<1>1. ASSUME NEW n \in 1..LastOffset, Poll(n) PROVE TypeOK'
  BY <1>1 DEF Poll
<1>2. CASE AddRecord
  BY <1>2 DEF AddRecord, MoreInPoll
<1>3. CASE CheckSize
  BY <1>3 DEF CheckSize
<1>4. CASE ListenerReturns
  BY <1>4 DEF ListenerReturns
<1>5. CASE IntervalElapses
  BY <1>5 DEF IntervalElapses
<1>6. CASE CheckFlush
  BY <1>6 DEF CheckFlush
<1>7. CASE BeginStop
  BY <1>7 DEF BeginStop
<1>8. CASE ContainerStopped
  BY <1>8 DEF ContainerStopped
<1>9. CASE EndStop
  BY <1>9 DEF EndStop
<1>10. ASSUME NEW a \in Actors, EnterFlush(a) PROVE TypeOK'
  BY <1>10 DEF EnterFlush
<1>11. ASSUME NEW a \in Actors, CopyBuffer(a) PROVE TypeOK'
  BY <1>11 DEF CopyBuffer, Copied
<1>12. ASSUME NEW a \in Actors, ClearBuffer(a) PROVE TypeOK'
  <2>1. elapsed' \in BOOLEAN /\ running' \in BOOLEAN
    BY <1>12 DEF ClearBuffer
  <2> QED
    BY <1>12, <2>1 DEF ClearBuffer
<1>13. ASSUME NEW a \in Actors, SendBatch(a) PROVE TypeOK'
  BY <1>13 DEF SendBatch
<1>14. ASSUME NEW a \in Actors, SendFails(a) PROVE TypeOK'
  BY <1>14 DEF SendFails, ToSet
<1>15. ASSUME NEW a \in Actors, LeaveFlush(a) PROVE TypeOK'
  BY <1>15 DEF LeaveFlush
<1>16. CASE UNCHANGED vars
  BY <1>16 DEF vars
<1> QED
  BY <1>1, <1>2, <1>3, <1>4, <1>5, <1>6, <1>7, <1>8, <1>9, <1>10, <1>11, <1>12, <1>13, <1>14, <1>15, <1>16, Steps

\* flushBuffer and stopContainer are synchronized: one thread is inside.
LEMMA ExclusionPreserved == IInv /\ [Next]_vars => Exclusion'
<1> SUFFICES ASSUME IInv, [Next]_vars PROVE Exclusion'
  OBVIOUS
<1> USE KafkaAssumption DEF IInv, TypeOK, Actors, flushVars, history, Exclusion, Inside
<1>1. ASSUME NEW n \in 1..LastOffset, Poll(n) PROVE Exclusion'
  BY <1>1 DEF Poll
<1>2. CASE AddRecord
  BY <1>2 DEF AddRecord
<1>3. CASE CheckSize
  BY <1>3 DEF CheckSize
<1>4. CASE ListenerReturns
  BY <1>4 DEF ListenerReturns
<1>5. CASE IntervalElapses
  BY <1>5 DEF IntervalElapses
<1>6. CASE CheckFlush
  BY <1>6 DEF CheckFlush
<1>7. CASE BeginStop
  BY <1>7 DEF BeginStop
<1>8. CASE ContainerStopped
  BY <1>8 DEF ContainerStopped
<1>9. CASE EndStop
  BY <1>9 DEF EndStop
<1>10. ASSUME NEW a \in Actors, EnterFlush(a) PROVE Exclusion'
  BY <1>10 DEF EnterFlush, MonitorFree
<1>11. ASSUME NEW a \in Actors, CopyBuffer(a) PROVE Exclusion'
  BY <1>11 DEF CopyBuffer
<1>12. ASSUME NEW a \in Actors, ClearBuffer(a) PROVE Exclusion'
  BY <1>12 DEF ClearBuffer
<1>13. ASSUME NEW a \in Actors, SendBatch(a) PROVE Exclusion'
  BY <1>13 DEF SendBatch
<1>14. ASSUME NEW a \in Actors, SendFails(a) PROVE Exclusion'
  BY <1>14 DEF SendFails
<1>15. ASSUME NEW a \in Actors, LeaveFlush(a) PROVE Exclusion'
  BY <1>15 DEF LeaveFlush
<1>16. CASE UNCHANGED vars
  BY <1>16 DEF vars
<1> QED
  BY <1>1, <1>2, <1>3, <1>4, <1>5, <1>6, <1>7, <1>8, <1>9, <1>10, <1>11, <1>12, <1>13, <1>14, <1>15, <1>16, Steps

\* The order handed < copied < buffered < to come survives every step.
LEMMA OrderPreserved == IInv /\ [Next]_vars => Ordered'
<1> SUFFICES ASSUME IInv, [Next]_vars PROVE Ordered'
  OBVIOUS
<1> USE KafkaAssumption DEF IInv, TypeOK, Actors, flushVars, history, Exclusion, Inside, Ordered, Window
<1>1. ASSUME NEW n \in 1..LastOffset, Poll(n) PROVE Ordered'
  BY <1>1 DEF Poll
<1>2. CASE AddRecord
  <2>1. /\ buffer' = Append(buffer, next) /\ next' = next + 1 /\ next \in 1..LastOffset
        /\ UNCHANGED <<handed, stage, batchToFlush>>
    BY <1>2 DEF AddRecord, MoreInPoll
  <2>2. Below(handed, next') /\ \A b \in Actors : Below(batchToFlush[b], next) => Below(batchToFlush[b], next')
    BY <2>1, SMTT(30) DEF Below
  <2>3. Increasing(buffer') /\ Below(buffer', next') /\ Before(handed, buffer')
    BY <2>1, AppendOrder
  <2>4. \A b \in Actors : stage[b] = "send" => Before(batchToFlush[b], buffer')
    BY <2>1, AppendOrder
  <2> QED
    BY <2>1, <2>2, <2>3, <2>4
<1>3. CASE CheckSize
  BY <1>3 DEF CheckSize
<1>4. CASE ListenerReturns
  BY <1>4 DEF ListenerReturns
<1>5. CASE IntervalElapses
  BY <1>5 DEF IntervalElapses
<1>6. CASE CheckFlush
  BY <1>6 DEF CheckFlush
<1>7. CASE BeginStop
  BY <1>7 DEF BeginStop
<1>8. CASE ContainerStopped
  BY <1>8 DEF ContainerStopped
<1>9. CASE EndStop
  BY <1>9 DEF EndStop
<1>10. ASSUME NEW a \in Actors, EnterFlush(a) PROVE Ordered'
  BY <1>10 DEF EnterFlush
<1>11. ASSUME NEW a \in Actors, CopyBuffer(a) PROVE Ordered'
  BY <1>11 DEF CopyBuffer
<1>12. ASSUME NEW a \in Actors, ClearBuffer(a) PROVE Ordered'
  <2>1. /\ buffer' = <<>> /\ stage' = [stage EXCEPT ![a] = "send"] /\ stage[a] = "clear"
        /\ UNCHANGED <<handed, next, batchToFlush>>
    BY <1>12 DEF ClearBuffer
  <2>2. \A b \in Actors : stage'[b] = "send" => b = a
    BY <2>1
  <2>3. /\ Increasing(batchToFlush[a]) /\ Before(handed, batchToFlush[a])
        /\ Below(batchToFlush[a], next)
    <3>1. /\ {handed, buffer, batchToFlush[a]} \subseteq Seq(1..LastOffset) /\ next \in Nat
          /\ Increasing(buffer) /\ Before(handed, buffer) /\ Below(buffer, next)
      OBVIOUS
    <3>2. /\ Len(batchToFlush[a]) <= Len(buffer)
          /\ \A i \in 1..Len(batchToFlush[a]) : batchToFlush[a][i] = buffer[i]
      BY <2>1
    <3> QED
      BY ONLY <3>1, <3>2, PrefixOrder
  <2>4. /\ Increasing(buffer') /\ Below(buffer', next) /\ Before(handed, buffer')
        /\ Before(batchToFlush[a], buffer')
    BY <2>1 DEF Increasing, Below, Before
  <2> QED
    BY <2>1, <2>2, <2>3, <2>4
<1>13. ASSUME NEW a \in Actors, SendBatch(a) PROVE Ordered'
  <2>1. /\ handed' = handed \o batchToFlush[a] /\ stage[a] = "send"
        /\ stage' = [stage EXCEPT ![a] = "leave"] /\ UNCHANGED <<buffer, next, batchToFlush>>
    BY <1>13 DEF SendBatch
  <2>2. \A b \in Actors : stage'[b] # "send"
    BY <2>1
  <2>3. /\ {handed, buffer, batchToFlush[a]} \subseteq Seq(1..LastOffset) /\ next \in Nat
        /\ Increasing(handed) /\ Increasing(batchToFlush[a])
        /\ Before(handed, batchToFlush[a]) /\ Before(batchToFlush[a], buffer)
        /\ Before(handed, buffer) /\ Below(handed, next) /\ Below(batchToFlush[a], next)
    BY <2>1
  <2>4. Increasing(handed') /\ Before(handed', buffer) /\ Below(handed', next)
    BY ONLY <2>1, <2>3, ConcatOrder
  <2> QED
    BY <2>1, <2>2, <2>4
<1>14. ASSUME NEW a \in Actors, SendFails(a) PROVE Ordered'
  BY <1>14 DEF SendFails
<1>15. ASSUME NEW a \in Actors, LeaveFlush(a) PROVE Ordered'
  BY <1>15 DEF LeaveFlush
<1>16. CASE UNCHANGED vars
  BY <1>16 DEF vars
<1> QED
  BY <1>1, <1>2, <1>3, <1>4, <1>5, <1>6, <1>7, <1>8, <1>9, <1>10, <1>11, <1>12, <1>13, <1>14, <1>15, <1>16, Steps

\* Between copy and clear the listener can only append behind the copy.
LEMMA WindowPreserved == IInv /\ [Next]_vars => Window'
<1> SUFFICES ASSUME IInv, [Next]_vars PROVE Window'
  OBVIOUS
<1> USE KafkaAssumption DEF IInv, TypeOK, Actors, flushVars, history, Exclusion, Inside, Window
<1>1. ASSUME NEW n \in 1..LastOffset, Poll(n) PROVE Window'
  BY <1>1 DEF Poll
<1>2. CASE AddRecord
  <2>1. /\ buffer' = Append(buffer, next) /\ UNCHANGED <<stage, batchToFlush>>
        /\ raced \subseteq raced' /\ next \in 1..LastOffset
        /\ (\E a \in Actors : stage[a] = "clear") => next \in raced'
    BY <1>2 DEF AddRecord, MoreInPoll
  <2>2. /\ Len(buffer') = Len(buffer) + 1 /\ Len(buffer) \in Nat
        /\ \A i \in 1..Len(buffer) : buffer'[i] = buffer[i]
        /\ buffer'[Len(buffer) + 1] = next
    BY <2>1
  <2> SUFFICES ASSUME NEW a \in Actors, stage[a] = "clear"
               PROVE  /\ Len(batchToFlush[a]) <= Len(buffer')
                      /\ \A i \in 1..Len(batchToFlush[a]) : batchToFlush[a][i] = buffer'[i]
                      /\ \A i \in Len(batchToFlush[a]) + 1..Len(buffer') : buffer'[i] \in raced'
    BY <2>1, SMTT(30)
  <2>3. /\ Len(batchToFlush[a]) \in Nat /\ Len(batchToFlush[a]) <= Len(buffer)
        /\ \A i \in 1..Len(batchToFlush[a]) : batchToFlush[a][i] = buffer[i]
        /\ \A i \in Len(batchToFlush[a]) + 1..Len(buffer) : buffer[i] \in raced
    BY SMTT(30)
  <2>4. ASSUME NEW i \in Len(batchToFlush[a]) + 1..Len(buffer') PROVE buffer'[i] \in raced'
    <3>1. CASE i = Len(buffer) + 1
      BY <2>1, <2>2, <3>1
    <3>2. CASE i \in Len(batchToFlush[a]) + 1..Len(buffer)
      <4>1. buffer[i] \in raced /\ i \in 1..Len(buffer)
        BY ONLY <2>2, <2>3, <3>2
      <4> QED
        BY ONLY <2>1, <2>2, <4>1
    <3> QED
      BY ONLY <2>2, <2>3, <3>1, <3>2
  <2> QED
    BY ONLY <2>2, <2>3, <2>4
<1>3. CASE CheckSize
  BY <1>3 DEF CheckSize
<1>4. CASE ListenerReturns
  BY <1>4 DEF ListenerReturns
<1>5. CASE IntervalElapses
  BY <1>5 DEF IntervalElapses
<1>6. CASE CheckFlush
  BY <1>6 DEF CheckFlush
<1>7. CASE BeginStop
  BY <1>7 DEF BeginStop
<1>8. CASE ContainerStopped
  BY <1>8 DEF ContainerStopped
<1>9. CASE EndStop
  BY <1>9 DEF EndStop
<1>10. ASSUME NEW a \in Actors, EnterFlush(a) PROVE Window'
  BY <1>10 DEF EnterFlush
<1>11. ASSUME NEW a \in Actors, CopyBuffer(a) PROVE Window'
  <2>1. /\ batchToFlush' = [batchToFlush EXCEPT ![a] = buffer] /\ stage[a] = "copy"
        /\ stage' = [stage EXCEPT ![a] = "clear"] /\ UNCHANGED <<buffer, raced>>
    BY <1>11 DEF CopyBuffer, Copied
  <2>2. \A b \in Actors : stage'[b] = "clear" => b = a
    BY <2>1
  <2>3. batchToFlush'[a] = buffer /\ Len(buffer) \in Nat
    BY <2>1
  <2> QED
    BY <2>1, <2>2, <2>3
<1>12. ASSUME NEW a \in Actors, ClearBuffer(a) PROVE Window'
  BY <1>12 DEF ClearBuffer
<1>13. ASSUME NEW a \in Actors, SendBatch(a) PROVE Window'
  BY <1>13 DEF SendBatch
<1>14. ASSUME NEW a \in Actors, SendFails(a) PROVE Window'
  BY <1>14 DEF SendFails
<1>15. ASSUME NEW a \in Actors, LeaveFlush(a) PROVE Window'
  BY <1>15 DEF LeaveFlush
<1>16. CASE UNCHANGED vars
  BY <1>16 DEF vars
<1> QED
  BY <1>1, <1>2, <1>3, <1>4, <1>5, <1>6, <1>7, <1>8, <1>9, <1>10, <1>11, <1>12, <1>13, <1>14, <1>15, <1>16, Steps

\* The size check after each add keeps the buffer within a batch.
LEMMA RoomPreserved == IInv /\ [Next]_vars => Room'
<1> SUFFICES ASSUME IInv, [Next]_vars PROVE Room'
  OBVIOUS
<1> USE KafkaAssumption DEF IInv, TypeOK, Actors, flushVars, history, Exclusion, Inside, Room
<1>1. ASSUME NEW n \in 1..LastOffset, Poll(n) PROVE Room'
  BY <1>1 DEF Poll
<1>2. CASE AddRecord
  BY <1>2 DEF AddRecord
<1>3. CASE CheckSize
  BY <1>3 DEF CheckSize, Full
<1>4. CASE ListenerReturns
  BY <1>4 DEF ListenerReturns
<1>5. CASE IntervalElapses
  BY <1>5 DEF IntervalElapses
<1>6. CASE CheckFlush
  BY <1>6 DEF CheckFlush
<1>7. CASE BeginStop
  BY <1>7 DEF BeginStop
<1>8. CASE ContainerStopped
  BY <1>8 DEF ContainerStopped
<1>9. CASE EndStop
  BY <1>9 DEF EndStop
<1>10. ASSUME NEW a \in Actors, EnterFlush(a) PROVE Room'
  BY <1>10 DEF EnterFlush
<1>11. ASSUME NEW a \in Actors, CopyBuffer(a) PROVE Room'
  BY <1>11 DEF CopyBuffer
<1>12. ASSUME NEW a \in Actors, ClearBuffer(a) PROVE Room'
  BY <1>12 DEF ClearBuffer
<1>13. ASSUME NEW a \in Actors, SendBatch(a) PROVE Room'
  BY <1>13 DEF SendBatch
<1>14. ASSUME NEW a \in Actors, SendFails(a) PROVE Room'
  BY <1>14 DEF SendFails
<1>15. ASSUME NEW a \in Actors, LeaveFlush(a) PROVE Room'
  BY <1>15 DEF LeaveFlush
<1>16. CASE UNCHANGED vars
  BY <1>16 DEF vars
<1> QED
  BY <1>1, <1>2, <1>3, <1>4, <1>5, <1>6, <1>7, <1>8, <1>9, <1>10, <1>11, <1>12, <1>13, <1>14, <1>15, <1>16, Steps

\* Only clear() forgets, and only what raced with it.
LEMMA LossPreserved == IInv /\ [Next]_vars => LostOnlyInWindow'
<1> SUFFICES ASSUME IInv, [Next]_vars PROVE LostOnlyInWindow'
  OBVIOUS
<1> USE KafkaAssumption DEF IInv, TypeOK, Actors, flushVars, history
<1> DEFINE Safe(r) == r \in ToSet(buffer) \cup ToSet(handed) \cup dropped \cup raced \/ InFlush(r)
<1> SUFFICES ASSUME NEW r \in 1..next' - 1 PROVE Safe(r)'
  BY DEF LostOnlyInWindow
<1>0. \A q \in 1..next - 1 : Safe(q)
  BY DEF LostOnlyInWindow
<1>1. CASE AddRecord
  <2>1. /\ buffer' = Append(buffer, next) /\ next' = next + 1
        /\ raced \subseteq raced' /\ UNCHANGED <<stage, batchToFlush, handed, dropped>>
    BY <1>1 DEF AddRecord
  <2>2. ToSet(buffer') = ToSet(buffer) \cup {next}
    <3>1. next \in 1..LastOffset /\ buffer \in Seq(1..LastOffset)
      BY <1>1 DEF AddRecord, MoreInPoll
    <3> QED
      BY ONLY <2>1, <3>1, ElementsOf
  <2>3. InFlush(r)' <=> InFlush(r)
    BY <2>1 DEF InFlush
  <2>4. r \in 1..next - 1 \/ r = next
    BY <2>1
  <2> QED
    BY <1>0, <2>1, <2>2, <2>3, <2>4
<1>2. ASSUME NEW a \in Actors, ClearBuffer(a) PROVE Safe(r)'
  <2>1. /\ stage' = [stage EXCEPT ![a] = "send"] /\ stage[a] = "clear"
        /\ UNCHANGED <<next, batchToFlush, handed, dropped, raced>>
    BY <1>2 DEF ClearBuffer
  <2>2. ASSUME r \in ToSet(buffer) PROVE r \in raced \/ r \in ToSet(batchToFlush[a])
    <3>1. PICK i \in 1..Len(buffer) : r = buffer[i]
      BY <2>2 DEF ToSet
    <3>2. Len(batchToFlush[a]) \in Nat /\ DOMAIN batchToFlush[a] = 1..Len(batchToFlush[a])
      OBVIOUS
    <3>3. CASE i <= Len(batchToFlush[a])
      <4>1. i \in DOMAIN batchToFlush[a] /\ batchToFlush[a][i] = r
        <5>1. \A j \in 1..Len(batchToFlush[a]) : batchToFlush[a][j] = buffer[j]
          BY <2>1 DEF Window
        <5> QED
          BY ONLY <3>1, <3>2, <3>3, <5>1
      <4> QED
        BY <4>1 DEF ToSet
    <3>4. CASE i > Len(batchToFlush[a])
      BY <2>1, <3>1, <3>2, <3>4, SMTT(30) DEF Window
    <3> QED
      BY <3>1, <3>2, <3>3, <3>4
  <2>3. InFlush(r) \/ r \in ToSet(batchToFlush[a]) => InFlush(r)'
    BY <2>1 DEF InFlush
  <2> QED
    BY <1>0, <2>1, <2>2, <2>3
<1>3. ASSUME NEW a \in Actors, SendBatch(a) PROVE Safe(r)'
  <2>1. /\ handed' = handed \o batchToFlush[a] /\ stage' = [stage EXCEPT ![a] = "leave"]
        /\ UNCHANGED <<next, buffer, batchToFlush, dropped, raced>>
    BY <1>3 DEF SendBatch
  <2>2. ToSet(handed') = ToSet(handed) \cup ToSet(batchToFlush[a])
    BY <2>1, ElementsOf
  <2>3. InFlush(r) => InFlush(r)' \/ r \in ToSet(batchToFlush[a])
    BY <2>1 DEF InFlush
  <2> QED
    BY <1>0, <2>1, <2>2, <2>3
<1>4. ASSUME NEW a \in Actors, SendFails(a) PROVE Safe(r)'
  <2>1. /\ dropped' = dropped \cup ToSet(batchToFlush[a]) /\ stage' = [stage EXCEPT ![a] = "leave"]
        /\ UNCHANGED <<next, buffer, batchToFlush, handed, raced>>
    BY <1>4 DEF SendFails
  <2>2. InFlush(r) => InFlush(r)' \/ r \in ToSet(batchToFlush[a])
    BY <2>1 DEF InFlush
  <2> QED
    BY <1>0, <2>1, <2>2
<1>5. ASSUME NEW a \in Actors, EnterFlush(a) \/ CopyBuffer(a) \/ LeaveFlush(a) PROVE Safe(r)'
  <2>1. /\ stage[a] \in {"enter", "copy", "leave"}
        /\ \A b \in Actors : b # a => stage'[b] = stage[b] /\ batchToFlush'[b] = batchToFlush[b]
        /\ UNCHANGED <<next, buffer, handed, dropped, raced>>
    BY <1>5 DEF EnterFlush, CopyBuffer, LeaveFlush
  <2>2. InFlush(r) => InFlush(r)'
    BY <2>1 DEF InFlush
  <2> QED
    BY <1>0, <2>1, <2>2
<1>6. CASE \/ \E n \in 1..LastOffset : Poll(n)
           \/ CheckSize \/ ListenerReturns \/ IntervalElapses \/ CheckFlush
           \/ BeginStop \/ ContainerStopped \/ EndStop \/ UNCHANGED vars
  <2>1. /\ \A b \in Actors : stage[b] \in {"clear", "send"} => stage'[b] = stage[b]
        /\ UNCHANGED <<next, buffer, batchToFlush, handed, dropped, raced>>
    BY <1>6 DEF Poll, CheckSize, ListenerReturns, IntervalElapses, CheckFlush, BeginStop,
                ContainerStopped, EndStop, vars, Exclusion
  <2>2. InFlush(r) => InFlush(r)'
    BY <2>1 DEF InFlush
  <2> QED
    BY <1>0, <2>1, <2>2
<1> QED
  BY <1>1, <1>2, <1>3, <1>4, <1>5, <1>6, Steps

\* Every step keeps the invariant.
LEMMA NextPreserves == IInv /\ [Next]_vars => IInv'
BY TypePreserved, ExclusionPreserved, OrderPreserved, WindowPreserved, RoomPreserved,
   LossPreserved DEF IInv

\* The invariant that carries the proofs holds in every reachable state.
THEOREM Inductive == Spec => []IInv
BY InitEstablishes, NextPreserves, PTL DEF Spec

\* Records reach ingestLogLines in topic order and none of them twice,
\* whichever of the listener, the scheduler and the stopping thread flushes.
THEOREM OrderCorrect == Spec => []HandedInOrder
<1>1. IInv => HandedInOrder
  BY DEF IInv, Ordered, Increasing, HandedInOrder
<1> QED
  BY <1>1, Inductive, PTL

\* The buffer never outgrows batchSize.
THEOREM BoundCorrect == Spec => []BufferBounded
<1>1. IInv => BufferBounded
  BY DEF IInv, Room, BufferBounded
<1> QED
  BY <1>1, Inductive, PTL

\* A record leaves the buffer without being handed on or reported only when
\* it was added between the copy and the clear of a flush.
THEOREM LossCorrect == Spec => []LostOnlyInWindow
<1>1. IInv => LostOnlyInWindow
  BY DEF IInv
<1> QED
  BY <1>1, Inductive, PTL
=============================================================================
