------------------------ MODULE ScratchStorageProofs ------------------------
(***************************************************************************)
(* Proofs about the scratch directory, for any number of request threads   *)
(* and any URIs, sizes and limits: eviction can find every file it should, *)
(* what a hit serves is complete, and the files that eviction can find     *)
(* exceed the limit by less than one file for each thread and for each     *)
(* request that measured too little.                                       *)
(***************************************************************************)
EXTENDS ScratchStorage, FiniteSetTheorems, TLAPS

\* A call of resolveAndFetch; sizes and times are of no concern here.
CallOf(c) ==
    [pc : {"lookup", "measure", "snapshot", "evict", "forget", "replace", "create", "copy"}, uri : Uris,
     currentSize : {c.currentSize}, blind : {c.blind}, sortedAccess : {c.sortedAccess}, toDelete : {c.toDelete},
     written : Nat]

Files == [by : Requests \cup {"nobody"}, of : Uris \cup {"nothing"}, bytes : Nat]

Types ==
    /\ file \in [Keys -> Files]
    /\ DOMAIN call = Requests
    /\ \A r \in Requests : call[r] = Idle \/ call[r] \in CallOf(call[r])

\* Nothing is written before the file is created.
NotWritten == \A r \in Requests : ~At(r, "idle") /\ ~At(r, "copy") => call[r].written = 0

\* The name a running request is about can be found by eviction, before there
\* is a file of that name.
RequestsTracked == \A r \in Requests : Busy(r) => KeyOf(r) \in DOMAIN accessTimes \cup untracked

\* A file that is open belongs to the thread that copies to it, and has in it
\* what this thread has written; one that is not is complete or aborted.
OpenRight ==
    \A k \in Keys : file[k].by # "nobody" =>
        /\ At(file[k].by, "copy") /\ KeyOf(file[k].by) = k
        /\ file[k].of = call[file[k].by].uri
        /\ file[k].bytes = call[file[k].by].written
ClosedRight ==
    \A k \in Keys : Exists(k) /\ file[k].by = "nobody" =>
        \/ generateCacheKey[file[k].of] = k /\ file[k].bytes = SizeOf[file[k].of]
        \/ k \in aborted

IInv == Types /\ NotWritten /\ FilesTracked /\ RequestsTracked /\ OpenRight /\ ClosedRight

-----------------------------------------------------------------------------
\* What a request keeps while it does not copy.
Follows(c, d) ==
    d \in CallOf(d) /\ d.uri = c.uri /\ d.written = c.written /\ d.pc # "copy"

\* The steps of a request that change one or several fields of its call.
LEMMA CallUpdates ==
    ASSUME NEW c, c \in CallOf(c)
    PROVE  /\ c # Idle /\ c.pc # "idle" /\ c.uri \in Uris /\ c.written \in Nat
           /\ \A pc \in {"measure", "replace", "create"} : Follows(c, [c EXCEPT !.pc = pc])
           /\ \A n : Follows(c, [c EXCEPT !.pc = "replace", !.currentSize = n])
           /\ c.pc # "copy" => \A ts : Follows(c, [c EXCEPT !.sortedAccess = ts])
           /\ \A n, b : Follows(c, [c EXCEPT !.pc = "snapshot", !.currentSize = n, !.blind = b])
           /\ \A ts : Follows(c, [c EXCEPT !.pc = "evict", !.sortedAccess = ts])
           /\ \A n, ts, x : Follows(c, [c EXCEPT !.pc = "forget", !.toDelete = x, !.sortedAccess = ts,
                                                 !.currentSize = n])
           /\ \A n, ts, x : Follows(c, [c EXCEPT !.pc = "replace", !.toDelete = x, !.currentSize = n,
                                                 !.sortedAccess = ts])
           /\ \A x : Follows(c, [c EXCEPT !.pc = "evict", !.toDelete = x])
           /\ [c EXCEPT !.pc = "copy"] \in CallOf([c EXCEPT !.pc = "copy"])
           /\ \A n \in Nat : [c EXCEPT !.written = n] \in CallOf([c EXCEPT !.written = n])
<1>1. c # Idle /\ c.pc # "idle" /\ c.uri \in Uris /\ c.written \in Nat
  BY DEF CallOf, Idle
<1>2. \A pc \in {"measure", "replace", "create"} : Follows(c, [c EXCEPT !.pc = pc])
  BY <1>1 DEF CallOf, Follows
<1>3. \A n : Follows(c, [c EXCEPT !.pc = "replace", !.currentSize = n])
  BY <1>1 DEF CallOf, Follows
<1>4. c.pc # "copy" => \A ts : Follows(c, [c EXCEPT !.sortedAccess = ts])
  BY <1>1 DEF CallOf, Follows
<1>5. \A n, b : Follows(c, [c EXCEPT !.pc = "snapshot", !.currentSize = n, !.blind = b])
  BY <1>1 DEF CallOf, Follows
<1>11. \A ts : Follows(c, [c EXCEPT !.pc = "evict", !.sortedAccess = ts])
  BY <1>1 DEF CallOf, Follows
<1>6. \A n, ts, x : Follows(c, [c EXCEPT !.pc = "forget", !.toDelete = x, !.sortedAccess = ts,
                                         !.currentSize = n])
  BY <1>1, ZenonT(60) DEF CallOf, Follows
<1>7. \A n, ts, x : Follows(c, [c EXCEPT !.pc = "replace", !.toDelete = x, !.currentSize = n,
                                         !.sortedAccess = ts])
  BY <1>1, ZenonT(60) DEF CallOf, Follows
<1>8. \A x : Follows(c, [c EXCEPT !.pc = "evict", !.toDelete = x])
  BY <1>1 DEF CallOf, Follows
<1>9. [c EXCEPT !.pc = "copy"] \in CallOf([c EXCEPT !.pc = "copy"])
  BY <1>1 DEF CallOf
<1>10. \A n \in Nat : [c EXCEPT !.written = n] \in CallOf([c EXCEPT !.written = n])
  BY <1>1 DEF CallOf
<1> QED
  BY <1>1, <1>2, <1>3, <1>4, <1>5, <1>6, <1>7, <1>8, <1>9, <1>10, <1>11

\* What is known of a request that runs.
LEMMA Running ==
    ASSUME IInv, NEW r \in Requests, call[r].pc # "idle"
    PROVE  /\ Busy(r) /\ call[r] \in CallOf(call[r]) /\ call[r].uri \in Uris
           /\ KeyOf(r) \in Keys /\ DOMAIN call = Requests
           /\ KeyOf(r) \in DOMAIN accessTimes \cup untracked
           /\ call[r].pc # "copy" => call[r].written = 0
<1>1. call[r] # Idle /\ call[r] \in CallOf(call[r]) /\ DOMAIN call = Requests
  BY DEF IInv, Types, Idle
<1>2. call[r].uri \in Uris
  BY <1>1, CallUpdates
<1>3. KeyOf(r) \in Keys
  BY <1>2 DEF KeyOf, Keys
<1> QED
  BY <1>1, <1>2, <1>3 DEF Busy, IInv, RequestsTracked, NotWritten, At

\* A request that keeps its name, or ends, is tracked as before.
LEMMA SameKey ==
    ASSUME IInv, NEW r \in Requests, Busy(r), NEW c, c = Idle \/ c.uri = call[r].uri,
           call' = [call EXCEPT ![r] = c], UNCHANGED <<accessTimes, untracked>>
    PROVE  RequestsTracked'
<1>1. DOMAIN call = Requests
  BY DEF IInv, Types
<1>2. call'[r] = c /\ \A q \in Requests \ {r} : call'[q] = call[q]
  BY <1>1
<1> QED
  BY <1>2 DEF IInv, RequestsTracked, Busy, KeyOf

\* A request that does not copy takes a step: at most, files are deleted.
LEMMA Move ==
    ASSUME IInv, NEW r \in Requests, call[r].pc # "copy",
           NEW c, c = Idle \/ c \in CallOf(c), c = Idle \/ c.written = 0,
           call' = [call EXCEPT ![r] = c], file' \in [Keys -> Files],
           \A k \in Keys : \/ file'[k] = NoFile
                           \/ file'[k] = file[k] /\ (k \in aborted => k \in aborted'),
           FilesTracked', RequestsTracked'
    PROVE  IInv'
<1>1. DOMAIN call = Requests /\ file \in [Keys -> Files]
  BY DEF IInv, Types
<1>2. DOMAIN call' = Requests /\ call'[r] = c /\ \A q \in Requests \ {r} : call'[q] = call[q]
  BY <1>1
<1>3. Types'
  <2>1. ASSUME NEW q \in Requests PROVE call'[q] = Idle \/ call'[q] \in CallOf(call'[q])
    BY <1>2 DEF IInv, Types
  <2>2. \A q \in Requests : CallOf(call[q])' = CallOf(call'[q])
    BY DEF CallOf
  <2> QED
    BY <1>2, <2>1, <2>2 DEF Types
<1>4. OpenRight'
  <2> SUFFICES ASSUME NEW k \in Keys, file'[k].by # "nobody"
               PROVE  /\ call'[file'[k].by].pc = "copy"
                      /\ generateCacheKey[call'[file'[k].by].uri] = k
                      /\ file'[k].of = call'[file'[k].by].uri
                      /\ file'[k].bytes = call'[file'[k].by].written
    BY DEF OpenRight, At, KeyOf
  <2>1. file'[k] = file[k]
    BY DEF NoFile
  <2>2. At(file[k].by, "copy") /\ file[k].by \in Requests /\ file[k].by # r
    BY <1>1, <2>1 DEF IInv, OpenRight, At, Files
  <2>3. call'[file[k].by] = call[file[k].by]
    BY <1>2, <2>2
  <2> QED
    BY <2>1, <2>2, <2>3 DEF IInv, OpenRight, At, KeyOf
<1>5. ClosedRight'
  BY DEF IInv, ClosedRight, Exists
<1>6. NotWritten'
  BY <1>2 DEF IInv, NotWritten, At, Idle
<1> QED
  BY <1>3, <1>4, <1>5, <1>6 DEF IInv

\* A request creates its file, writes to it or closes it.
LEMMA Write ==
    ASSUME IInv, NEW r \in Requests, call[r].pc \in {"create", "copy"},
           NEW c, c = Idle \/ (c \in CallOf(c) /\ c.uri = call[r].uri),
           NEW f \in Files, file' = [file EXCEPT ![KeyOf(r)] = f],
           call' = [call EXCEPT ![r] = c], UNCHANGED <<accessTimes, untracked>>,
           aborted \subseteq aborted', f.by = r => c.pc = "copy" /\ f.of = c.uri /\ f.bytes = c.written,
           c = Idle \/ c.pc = "copy",
           f.by # r => \/ f = file[KeyOf(r)]
                       \/ /\ f.by = "nobody"
                          /\ \/ f = NoFile \/ KeyOf(r) \in aborted'
                             \/ generateCacheKey[f.of] = KeyOf(r) /\ f.bytes = SizeOf[f.of]
    PROVE  IInv'
<1> DEFINE k == KeyOf(r)
<1>0. DOMAIN call = Requests /\ file \in [Keys -> Files] /\ k \in Keys /\ Busy(r)
      /\ k \in DOMAIN accessTimes \cup untracked /\ call[r].uri \in Uris
  BY Running DEF IInv, Types
<1>1. /\ DOMAIN call' = Requests /\ call'[r] = c /\ \A q \in Requests \ {r} : call'[q] = call[q]
      /\ file' \in [Keys -> Files] /\ file'[k] = f /\ \A j \in Keys \ {k} : file'[j] = file[j]
  BY <1>0
<1>2. \A j \in Keys : file[j].by = r => j = k
  BY <1>0, ScratchAssumption DEF IInv, OpenRight
<1>3. Types'
  <2>1. ASSUME NEW q \in Requests PROVE call'[q] = Idle \/ call'[q] \in CallOf(call'[q])
    BY <1>1 DEF IInv, Types
  <2>2. \A q \in Requests : CallOf(call[q])' = CallOf(call'[q])
    BY DEF CallOf
  <2> QED
    BY <1>1, <2>1, <2>2 DEF Types
<1>4. FilesTracked'
  BY <1>0, <1>1 DEF IInv, FilesTracked, Exists
<1>5. RequestsTracked'
  BY <1>0, SameKey
<1>6. OpenRight'
  <2> SUFFICES ASSUME NEW j \in Keys, file'[j].by # "nobody"
               PROVE  /\ call'[file'[j].by].pc = "copy"
                      /\ generateCacheKey[call'[file'[j].by].uri] = j
                      /\ file'[j].of = call'[file'[j].by].uri
                      /\ file'[j].bytes = call'[file'[j].by].written
    BY DEF OpenRight, At, KeyOf
  <2>1. CASE file'[j].by = r
    <3>1. j = k /\ f.by = r
      BY <1>1, <1>2, <2>1
    <3>2. c.pc = "copy" /\ c # Idle /\ c.uri = call[r].uri
      BY <3>1 DEF Idle
    <3> QED
      BY <1>1, <2>1, <3>1, <3>2 DEF At, KeyOf
  <2>2. CASE file'[j].by # r
    <3>1. file'[j] = file[j]
      BY <1>1, <2>2
    <3>2. file[j].by \in Requests \ {r}
      BY <1>0, <2>2, <3>1 DEF Files
    <3>3. call'[file[j].by] = call[file[j].by]
      BY <1>1, <3>2
    <3> QED
      BY <3>1, <3>2, <3>3 DEF IInv, OpenRight, At, KeyOf
  <2> QED
    BY <2>1, <2>2
<1>7. ClosedRight'
  <2> SUFFICES ASSUME NEW j \in Keys, file'[j] # NoFile, file'[j].by = "nobody"
               PROVE  \/ generateCacheKey[file'[j].of] = j /\ file'[j].bytes = SizeOf[file'[j].of]
                      \/ j \in aborted'
    BY DEF ClosedRight, Exists
  <2>1. CASE file'[j] = file[j]
    BY <2>1 DEF IInv, ClosedRight, Exists
  <2>2. CASE file'[j] # file[j]
    <3>1. j = k /\ f.by # r
      BY <1>1, <2>2, ScratchAssumption
    <3> QED
      BY <1>1, <2>2, <3>1
  <2> QED
    BY <2>1, <2>2
<1>8. NotWritten'
  BY <1>1 DEF IInv, NotWritten, At, Idle
<1> QED
  BY <1>3, <1>4, <1>5, <1>6, <1>7, <1>8 DEF IInv

-----------------------------------------------------------------------------
\* A request goes on, or ends, and leaves directory and access times alone.
LEMMA Stay ==
    ASSUME IInv, NEW r \in Requests, call[r].pc \notin {"idle", "copy"},
           NEW c, c = Idle \/ Follows(call[r], c), call' = [call EXCEPT ![r] = c],
           UNCHANGED <<file, accessTimes, untracked, aborted>>
    PROVE  IInv'
<1>1. Busy(r) /\ file \in [Keys -> Files] /\ call[r].written = 0
  BY Running DEF IInv, Types
<1>2. RequestsTracked'
  BY <1>1, SameKey DEF Follows
<1>3. FilesTracked'
  BY DEF IInv, FilesTracked, Exists
<1> QED
  BY <1>1, <1>2, <1>3, Move DEF Follows

\* A request goes on and deletes a file.
LEMMA Delete ==
    ASSUME IInv, NEW r \in Requests, call[r].pc \notin {"idle", "copy"}, NEW c, Follows(call[r], c),
           call' = [call EXCEPT ![r] = c], NEW k \in Keys, file' = [file EXCEPT ![k] = NoFile],
           aborted' = aborted \ {k}, UNCHANGED <<accessTimes, untracked>>
    PROVE  IInv'
<1>1. Busy(r) /\ file \in [Keys -> Files] /\ NoFile \in Files /\ call[r].written = 0
  BY Running DEF IInv, Types, NoFile, Files
<1>2. file' \in [Keys -> Files] /\ file'[k] = NoFile /\ \A j \in Keys \ {k} : file'[j] = file[j]
  BY <1>1
<1>3. RequestsTracked'
  BY <1>1, SameKey DEF Follows
<1>4. FilesTracked'
  BY <1>2 DEF IInv, FilesTracked, Exists
<1> QED
  BY <1>1, <1>2, <1>3, <1>4, Move DEF Follows

\* resolveAndFetch begins: its name has an access time from now on.
LEMMA TouchStep ==
    ASSUME IInv, NEW r \in Requests, NEW u \in Uris, Touch(r, u)
    PROVE  IInv'
<1> DEFINE c == [pc |-> "lookup", uri |-> u, currentSize |-> 0, blind |-> FALSE, sortedAccess |-> NoTimes,
                 toDelete |-> {}, written |-> 0]
           k == generateCacheKey[u]
<1>1. c \in CallOf(c) /\ c.uri = u /\ c.written = 0
  BY DEF CallOf
<1>2. DOMAIN call = Requests /\ file \in [Keys -> Files] /\ call[r].pc # "copy"
  BY DEF IInv, Types, Touch, Busy, Idle
<1>3. call' = [call EXCEPT ![r] = c] /\ UNCHANGED <<file, aborted>> /\ untracked' = untracked \ {k}
      /\ DOMAIN accessTimes' = DOMAIN accessTimes \cup {k}
  BY DEF Touch, Put
<1> HIDE DEF c
<1>4. call'[r] = c /\ \A q \in Requests \ {r} : call'[q] = call[q]
  BY <1>2, <1>3
<1>5. DOMAIN accessTimes \cup untracked \subseteq DOMAIN accessTimes' \cup untracked'
      /\ k \in DOMAIN accessTimes'
  BY <1>3
<1>6. FilesTracked'
  BY <1>3, <1>5 DEF IInv, FilesTracked, Exists
<1>7. RequestsTracked'
  BY <1>1, <1>4, <1>5 DEF IInv, RequestsTracked, Busy, KeyOf
<1> QED
  BY <1>1, <1>2, <1>3, <1>6, <1>7, Move

\* The lookup, and evictIfNecessary before and after its loop.
LEMMA LookupStep ==
    ASSUME IInv, NEW r \in Requests,
           \/ Lookup(r) \/ MeasureThrows(r) \/ \E unread \in SUBSET Keys : Measure(r, unread)
           \/ TakeSnapshot(r) \/ EvictEnds(r) \/ OpenFails(r)
    PROVE  IInv'
<1>1. call[r].pc \notin {"idle", "copy"} /\ UNCHANGED <<file, accessTimes, untracked, aborted>>
  BY DEF Lookup, MeasureThrows, Measure, TakeSnapshot, EvictEnds, OpenFails, At
<1>2. call[r] \in CallOf(call[r])
  BY <1>1, Running
<1>3. CASE Lookup(r)
  <2>1. Follows(call[r], [call[r] EXCEPT !.pc = "measure"])
    BY <1>2, CallUpdates
  <2>2. call' = [call EXCEPT ![r] = Idle] \/ call' = [call EXCEPT ![r] = [call[r] EXCEPT !.pc = "measure"]]
    BY <1>3 DEF Lookup, Return, Goto
  <2> QED
    BY <1>1, <2>1, <2>2, Stay
<1>4. ASSUME NEW unread \in SUBSET Keys, Measure(r, unread) PROVE IInv'
  <2> DEFINE n == getCacheSizeInBytes(unread)
             b == Misread(unread)
             c == [call[r] EXCEPT !.pc = "snapshot", !.currentSize = n, !.blind = b]
             d == [call[r] EXCEPT !.pc = "replace"]
  <2>2. call' = [call EXCEPT ![r] = c] \/ call' = [call EXCEPT ![r] = d]
    BY <1>4 DEF Measure, Goto
  <2> HIDE DEF n, b
  <2>1. Follows(call[r], c) /\ Follows(call[r], d)
    BY <1>2, CallUpdates
  <2> HIDE DEF c, d
  <2> QED
    BY <1>1, <2>1, <2>2, Stay
<1>5. CASE EvictEnds(r)
  <2>1. Follows(call[r], [call[r] EXCEPT !.pc = "replace", !.currentSize = 0])
    BY <1>2, CallUpdates
  <2>2. call' = [call EXCEPT ![r] = [call[r] EXCEPT !.pc = "replace", !.currentSize = 0]]
    BY <1>5 DEF EvictEnds
  <2> QED
    BY <1>1, <2>1, <2>2, Stay
<1>6. CASE TakeSnapshot(r)
  <2>1. Follows(call[r], [call[r] EXCEPT !.pc = "evict", !.sortedAccess = accessTimes])
    BY <1>2, CallUpdates
  <2>2. call' = [call EXCEPT ![r] = [call[r] EXCEPT !.pc = "evict", !.sortedAccess = accessTimes]]
    BY <1>6 DEF TakeSnapshot
  <2> QED
    BY <1>1, <2>1, <2>2, Stay
<1>7. CASE MeasureThrows(r) \/ OpenFails(r)
  <2>1. call' = [call EXCEPT ![r] = Idle]
    BY <1>7 DEF MeasureThrows, OpenFails, Return
  <2> QED
    BY <1>1, <2>1, Stay
<1> QED
  BY <1>3, <1>4, <1>5, <1>6, <1>7

\* One round of the eviction loop.
LEMMA EvictOneStep ==
    ASSUME IInv, NEW r \in Requests, NEW k \in Keys, EvictOne(r, k) \/ EvictFails(r, k)
    PROVE  IInv'
<1> DEFINE rest == Without(call[r].sortedAccess, k)
           n == call[r].currentSize - file[k].bytes
           c == [call[r] EXCEPT !.pc = "forget", !.toDelete = {k}, !.sortedAccess = rest,
                                !.currentSize = n]
           d == [call[r] EXCEPT !.sortedAccess = rest]
<1>1. call[r].pc \notin {"idle", "copy"} /\ UNCHANGED <<accessTimes, untracked>>
  BY DEF EvictOne, EvictFails, At
<1>2. call[r] \in CallOf(call[r])
  BY <1>1, Running
<1>3. \/ call' = [call EXCEPT ![r] = c] /\ file' = [file EXCEPT ![k] = NoFile] /\ aborted' = aborted \ {k}
      \/ call' = [call EXCEPT ![r] = d] /\ UNCHANGED <<file, aborted>>
  BY DEF EvictOne, EvictFails
<1> HIDE DEF n, rest
<1>4. Follows(call[r], c) /\ Follows(call[r], d)
  BY <1>1, <1>2, CallUpdates
<1> HIDE DEF c, d
<1> QED
  BY <1>1, <1>3, <1>4, Stay, Delete

\* The access time of the deleted file goes; a request for the name that runs
\* meanwhile makes it untracked.
LEMMA ForgetStep ==
    ASSUME IInv, NEW r \in Requests, NEW k \in Keys, Forget(r, k)
    PROVE  IInv'
<1> DEFINE c == [call[r] EXCEPT !.pc = "evict", !.toDelete = {}]
           d == [call[r] EXCEPT !.pc = "replace", !.toDelete = {}, !.currentSize = 0,
                                !.sortedAccess = NoTimes]
           Gone == {j \in {k} : Exists(j) \/ \E q \in Requests : Busy(q) /\ KeyOf(q) = j}
<1>1. call[r].pc = "forget" /\ UNCHANGED <<file, aborted>> /\ untracked' = untracked \cup Gone
      /\ DOMAIN accessTimes' = DOMAIN accessTimes \ {k}
  BY DEF Forget, At, Restrict
<1>2. call[r] \in CallOf(call[r]) /\ Busy(r) /\ DOMAIN call = Requests /\ file \in [Keys -> Files]
      /\ call[r].written = 0
  BY <1>1, Running DEF IInv, Types
<1>3. Follows(call[r], c) /\ Follows(call[r], d)
  BY <1>2, CallUpdates
<1>4. call' = [call EXCEPT ![r] = c] \/ call' = [call EXCEPT ![r] = d]
  BY DEF Forget
<1> HIDE DEF c, d
<1>5. PICK e : Follows(call[r], e) /\ call' = [call EXCEPT ![r] = e]
  BY <1>3, <1>4
<1>6. call'[r] = e /\ e.uri = call[r].uri /\ \A q \in Requests \ {r} : call'[q] = call[q]
  BY <1>2, <1>5 DEF Follows
<1>7. \A q \in Requests : Busy(q)' => Busy(q) /\ KeyOf(q)' = KeyOf(q)
  BY <1>2, <1>6 DEF Busy, KeyOf
<1>8. FilesTracked'
  BY <1>1 DEF IInv, FilesTracked, Exists
<1>9. RequestsTracked'
  <2> SUFFICES ASSUME NEW q \in Requests, Busy(q)'
               PROVE  KeyOf(q)' \in DOMAIN accessTimes' \cup untracked'
    BY DEF RequestsTracked
  <2>1. Busy(q) /\ KeyOf(q)' = KeyOf(q) /\ KeyOf(q) \in DOMAIN accessTimes \cup untracked
    BY <1>7 DEF IInv, RequestsTracked
  <2>2. KeyOf(q) = k => KeyOf(q) \in Gone
    BY <2>1
  <2> QED
    BY <1>1, <2>1, <2>2
<1> QED
  BY <1>1, <1>2, <1>5, <1>8, <1>9, Move DEF Follows

\* Files.copy deletes a file of the name.
LEMMA ReplaceStep ==
    ASSUME IInv, NEW r \in Requests, Replace(r)
    PROVE  IInv'
<1>1. call[r].pc = "replace" /\ UNCHANGED <<accessTimes, untracked>>
      /\ file' = [file EXCEPT ![KeyOf(r)] = NoFile] /\ aborted' = aborted \ {KeyOf(r)}
      /\ call' = [call EXCEPT ![r] = [call[r] EXCEPT !.pc = "create"]]
  BY DEF Replace, At, Goto
<1>2. Follows(call[r], [call[r] EXCEPT !.pc = "create"]) /\ KeyOf(r) \in Keys
  BY <1>1, Running, CallUpdates
<1> QED
  BY <1>1, <1>2, Delete

\* The new file is created, or the copy fails since there is one already.
LEMMA CreateStep ==
    ASSUME IInv, NEW r \in Requests, Create(r)
    PROVE  IInv'
<1> DEFINE c == [call[r] EXCEPT !.pc = "copy"]
           f == [by |-> r, of |-> call[r].uri, bytes |-> 0]
<1>1. call[r].pc = "create" /\ UNCHANGED <<accessTimes, untracked, aborted>>
  BY DEF Create, At
<1>2. call[r] \in CallOf(call[r]) /\ call[r].uri \in Uris /\ call[r].written = 0
  BY <1>1, Running
<1>3. c \in CallOf(c) /\ c.uri = call[r].uri /\ c.written = 0 /\ c.pc = "copy"
  BY <1>2, CallUpdates DEF CallOf
<1>4. f \in Files /\ f.by = r /\ f.of = call[r].uri /\ f.bytes = 0
  BY <1>2 DEF Files
<1>5. \/ call' = [call EXCEPT ![r] = Idle] /\ UNCHANGED file
      \/ call' = [call EXCEPT ![r] = c] /\ file' = [file EXCEPT ![KeyOf(r)] = f]
  BY DEF Create, Return, Goto
<1> HIDE DEF c, f
<1>6. CASE call' = [call EXCEPT ![r] = Idle] /\ UNCHANGED file
  BY <1>1, <1>6, Stay
<1>7. CASE call' = [call EXCEPT ![r] = c] /\ file' = [file EXCEPT ![KeyOf(r)] = f]
  BY <1>1, <1>3, <1>4, <1>7, Write
<1> QED
  BY <1>5, <1>6, <1>7

\* What the file of a thread that copies looks like, if it still has it.
LEMMA Owner ==
    ASSUME IInv, NEW r \in Requests, At(r, "copy")
    PROVE  /\ KeyOf(r) \in Keys /\ file[KeyOf(r)] \in Files /\ file \in [Keys -> Files]
           /\ call[r] \in CallOf(call[r]) /\ call[r].uri \in Uris /\ call[r].written \in Nat
           /\ Owns(r) => /\ file[KeyOf(r)].of = call[r].uri
                         /\ file[KeyOf(r)].bytes = call[r].written
<1>1. KeyOf(r) \in Keys /\ call[r] \in CallOf(call[r]) /\ call[r].uri \in Uris
  BY Running DEF At
<1>2. call[r].written \in Nat
  BY <1>1, CallUpdates
<1>3. file \in [Keys -> Files]
  BY DEF IInv, Types
<1> QED
  BY <1>1, <1>2, <1>3, ScratchAssumption DEF IInv, OpenRight, Owns

\* A buffer is written.
LEMMA CopyStep ==
    ASSUME IInv, NEW r \in Requests, Copy(r)
    PROVE  IInv'
<1> DEFINE n == call[r].written + 1
           c == [call[r] EXCEPT !.written = n]
           f == IF Owns(r) THEN [file[KeyOf(r)] EXCEPT !.bytes = @ + 1] ELSE file[KeyOf(r)]
<1>1. At(r, "copy") /\ call[r].pc = "copy" /\ UNCHANGED <<accessTimes, untracked, aborted>>
  BY DEF Copy, At
<1>2. /\ KeyOf(r) \in Keys /\ file[KeyOf(r)] \in Files /\ file \in [Keys -> Files]
      /\ call[r] \in CallOf(call[r]) /\ call[r].uri \in Uris /\ call[r].written \in Nat
      /\ Owns(r) => /\ file[KeyOf(r)].of = call[r].uri
                    /\ file[KeyOf(r)].bytes = call[r].written
  BY <1>1, Owner
<1>3. n \in Nat /\ call' = [call EXCEPT ![r] = c]
  BY <1>2 DEF Copy
<1>4. file' = [file EXCEPT ![KeyOf(r)] = f]
  BY <1>2 DEF Copy
<1>5. c \in CallOf(c) /\ c.uri = call[r].uri /\ c.written = n /\ c.pc = "copy"
  <2> HIDE DEF n
  <2> QED
    BY <1>1, <1>2, <1>3, CallUpdates DEF CallOf
<1>6. f \in Files /\ f.by = file[KeyOf(r)].by
  BY <1>2 DEF Files
<1>7. f.by = r => f.of = call[r].uri /\ f.bytes = n
  <2>1. CASE Owns(r)
    BY <1>2, <2>1 DEF Files
  <2>2. CASE ~Owns(r)
    BY <1>6, <2>2 DEF Owns
  <2> QED
    BY <2>1, <2>2
<1>8. f.by # r => f = file[KeyOf(r)]
  BY <1>6 DEF Owns
<1> HIDE DEF c, f, n
<1> QED
  BY <1>1, <1>3, <1>4, <1>5, <1>6, <1>7, <1>8, Write

\* Closing the file a thread has open.
LEMMA Closing ==
    ASSUME IInv, NEW r \in Requests, At(r, "copy")
    PROVE  LET f == IF Owns(r) THEN [file[KeyOf(r)] EXCEPT !.by = "nobody"] ELSE file[KeyOf(r)]
           IN  /\ f \in Files /\ f.by # r /\ Closed(OpenBy(r)) = [file EXCEPT ![KeyOf(r)] = f]
               /\ \/ ~Owns(r) /\ f = file[KeyOf(r)] /\ OpenBy(r) = {}
                  \/ /\ Owns(r) /\ f.by = "nobody" /\ f.of = call[r].uri
                     /\ f.bytes = call[r].written /\ OpenBy(r) = {KeyOf(r)}
<1> DEFINE f == IF Owns(r) THEN [file[KeyOf(r)] EXCEPT !.by = "nobody"] ELSE file[KeyOf(r)]
<1>1. /\ KeyOf(r) \in Keys /\ file[KeyOf(r)] \in Files /\ file \in [Keys -> Files]
      /\ Owns(r) => /\ file[KeyOf(r)].of = call[r].uri
                    /\ file[KeyOf(r)].bytes = call[r].written
  BY Owner
<1>2. f \in Files /\ f.by # r
  BY <1>1, ScratchAssumption DEF Files, Owns
<1>3. OpenBy(r) = IF Owns(r) THEN {KeyOf(r)} ELSE {}
  BY <1>1 DEF OpenBy
<1>4. Closed(OpenBy(r)) = [file EXCEPT ![KeyOf(r)] = f]
  BY <1>1, <1>3 DEF Closed
<1>5. Owns(r) => f.by = "nobody" /\ f.of = call[r].uri /\ f.bytes = call[r].written
  BY <1>1 DEF Files
<1> QED
  BY <1>2, <1>3, <1>4, <1>5

\* The copy ends, with all of the file, or fails with a part of it.
LEMMA CopyEndsStep ==
    ASSUME IInv, NEW r \in Requests, CopyEnds(r) \/ CopyFails(r)
    PROVE  IInv'
<1> DEFINE f == IF Owns(r) THEN [file[KeyOf(r)] EXCEPT !.by = "nobody"] ELSE file[KeyOf(r)]
<1>1. At(r, "copy") /\ call[r].pc = "copy" /\ UNCHANGED <<accessTimes, untracked>>
      /\ call' = [call EXCEPT ![r] = Idle] /\ file' = Closed(OpenBy(r))
  BY DEF CopyEnds, CopyFails, At, Return
<1>2. /\ f \in Files /\ f.by # r /\ file' = [file EXCEPT ![KeyOf(r)] = f]
      /\ \/ f = file[KeyOf(r)] /\ OpenBy(r) = {}
         \/ f.by = "nobody" /\ f.of = call[r].uri /\ f.bytes = call[r].written /\ OpenBy(r) = {KeyOf(r)}
  BY <1>1, Closing
<1> HIDE DEF f
<1>3. CASE CopyEnds(r)
  <2>1. aborted' = aborted /\ call[r].written = SizeOf[call[r].uri]
    BY <1>3 DEF CopyEnds, AtEnd
  <2>2. generateCacheKey[call[r].uri] = KeyOf(r)
    BY DEF KeyOf
  <2> QED
    BY <1>1, <1>2, <2>1, <2>2, Write
<1>4. CASE CopyFails(r)
  <2>1. aborted' = aborted \cup OpenBy(r)
    BY <1>4 DEF CopyFails
  <2> QED
    BY <1>1, <1>2, <2>1, Write
<1> QED
  BY <1>3, <1>4

\* A restart closes all files: the ones that were being copied are aborted,
\* and those there are have no access time any more.
LEMMA RestartStep ==
    ASSUME IInv, Restart
    PROVE  IInv'
<1>1. /\ file \in [Keys -> Files] /\ call' = [r \in Requests |-> Idle] /\ file' = Closed(Keys)
      /\ untracked' = {k \in Keys : Exists(k)}
      /\ aborted' = aborted \cup UNION {OpenBy(r) : r \in Requests}
  BY DEF IInv, Types, Restart
<1>2. /\ file' \in [Keys -> Files]
      /\ \A k \in Keys : /\ file'[k].by = "nobody" /\ file'[k].of = file[k].of
                         /\ file'[k].bytes = file[k].bytes
                         /\ file[k].by = "nobody" => file'[k] = file[k]
  BY <1>1 DEF Closed, Files
<1>3. \A k \in Keys : Exists(k)' => Exists(k)
  BY <1>2 DEF Exists, NoFile
<1>4. \A k \in Keys : file[k].by # "nobody" => k \in aborted'
  <2> SUFFICES ASSUME NEW k \in Keys, file[k].by # "nobody" PROVE k \in aborted'
    OBVIOUS
  <2>1. file[k].by \in Requests /\ At(file[k].by, "copy") /\ KeyOf(file[k].by) = k
    BY <1>1 DEF IInv, OpenRight, Files
  <2>2. k \in OpenBy(file[k].by)
    BY <2>1 DEF OpenBy, Owns
  <2> QED
    BY <1>1, <2>1, <2>2
<1>5. Types'
  BY <1>1, <1>2 DEF Types
<1>6. NotWritten' /\ RequestsTracked'
  BY <1>1 DEF NotWritten, RequestsTracked, At, Idle, Busy
<1>7. FilesTracked'
  BY <1>1, <1>3 DEF FilesTracked
<1>8. OpenRight'
  BY <1>2 DEF OpenRight
<1>9. ClosedRight'
  BY <1>1, <1>2, <1>3, <1>4 DEF IInv, ClosedRight, Exists
<1> QED
  BY <1>5, <1>6, <1>7, <1>8, <1>9 DEF IInv

-----------------------------------------------------------------------------
\* At the start the directory is empty and no request runs.
LEMMA InitEstablishes == Init => IInv
<1> SUFFICES ASSUME Init PROVE IInv
  OBVIOUS
<1>1. \A k \in Keys : file[k] = NoFile /\ file[k].by = "nobody"
  BY DEF Init, NoFile
<1>2. file \in [Keys -> Files]
  BY DEF Init, NoFile, Files
<1>3. \A r \in Requests : call[r] = Idle /\ call[r].pc = "idle"
  BY DEF Init, Idle
<1>4. Types
  BY <1>2, <1>3 DEF Init, Types
<1> QED
  BY <1>1, <1>3, <1>4
     DEF IInv, NotWritten, FilesTracked, RequestsTracked, OpenRight, ClosedRight, Exists, Busy, At

\* Every step keeps the invariant.
LEMMA NextPreserves == IInv /\ [Next]_vars => IInv'
<1> SUFFICES ASSUME IInv, [Next]_vars PROVE IInv'
  OBVIOUS
<1>1. ASSUME NEW r \in Requests, Proceed(r) \/ Download(r) PROVE IInv'
  BY <1>1, LookupStep, EvictOneStep, ForgetStep, ReplaceStep, CreateStep, CopyStep, CopyEndsStep
     DEF Proceed, Evict, Download
<1>2. CASE UNCHANGED vars
  BY <1>2 DEF vars, counts, IInv, Types, CallOf, NotWritten, FilesTracked, RequestsTracked,
              OpenRight, ClosedRight, Exists, Busy, At, KeyOf
<1> QED
  BY <1>1, <1>2, TouchStep, CopyEndsStep, RestartStep DEF Next

-----------------------------------------------------------------------------
\* Names that requests run for are tracked, an open file belongs to the
\* thread that copies to it, and a closed one is complete or aborted.
THEOREM Inductive == Spec => []IInv
  BY InitEstablishes, NextPreserves, PTL DEF Spec

\* evictIfNecessary can find every file in the directory through its access
\* time, unless a restart or an eviction that overlapped a request for the
\* name has dropped it.
THEOREM TrackingCorrect == Spec => []FilesTracked
<1>1. IInv => FilesTracked
  BY DEF IInv
<1> QED
  BY <1>1, Inductive, PTL

\* A hit of resolveAndFetch serves the whole of what its name stands for,
\* unless a download of it runs or has failed, however requests replace,
\* evict and copy the same names at the same time.
THEOREM HitsCorrect == Spec => []HitsAreComplete
<1>1. ASSUME IInv PROVE HitsAreComplete
  <2> SUFFICES ASSUME NEW k \in Keys, Exists(k), file[k].by # "nobody"
               PROVE  \E r \in Requests : k \in OpenBy(r)
    BY <1>1 DEF HitsAreComplete, IInv, ClosedRight
  <2>1. file[k].by \in Requests /\ At(file[k].by, "copy") /\ KeyOf(file[k].by) = k
    BY <1>1 DEF IInv, Types, OpenRight, Files
  <2>2. k \in OpenBy(file[k].by)
    BY <2>1 DEF OpenBy, Owns
  <2> QED
    BY <2>1, <2>2
<1> QED
  BY <1>1, Inductive, PTL

-----------------------------------------------------------------------------
(* Sums of sizes, as numbers of bytes: byte i of file k is the pair k, i.   *)

BytesIn(f, S) == {b \in S \X (1..MaxSize) : b[2] <= f[b[1]].bytes}
Amount(f, S) == Cardinality(BytesIn(f, S))

\* There are finitely many bytes.
LEMMA AmountType ==
    ASSUME NEW f, NEW S \in SUBSET Keys
    PROVE  IsFiniteSet(BytesIn(f, S)) /\ Amount(f, S) \in Nat
<1>1. IsFiniteSet(S) /\ IsFiniteSet(1..MaxSize)
  BY ScratchAssumption, FS_Subset, FS_Interval
<1>2. IsFiniteSet(S \X (1..MaxSize))
  BY ONLY <1>1, FS_Product
<1>3. BytesIn(f, S) \in SUBSET (S \X (1..MaxSize))
  BY DEF BytesIn
<1>4. IsFiniteSet(BytesIn(f, S))
  BY ONLY <1>2, <1>3, FS_Subset
<1> QED
  BY <1>4, FS_CardinalityType DEF Amount

\* No file grew and none was added.
LEMMA AmountMonotone ==
    ASSUME NEW f, NEW g, NEW S \in SUBSET Keys, NEW R \in SUBSET Keys,
           \A k \in S : f[k].bytes \in Nat /\ g[k].bytes \in Nat,
           \A k \in S : f[k].bytes > 0 => k \in R /\ f[k].bytes <= g[k].bytes
    PROVE  Amount(f, S) <= Amount(g, R)
<1>1. BytesIn(f, S) \subseteq BytesIn(g, R)
  <2> SUFFICES ASSUME NEW k \in S, NEW i \in 1..MaxSize, i <= f[k].bytes
               PROVE  k \in R /\ i <= g[k].bytes
    BY DEF BytesIn
  <2>1. i \in Nat /\ i >= 1 /\ f[k].bytes \in Nat /\ g[k].bytes \in Nat
    BY ScratchAssumption
  <2>2. f[k].bytes > 0
    BY <2>1
  <2> QED
    BY <2>1, <2>2
<1>2. IsFiniteSet(BytesIn(g, R))
  BY AmountType
<1> QED
  BY ONLY <1>1, <1>2, FS_Subset DEF Amount

\* The bytes of one file.
LEMMA AmountOfOne ==
    ASSUME NEW f, NEW k \in Keys, f[k].bytes \in 0..MaxSize
    PROVE  Amount(f, {k}) = f[k].bytes
<1> DEFINE n == f[k].bytes
<1>0. n \in Nat /\ n <= MaxSize /\ MaxSize \in Nat
  BY ScratchAssumption
<1>1. BytesIn(f, {k}) = {k} \X (1..n)
  <2>1. ASSUME NEW b \in {k} \X (1..MaxSize), b[2] <= f[b[1]].bytes PROVE b \in {k} \X (1..n)
    BY <1>0, <2>1
  <2>2. ASSUME NEW b \in {k} \X (1..n) PROVE b \in {k} \X (1..MaxSize) /\ b[2] <= f[b[1]].bytes
    BY <1>0
  <2> QED
    BY <2>1, <2>2 DEF BytesIn
<1> HIDE DEF n
<1>2. IsFiniteSet(1..n) /\ Cardinality(1..n) = n
  <2>1. 1 \in Int /\ n \in Int /\ (IF 1 > n THEN 0 ELSE n - 1 + 1) = n
    BY <1>0
  <2> QED
    BY ONLY <2>1, FS_Interval
<1>3. IsFiniteSet({k}) /\ Cardinality({k}) = 1
  BY FS_Singleton
<1>4. Cardinality({k} \X (1..n)) = Cardinality({k}) * Cardinality(1..n)
  BY ONLY <1>2, <1>3, FS_Product
<1>5. Cardinality({k} \X (1..n)) = n
  BY <1>0, <1>2, <1>3, <1>4
<1> QED
  BY <1>1, <1>5 DEF Amount, n

\* Two sets of files, and what they have in common.
LEMMA AmountUnion ==
    ASSUME NEW f, NEW S \in SUBSET Keys, NEW R \in SUBSET Keys
    PROVE  /\ Amount(f, S \cup R) <= Amount(f, S) + Amount(f, R)
           /\ S \cap R = {} => Amount(f, S \cup R) = Amount(f, S) + Amount(f, R)
<1> DEFINE A == BytesIn(f, S)
           B == BytesIn(f, R)
<1>1. BytesIn(f, S \cup R) = A \cup B /\ (S \cap R = {} => A \cap B = {})
  BY DEF BytesIn
<1>2. IsFiniteSet(A) /\ IsFiniteSet(B) /\ Cardinality(A) \in Nat /\ Cardinality(B) \in Nat
  BY AmountType DEF Amount
<1> HIDE DEF A, B
<1>3. Cardinality(A \cup B) = Cardinality(A) + Cardinality(B) - Cardinality(A \cap B)
  BY ONLY <1>2, FS_Union, Zenon
<1>4. Cardinality(A \cap B) \in Nat
  <2>1. IsFiniteSet(A \cap B)
    BY ONLY <1>2, FS_Intersection
  <2> QED
    BY <2>1, FS_CardinalityType
<1>5. A \cap B = {} => Cardinality(A \cap B) = 0
  BY FS_EmptySet
<1>6. Cardinality(A \cup B) <= Cardinality(A) + Cardinality(B)
      /\ (S \cap R = {} => Cardinality(A \cup B) = Cardinality(A) + Cardinality(B))
  BY ONLY <1>1, <1>2, <1>3, <1>4, <1>5
<1> QED
  BY <1>1, <1>6 DEF Amount, A, B

\* One file was added.
LEMMA AmountAdd ==
    ASSUME NEW f, NEW g, NEW S \in SUBSET Keys, NEW R \in SUBSET Keys, NEW k \in Keys,
           \A j \in Keys : f[j].bytes \in 0..MaxSize /\ g[j].bytes \in 0..MaxSize,
           \A j \in S \ {k} : f[j].bytes > 0 => j \in R /\ f[j].bytes <= g[j].bytes
    PROVE  Amount(f, S) <= Amount(g, R) + MaxSize
<1>0. MaxSize \in Nat /\ \A j \in Keys : f[j].bytes \in Nat /\ g[j].bytes \in Nat /\ f[j].bytes <= MaxSize
  BY ScratchAssumption
<1>1. Amount(f, S \ {k}) <= Amount(g, R)
  <2>1. S \ {k} \in SUBSET Keys
    OBVIOUS
  <2> QED
    BY <1>0, <2>1, AmountMonotone
<1>2. Amount(f, {k}) = f[k].bytes
  BY AmountOfOne
<1>3. S \in SUBSET ((S \ {k}) \cup {k}) /\ S \ {k} \in SUBSET Keys /\ {k} \in SUBSET Keys
  OBVIOUS
<1>4. Amount(f, S) <= Amount(f, (S \ {k}) \cup {k})
  <2>1. (S \ {k}) \cup {k} \in SUBSET Keys
    OBVIOUS
  <2>2. \A j \in S : f[j].bytes \in Nat /\ j \in (S \ {k}) \cup {k} /\ f[j].bytes <= f[j].bytes
    BY <1>0
  <2> QED
    BY <2>1, <2>2, AmountMonotone
<1>5. Amount(f, (S \ {k}) \cup {k}) <= Amount(f, S \ {k}) + Amount(f, {k})
  BY <1>3, AmountUnion
<1>6. /\ Amount(f, S) \in Nat /\ Amount(f, S \ {k}) \in Nat /\ Amount(g, R) \in Nat
      /\ Amount(f, (S \ {k}) \cup {k}) \in Nat
  BY <1>3, AmountType
<1> QED
  BY ONLY <1>0, <1>1, <1>2, <1>4, <1>5, <1>6

\* One file was taken away.
LEMMA AmountRemove ==
    ASSUME NEW f, NEW g, NEW S \in SUBSET Keys, NEW R \in SUBSET Keys, NEW k \in S,
           \A j \in Keys : f[j].bytes \in 0..MaxSize /\ g[j].bytes \in 0..MaxSize,
           \A j \in R : g[j].bytes > 0 => j \in S \ {k} /\ g[j].bytes <= f[j].bytes
    PROVE  Amount(g, R) + f[k].bytes <= Amount(f, S)
<1>0. MaxSize \in Nat /\ \A j \in Keys : f[j].bytes \in Nat /\ g[j].bytes \in Nat
  BY ScratchAssumption
<1>1. S = (S \ {k}) \cup {k} /\ (S \ {k}) \cap {k} = {} /\ S \ {k} \in SUBSET Keys /\ {k} \in SUBSET Keys
      /\ k \in Keys
  OBVIOUS
<1>2. Amount(g, R) <= Amount(f, S \ {k})
  BY <1>0, <1>1, AmountMonotone
<1>3. Amount(f, {k}) = f[k].bytes
  BY <1>1, AmountOfOne
<1>4. Amount(f, S) = Amount(f, S \ {k}) + Amount(f, {k})
  <2>1. Amount(f, (S \ {k}) \cup {k}) = Amount(f, S \ {k}) + Amount(f, {k})
    BY ONLY <1>1, AmountUnion
  <2> QED
    BY ONLY <1>1, <2>1
<1>5. Amount(g, R) \in Nat /\ Amount(f, S \ {k}) \in Nat /\ f[k].bytes \in Nat
  BY <1>0, <1>1, AmountType
<1> QED
  BY ONLY <1>2, <1>3, <1>4, <1>5

-----------------------------------------------------------------------------
(* Types.                                                                   *)

\* No more is written than there is, and time does not outrun the requests.
Sizes ==
    /\ TypeOK /\ clock <= asked
    /\ \A r \in Requests : Busy(r) => call[r].written <= SizeOf[call[r].uri]

\* Maps from names to times.
LEMMA TimesTypes ==
    /\ NoTimes \in Times
    /\ \A ts \in Times : DOMAIN ts \subseteq Keys /\ \A k : Without(ts, k) \in Times
    /\ accessTimes \in Times => \A k \in Keys, t \in 0..MaxRequests : Put(k, t) \in Times
<1>1. NoTimes \in Times
  <2>1. NoTimes \in [{} -> 0..MaxRequests]
    BY DEF NoTimes
  <2> QED
    BY <2>1 DEF Times
<1>2. ASSUME NEW ts \in Times PROVE DOMAIN ts \subseteq Keys /\ \A k : Without(ts, k) \in Times
  <2>1. PICK D \in SUBSET Keys : ts \in [D -> 0..MaxRequests]
    BY DEF Times
  <2>2. ASSUME NEW k PROVE Without(ts, k) \in Times
    <3>1. Without(ts, k) \in [D \ {k} -> 0..MaxRequests]
      BY <2>1 DEF Without, Restrict
    <3> QED
      BY <3>1 DEF Times
  <2> QED
    BY <2>1, <2>2
<1>3. ASSUME accessTimes \in Times, NEW k \in Keys, NEW t \in 0..MaxRequests PROVE Put(k, t) \in Times
  <2>1. PICK D \in SUBSET Keys : accessTimes \in [D -> 0..MaxRequests]
    BY <1>3 DEF Times
  <2>2. Put(k, t) \in [D \cup {k} -> 0..MaxRequests]
    BY <2>1 DEF Put
  <2> QED
    BY <2>2 DEF Times
<1> QED
  BY <1>1, <1>2, <1>3

\* The calls that a step makes of a call.
LEMMA CallTypes ==
    ASSUME NEW c \in Call
    PROVE  /\ \A pc \in {"measure", "replace", "create", "copy"} : [c EXCEPT !.pc = pc] \in Call
           /\ \A n \in Int : [c EXCEPT !.pc = "replace", !.currentSize = n] \in Call
           /\ \A ts \in Times : [c EXCEPT !.sortedAccess = ts] \in Call
           /\ \A n \in Int, b \in BOOLEAN :
                 [c EXCEPT !.pc = "snapshot", !.currentSize = n, !.blind = b] \in Call
           /\ \A ts \in Times : [c EXCEPT !.pc = "evict", !.sortedAccess = ts] \in Call
           /\ \A n \in Int, ts \in Times, x \in SUBSET Keys :
                 [c EXCEPT !.pc = "forget", !.toDelete = x, !.sortedAccess = ts, !.currentSize = n] \in Call
           /\ \A n \in Int, ts \in Times, x \in SUBSET Keys :
                 [c EXCEPT !.pc = "replace", !.toDelete = x, !.currentSize = n, !.sortedAccess = ts] \in Call
           /\ \A x \in SUBSET Keys : [c EXCEPT !.pc = "evict", !.toDelete = x] \in Call
           /\ \A n \in Nat : [c EXCEPT !.written = n] \in Call
<1> HIDE DEF Times
<1>1. \A pc \in {"measure", "replace", "create", "copy"} : [c EXCEPT !.pc = pc] \in Call
  BY DEF Call
<1>2. \A n \in Int : [c EXCEPT !.pc = "replace", !.currentSize = n] \in Call
  BY DEF Call
<1>3. \A ts \in Times : [c EXCEPT !.sortedAccess = ts] \in Call
  BY DEF Call
<1>4. \A n \in Int, b \in BOOLEAN :
         [c EXCEPT !.pc = "snapshot", !.currentSize = n, !.blind = b] \in Call
  BY DEF Call
<1>9. \A ts \in Times : [c EXCEPT !.pc = "evict", !.sortedAccess = ts] \in Call
  BY DEF Call
<1>5. \A n \in Int, ts \in Times, x \in SUBSET Keys :
         [c EXCEPT !.pc = "forget", !.toDelete = x, !.sortedAccess = ts, !.currentSize = n] \in Call
  BY DEF Call
<1>6. \A n \in Int, ts \in Times, x \in SUBSET Keys :
         [c EXCEPT !.pc = "replace", !.toDelete = x, !.currentSize = n, !.sortedAccess = ts] \in Call
  BY DEF Call
<1>7. \A x \in SUBSET Keys : [c EXCEPT !.pc = "evict", !.toDelete = x] \in Call
  BY DEF Call
<1>8. \A n \in Nat : [c EXCEPT !.written = n] \in Call
  BY DEF Call
<1> QED
  BY <1>1, <1>2, <1>3, <1>4, <1>5, <1>6, <1>7, <1>8, <1>9

\* A step of one request.
LEMMA CallStep ==
    ASSUME Sizes, NEW r \in Requests, NEW c \in Call \cup {Idle}, call' = [call EXCEPT ![r] = c],
           c # Idle => c.written <= SizeOf[c.uri]
    PROVE  /\ call' \in [Requests -> Call \cup {Idle}]
           /\ \A q \in Requests : Busy(q)' => call'[q].written <= SizeOf[call'[q].uri]
<1>1. call \in [Requests -> Call \cup {Idle}]
  BY DEF Sizes, TypeOK
<1> HIDE DEF Call
<1>2. call' \in [Requests -> Call \cup {Idle}] /\ call'[r] = c /\ \A q \in Requests \ {r} : call'[q] = call[q]
  BY <1>1
<1> QED
  BY <1>2 DEF Sizes, Busy

\* A request that runs, and what its step makes of its call.
LEMMA CallRuns ==
    ASSUME Sizes, NEW r \in Requests, call[r].pc # "idle"
    PROVE  /\ call[r] \in Call /\ call[r].written <= SizeOf[call[r].uri] /\ call[r].uri \in Uris
           /\ KeyOf(r) \in Keys /\ call[r].sortedAccess \in Times /\ call[r].currentSize \in Int
<1>1. call[r] \in Call /\ call[r] # Idle
  BY DEF Sizes, TypeOK, Idle
<1>2. call[r].uri \in Uris /\ call[r].sortedAccess \in Times /\ call[r].currentSize \in Int
  BY <1>1 DEF Call
<1>3. KeyOf(r) \in Keys
  BY <1>2 DEF KeyOf, Keys
<1> QED
  BY <1>1, <1>2, <1>3 DEF Sizes, Busy

\* The directory holds files of known sizes.
LEMMA FileTypes ==
    ASSUME Sizes
    PROVE  /\ file \in [Keys -> File] /\ NoFile \in File
           /\ \A k \in Keys : file[k].bytes \in 0..MaxSize /\ file[k].by \in Requests \cup {"nobody"}
           /\ \A S : Closed(S) \in [Keys -> File]
<1>1. file \in [Keys -> File] /\ NoFile \in File /\ MaxSize \in Nat
  BY ScratchAssumption DEF Sizes, TypeOK, File
<1>2. ASSUME NEW k \in Keys
      PROVE  /\ file[k].bytes \in 0..MaxSize /\ file[k].by \in Requests \cup {"nobody"}
             /\ [file[k] EXCEPT !.by = "nobody"] \in File
  <2>1. file[k] \in File
    BY <1>1
  <2>2. CASE file[k] = NoFile
    <3>1. [NoFile EXCEPT !.by = "nobody"] = NoFile /\ NoFile.by = "nobody" /\ NoFile.bytes = 0
      BY DEF NoFile
    <3> QED
      BY <1>1, <2>2, <3>1
  <2>3. CASE file[k] # NoFile
    BY <2>1, <2>3 DEF File
  <2> QED
    BY <2>2, <2>3
<1>3. \A S : Closed(S) \in [Keys -> File]
  BY <1>1, <1>2 DEF Closed
<1> QED
  BY <1>1, <1>2, <1>3

\* At the start.
LEMMA SizesInit == Init => Sizes
<1> SUFFICES ASSUME Init PROVE Sizes
  OBVIOUS
<1>1. file \in [Keys -> File] /\ call \in [Requests -> Call \cup {Idle}] /\ accessTimes \in Times
  BY TimesTypes DEF Init, File
<1>2. clock \in 0..MaxRequests /\ asked \in 0..MaxRequests /\ restarts \in 0..MaxRestarts /\ clock <= asked
  BY ScratchAssumption DEF Init
<1> QED
  BY <1>1, <1>2 DEF Init, Sizes, TypeOK, Busy

\* Every step keeps the types.
LEMMA SizesStep ==
    ASSUME IInv, Sizes, [Next]_vars
    PROVE  Sizes'
<1> HIDE DEF Call, Times, File
<1>0. /\ file \in [Keys -> File] /\ accessTimes \in Times /\ clock \in 0..MaxRequests
      /\ call \in [Requests -> Call \cup {Idle}] /\ untracked \subseteq Keys /\ strays \subseteq Keys
      /\ aborted \subseteq Keys /\ asked \in 0..MaxRequests /\ restarts \in 0..MaxRestarts /\ clock <= asked
      /\ misjudged \in Nat /\ MaxRequests \in Nat /\ MaxRestarts \in Nat
  BY ScratchAssumption DEF Sizes, TypeOK
<1> DEFINE CallsRight ==
      /\ call' \in [Requests -> Call \cup {Idle}]
      /\ \A q \in Requests : Busy(q)' => call'[q].written <= SizeOf[call'[q].uri]
<1>i. Idle \in Call \cup {Idle}
  OBVIOUS
<1>1. CASE UNCHANGED vars
  BY <1>1 DEF vars, counts, Sizes, TypeOK, Busy
<1>2. ASSUME NEW r \in Requests, NEW u \in Uris, Touch(r, u) PROVE Sizes'
  <2> DEFINE c == [pc |-> "lookup", uri |-> u, currentSize |-> 0, blind |-> FALSE, sortedAccess |-> NoTimes,
                   toDelete |-> {}, written |-> 0]
             k == generateCacheKey[u]
  <2>1. c \in Call /\ c.written = 0 /\ c.uri = u
    BY TimesTypes DEF Call
  <2>2. c.written <= SizeOf[c.uri] /\ k \in Keys
    BY <2>1, ScratchAssumption DEF Keys
  <2>3. call' = [call EXCEPT ![r] = c]
    BY <1>2 DEF Touch
  <2> HIDE DEF c
  <2>4. CallsRight
    BY <2>1, <2>2, <2>3, CallStep
  <2> HIDE DEF CallsRight
  <2>5. asked' = asked + 1 /\ asked < MaxRequests /\ clock' \in {clock, clock + 1} /\ restarts' = restarts
        /\ accessTimes' = Put(k, clock') /\ untracked' \subseteq untracked /\ strays' \subseteq strays \cup {k}
        /\ file' = file /\ aborted' = aborted /\ misjudged' = misjudged
    BY <1>2 DEF Touch
  <2>6. asked' \in 0..MaxRequests /\ clock' \in 0..MaxRequests /\ clock' <= asked'
    BY <1>0, <2>5
  <2>7. accessTimes' \in Times
    BY <1>0, <2>2, <2>5, <2>6, TimesTypes
  <2> QED
    BY <1>0, <2>2, <2>4, <2>5, <2>6, <2>7 DEF Sizes, TypeOK, CallsRight
<1>3. ASSUME CallsRight, file' \in [Keys -> File], accessTimes' \in Times, clock' = clock,
             untracked' \subseteq Keys, strays' \subseteq Keys, aborted' \subseteq Keys, asked' = asked,
             restarts' \in 0..MaxRestarts, misjudged' \in Nat
      PROVE  Sizes'
  BY <1>0, <1>3 DEF Sizes, TypeOK
<1>4. ASSUME NEW r \in Requests,
             \/ Lookup(r) \/ MeasureThrows(r) \/ \E unread \in SUBSET Keys : Measure(r, unread)
             \/ TakeSnapshot(r) \/ EvictEnds(r) \/ OpenFails(r)
      PROVE  Sizes'
  <2>1. /\ call[r].pc # "idle" /\ UNCHANGED <<file, accessTimes, clock, untracked, strays, aborted, asked, restarts>>
        /\ misjudged' \in {misjudged, misjudged + 1}
    BY <1>4 DEF Lookup, MeasureThrows, Measure, TakeSnapshot, EvictEnds, OpenFails, At, counts
  <2>2. call[r] \in Call /\ call[r].written <= SizeOf[call[r].uri]
    BY <2>1, CallRuns
  <2> DEFINE c == [call[r] EXCEPT !.pc = "measure"]
             d(n, b) == [call[r] EXCEPT !.pc = "snapshot", !.currentSize = n, !.blind = b]
             e == [call[r] EXCEPT !.pc = "replace"]
             g == [call[r] EXCEPT !.pc = "replace", !.currentSize = 0]
             h == [call[r] EXCEPT !.pc = "evict", !.sortedAccess = accessTimes]
  <2>3. ASSUME NEW unread \in SUBSET Keys
        PROVE  getCacheSizeInBytes(unread) \in Int /\ Misread(unread) \in BOOLEAN
    <3>1. getCacheSizeInBytes(unread) = Amount(file, Keys \ unread)
      BY DEF getCacheSizeInBytes, BytesOf, Amount, BytesIn
    <3>2. Amount(file, Keys \ unread) \in Nat
      BY AmountType
    <3> QED
      BY <3>1, <3>2 DEF Misread
  <2>4. \/ call' \in {[call EXCEPT ![r] = Idle], [call EXCEPT ![r] = c], [call EXCEPT ![r] = e],
                      [call EXCEPT ![r] = g], [call EXCEPT ![r] = h]}
        \/ \E n \in Int, b \in BOOLEAN : call' = [call EXCEPT ![r] = d(n, b)]
    <3>1. CASE Lookup(r) \/ MeasureThrows(r) \/ TakeSnapshot(r) \/ EvictEnds(r) \/ OpenFails(r)
      BY <3>1 DEF Lookup, MeasureThrows, TakeSnapshot, EvictEnds, OpenFails, Return, Goto
    <3>2. ASSUME NEW unread \in SUBSET Keys, Measure(r, unread)
          PROVE  \/ call' = [call EXCEPT ![r] = e]
                 \/ \E n \in Int, b \in BOOLEAN : call' = [call EXCEPT ![r] = d(n, b)]
      <4>1. \/ call' = [call EXCEPT ![r] = e]
            \/ call' = [call EXCEPT ![r] = d(getCacheSizeInBytes(unread), Misread(unread))]
        BY <3>2 DEF Measure, Goto
      <4> HIDE DEF d, e
      <4> QED
        BY <2>3, <4>1
    <3> QED
      BY <1>4, <3>1, <3>2
  <2>5. c \in Call /\ e \in Call /\ g \in Call /\ h \in Call /\ \A n \in Int, b \in BOOLEAN : d(n, b) \in Call
    <3>1. c \in Call /\ e \in Call
      BY <2>2, CallTypes
    <3>2. \A n \in Int, b \in BOOLEAN : d(n, b) \in Call
      BY ONLY <2>2, CallTypes
    <3>3. g \in Call
      <4>1. 0 \in Int
        OBVIOUS
      <4> QED
        BY ONLY <2>2, <4>1, CallTypes
    <3>4. h \in Call
      BY ONLY <1>0, <2>2, CallTypes
    <3> QED
      BY <3>1, <3>2, <3>3, <3>4
  <2>6. /\ \A x \in {c, e, g, h} : x.written = call[r].written /\ x.uri = call[r].uri
        /\ \A n, b : d(n, b).written = call[r].written /\ d(n, b).uri = call[r].uri
    BY <2>2 DEF Call
  <2> HIDE DEF c, d, e, g, h
  <2>7. PICK x : /\ call' = [call EXCEPT ![r] = x]
                 /\ x \in {Idle, c, e, g, h} \/ \E n \in Int, b \in BOOLEAN : x = d(n, b)
    BY <2>4
  <2>8. x \in Call \cup {Idle} /\ (x # Idle => x.written <= SizeOf[x.uri])
    BY <2>2, <2>5, <2>6, <2>7
  <2>9. CallsRight
    BY <2>7, <2>8, CallStep
  <2> HIDE DEF CallsRight
  <2>10. misjudged' \in Nat
    BY <1>0, <2>1
  <2> QED
    BY <1>0, <1>3, <2>1, <2>9, <2>10
<1>5. ASSUME NEW r \in Requests, NEW k \in Keys, EvictOne(r, k) \/ EvictFails(r, k) PROVE Sizes'
  <2> DEFINE rest == Without(call[r].sortedAccess, k)
             n == call[r].currentSize - file[k].bytes
             c == [call[r] EXCEPT !.pc = "forget", !.toDelete = {k}, !.sortedAccess = rest, !.currentSize = n]
             d == [call[r] EXCEPT !.sortedAccess = rest]
  <2>1. call[r].pc # "idle" /\ UNCHANGED <<accessTimes, clock, untracked, counts>>
    BY <1>5 DEF EvictOne, EvictFails, At
  <2>2. call[r] \in Call /\ call[r].written <= SizeOf[call[r].uri] /\ rest \in Times /\ n \in Int
    BY <2>1, CallRuns, TimesTypes, FileTypes
  <2>3. /\ (call' = [call EXCEPT ![r] = c] \/ call' = [call EXCEPT ![r] = d])
        /\ (file' = file \/ file' = [file EXCEPT ![k] = NoFile])
        /\ strays' \subseteq strays \cup {k} /\ aborted' \subseteq aborted
    BY <1>5 DEF EvictOne, EvictFails
  <2> HIDE DEF rest, n
  <2>4. c \in Call /\ d \in Call /\ {k} \in SUBSET Keys
    BY <2>2, CallTypes
  <2>5. \A x \in {c, d} : x.written = call[r].written /\ x.uri = call[r].uri
    BY <2>2 DEF Call
  <2> HIDE DEF c, d
  <2>6. CallsRight
    BY <2>2, <2>3, <2>4, <2>5, CallStep
  <2>7. file' \in [Keys -> File]
    BY <1>0, <2>3, FileTypes
  <2> QED
    BY <1>0, <1>3, <2>1, <2>3, <2>6, <2>7 DEF counts
<1>6. ASSUME NEW r \in Requests, NEW k \in Keys, Forget(r, k) PROVE Sizes'
  <2> DEFINE c == [call[r] EXCEPT !.pc = "evict", !.toDelete = {}]
             d == [call[r] EXCEPT !.pc = "replace", !.toDelete = {}, !.currentSize = 0,
                                  !.sortedAccess = NoTimes]
  <2>1. call[r].pc # "idle" /\ UNCHANGED <<file, clock, strays, aborted, counts>>
        /\ accessTimes' = Without(accessTimes, k) /\ untracked' \subseteq untracked \cup {k}
    BY <1>6 DEF Forget, At, Without
  <2>2. call[r] \in Call /\ call[r].written <= SizeOf[call[r].uri] /\ accessTimes' \in Times
    BY <1>0, <2>1, CallRuns, TimesTypes
  <2>3. call' = [call EXCEPT ![r] = c] \/ call' = [call EXCEPT ![r] = d]
    BY <1>6 DEF Forget
  <2>4. c \in Call /\ d \in Call
    <3>1. NoTimes \in Times /\ 0 \in Int /\ {} \in SUBSET Keys
      BY TimesTypes
    <3>2. c \in Call
      BY ONLY <2>2, <3>1, CallTypes
    <3>3. d \in Call
      BY ONLY <2>2, <3>1, CallTypes
    <3> QED
      BY <3>2, <3>3
  <2>5. \A x \in {c, d} : x.written = call[r].written /\ x.uri = call[r].uri
    BY <2>2 DEF Call
  <2> HIDE DEF c, d
  <2>6. CallsRight
    BY <2>2, <2>3, <2>4, <2>5, CallStep
  <2> QED
    BY <1>0, <1>3, <2>1, <2>2, <2>6 DEF counts
<1>7. ASSUME NEW r \in Requests, Replace(r) \/ Create(r) PROVE Sizes'
  <2> DEFINE c == [call[r] EXCEPT !.pc = "create"]
             d == [call[r] EXCEPT !.pc = "copy"]
             f == [by |-> r, of |-> call[r].uri, bytes |-> 0]
  <2>1. call[r].pc # "idle" /\ UNCHANGED <<accessTimes, clock, untracked, counts>>
        /\ strays' \subseteq strays /\ aborted' \subseteq aborted
    BY <1>7 DEF Replace, Create, At
  <2>2. call[r] \in Call /\ call[r].written <= SizeOf[call[r].uri] /\ call[r].uri \in Uris /\ KeyOf(r) \in Keys
    BY <2>1, CallRuns
  <2>3. f \in File
    BY <2>2, ScratchAssumption DEF File
  <2>4. /\ call' \in {[call EXCEPT ![r] = Idle], [call EXCEPT ![r] = c], [call EXCEPT ![r] = d]}
        /\ file' \in {file, [file EXCEPT ![KeyOf(r)] = NoFile], [file EXCEPT ![KeyOf(r)] = f]}
    BY <1>7 DEF Replace, Create, Goto, Return
  <2>5. c \in Call /\ d \in Call
    BY <2>2, CallTypes
  <2>6. \A x \in {c, d} : x.written = call[r].written /\ x.uri = call[r].uri
    BY <2>2 DEF Call
  <2> HIDE DEF c, d, f
  <2>7. CallsRight
    BY <2>2, <2>4, <2>5, <2>6, CallStep
  <2>8. file' \in [Keys -> File]
    BY <1>0, <2>3, <2>4, FileTypes
  <2> QED
    BY <1>0, <1>3, <2>1, <2>7, <2>8 DEF counts
<1>8. ASSUME NEW r \in Requests, Copy(r) PROVE Sizes'
  <2> DEFINE n == call[r].written + 1
             c == [call[r] EXCEPT !.written = n]
             k == KeyOf(r)
             f == [file[k] EXCEPT !.bytes = @ + 1]
  <2>1. At(r, "copy") /\ call[r].pc # "idle" /\ call[r].written # SizeOf[call[r].uri]
        /\ UNCHANGED <<accessTimes, clock, untracked, strays, aborted, counts>>
    BY <1>8 DEF Copy, At, AtEnd
  <2>2. call[r] \in Call /\ call[r].written <= SizeOf[call[r].uri] /\ call[r].uri \in Uris /\ k \in Keys
    BY <2>1, CallRuns
  <2>3. call[r].written \in Nat /\ SizeOf[call[r].uri] \in 1..MaxSize /\ MaxSize \in Nat
    BY <2>2, ScratchAssumption DEF Call
  <2>4. n \in Nat /\ n <= SizeOf[call[r].uri] /\ n <= MaxSize
    BY <2>1, <2>2, <2>3
  <2>5. call' = [call EXCEPT ![r] = c]
    BY <1>8 DEF Copy
  <2>6. Owns(r) => file[k].bytes = call[r].written /\ file[k] \in File /\ file[k] # NoFile
    BY <1>0, <2>1, <2>2, Owner, ScratchAssumption DEF Owns, NoFile
  <2>7. Owns(r) => f \in File
    <3> SUFFICES ASSUME Owns(r) PROVE f \in File
      OBVIOUS
    <3>1. file[k] \in [by : Requests \cup {"nobody"}, of : Uris, bytes : 0..MaxSize]
      BY <2>6 DEF File
    <3>2. file[k].bytes + 1 \in 0..MaxSize
      BY <2>3, <2>4, <2>6
    <3>3. f \in [by : Requests \cup {"nobody"}, of : Uris, bytes : 0..MaxSize]
      BY <3>1, <3>2
    <3> QED
      BY <3>3 DEF File
  <2>8. file' = file \/ (Owns(r) /\ file' = [file EXCEPT ![k] = f])
    BY <1>8 DEF Copy
  <2> HIDE DEF n, f
  <2>9. c \in Call /\ c.written = n /\ c.uri = call[r].uri
    <3>1. c \in Call
      BY <2>2, <2>4, CallTypes
    <3>2. c.written = n /\ c.uri = call[r].uri
      BY <2>2 DEF Call
    <3> QED
      BY <3>1, <3>2
  <2> HIDE DEF c
  <2>10. CallsRight
    BY <2>4, <2>5, <2>9, CallStep
  <2>11. file' \in [Keys -> File]
    BY <1>0, <2>7, <2>8
  <2> QED
    BY <1>0, <1>3, <2>1, <2>10, <2>11 DEF counts
<1>9. ASSUME NEW r \in Requests, CopyEnds(r) \/ CopyFails(r) PROVE Sizes'
  <2>1. call' = [call EXCEPT ![r] = Idle] /\ file' = Closed(OpenBy(r)) /\ aborted' \subseteq aborted \cup OpenBy(r)
        /\ UNCHANGED <<accessTimes, clock, untracked, strays, counts>>
    BY <1>9 DEF CopyEnds, CopyFails, Return
  <2>2. CallsRight
    BY <1>i, <2>1, CallStep
  <2>3. OpenBy(r) \subseteq Keys /\ file' \in [Keys -> File]
    BY <2>1, FileTypes DEF OpenBy
  <2> QED
    BY <1>0, <1>3, <2>1, <2>2, <2>3 DEF counts
<1>10. CASE Restart
  <2>1. CallsRight
    BY <1>10 DEF Restart, Busy
  <2>2. /\ accessTimes' = NoTimes /\ file' = Closed(Keys) /\ untracked' \subseteq Keys /\ strays' = strays
        /\ clock' = clock /\ asked' = asked /\ restarts' = restarts + 1 /\ restarts < MaxRestarts
        /\ misjudged' = misjudged
        /\ aborted' = aborted \cup UNION {OpenBy(r) : r \in Requests}
    BY <1>10 DEF Restart
  <2>3. UNION {OpenBy(r) : r \in Requests} \subseteq Keys
    BY DEF OpenBy
  <2>4. restarts' \in 0..MaxRestarts
    BY <1>0, <2>2
  <2>5. file' \in [Keys -> File] /\ accessTimes' \in Times
    BY <2>2, FileTypes, TimesTypes
  <2> QED
    BY <1>0, <1>3, <2>1, <2>2, <2>3, <2>4, <2>5
<1> QED
  BY <1>1, <1>2, <1>4, <1>5, <1>6, <1>7, <1>8, <1>9, <1>10 DEF Next, Proceed, Evict, Download

-----------------------------------------------------------------------------
(* The bound.  A request that is admitted may still add a file, and has at  *)
(* most one open.  One that evicts has measured the directory and taken, or *)
(* is about to take, the names it may delete; files have come since, but    *)
(* only as many as there are requests that were admitted and ended          *)
(* meanwhile.  One that measured too little counts as admitted at once, and *)
(* adds one file to what all of them may add.                               *)

Reached(r) == LimitReached(call[r].currentSize)

Blind(r) == call[r].blind = TRUE

Admitted ==
    {r \in Requests : \/ call[r].pc \in {"replace", "create"} \/ (At(r, "copy") /\ Owns(r))
                      \/ (At(r, "forget") /\ ~Reached(r))
                      \/ (call[r].pc \in {"snapshot", "evict", "forget"} /\ Blind(r))}
Evicting ==
    {r \in Requests : /\ call[r].pc \in {"snapshot", "evict"} \/ (At(r, "forget") /\ Reached(r))
                      /\ ~Blind(r)}

\* The bytes of closed files that are not lost, those of them that a request
\* that evicts does not know of, and those it may have measured.
Shut == {k \in Keys : file[k].by = "nobody"}
Snapshot(r) == IF At(r, "snapshot") THEN Keys ELSE DOMAIN call[r].sortedAccess
Kept == Amount(file, Shut \ Lost)
New(r) == Amount(file, (Shut \ Lost) \ Snapshot(r))
Seen(r) == Amount(file, Shut \cap ((Keys \ Lost) \cup Snapshot(r)))

\* Were T admitted too, then those that are not yet could add b.
Within(T, b) ==
    Kept < Ceiling + b \/ \E r \in T : New(r) <= b /\ Seen(r) <= call[r].currentSize + b
Allowance(m, A, T) == MaxSize * ((Cardinality(Requests) + m) - Cardinality(A) - Cardinality(T))
Budget == \A T \in SUBSET Evicting : Within(T, Allowance(misjudged, Admitted, T))

\* The sums are numbers.
LEMMA SumTypes ==
    ASSUME NEW f, NEW lost, NEW D
    PROVE  LET shut == {k \in Keys : f[k].by = "nobody"}
           IN  /\ Amount(f, shut \ lost) \in Nat /\ Amount(f, (shut \ lost) \ D) \in Nat
               /\ Amount(f, shut \cap ((Keys \ lost) \cup D)) \in Nat
BY AmountType

\* The same, in both states of a step.
LEMMA Numbers ==
    /\ Kept \in Nat /\ Kept' \in Nat /\ Ceiling \in Nat /\ Ceiling >= 1 /\ limitBytes <= Ceiling
    /\ \A r : New(r) \in Nat /\ New(r)' \in Nat /\ Seen(r) \in Nat /\ Seen(r)' \in Nat
    /\ MaxSize \in Nat /\ limitBytes \in Nat
<1>1. Kept \in Nat /\ \A r : New(r) \in Nat /\ Seen(r) \in Nat
  BY SumTypes DEF Kept, New, Seen, Shut
<1>2. Kept' \in Nat /\ \A r : New(r)' \in Nat /\ Seen(r)' \in Nat
  BY SumTypes DEF Kept, New, Seen, Shut
<1> QED
  BY <1>1, <1>2, ScratchAssumption DEF Ceiling

\* One request fewer leaves room for one file more.
LEMMA Multiples ==
    ASSUME NEW x \in Int, NEW y \in Int
    PROVE  /\ MaxSize * x \in Int /\ (x >= 0 => MaxSize * x >= 0)
           /\ x <= y => MaxSize * x <= MaxSize * y
           /\ x + 1 <= y => MaxSize * x + MaxSize <= MaxSize * y
<1>1. MaxSize \in Nat
  BY ScratchAssumption
<1>2. MaxSize * x \in Int /\ MaxSize * y \in Int
  BY <1>1
<1>3. ASSUME NEW z \in Nat PROVE MaxSize * z >= 0
  BY <1>1
<1>4. ASSUME x <= y PROVE MaxSize * x <= MaxSize * y
  <2>1. y - x \in Nat /\ MaxSize * (y - x) >= 0
    BY <1>3, <1>4
  <2>2. MaxSize * (y - x) = MaxSize * y - MaxSize * x
    BY <1>1
  <2> QED
    BY <1>2, <2>1, <2>2
<1>5. ASSUME x + 1 <= y PROVE MaxSize * x + MaxSize <= MaxSize * y
  <2>1. y - x - 1 \in Nat /\ MaxSize * (y - x - 1) >= 0
    BY <1>3, <1>5
  <2>2. MaxSize * (y - x - 1) = MaxSize * y - MaxSize * x - MaxSize
    BY <1>1
  <2> QED
    BY <1>1, <1>2, <2>1, <2>2
<1> QED
  BY <1>2, <1>3, <1>4, <1>5

\* Sets of requests are finite.
LEMMA Crowds ==
    ASSUME NEW A \in SUBSET Requests, NEW B \in SUBSET Requests
    PROVE  /\ IsFiniteSet(A) /\ Cardinality(A) \in Nat /\ Cardinality(Requests) \in Nat
           /\ A \subseteq B => Cardinality(A) <= Cardinality(B)
           /\ \A q \in B : A \subseteq B \ {q} => Cardinality(A) + 1 <= Cardinality(B)
           /\ \A r \in Requests : Cardinality(A \cup {r}) <= Cardinality(A) + 1
           /\ A \cap B = {} => Cardinality(A) + Cardinality(B) <= Cardinality(Requests)
<1>1. IsFiniteSet(Requests)
  BY ScratchAssumption
<1>2. IsFiniteSet(A) /\ IsFiniteSet(B) /\ IsFiniteSet(A \cup B)
  <2>1. A \cup B \in SUBSET Requests
    OBVIOUS
  <2> QED
    BY <1>1, <2>1, FS_Subset
<1>3. Cardinality(A) \in Nat /\ Cardinality(B) \in Nat /\ Cardinality(Requests) \in Nat
      /\ Cardinality(A \cup B) \in Nat
  BY <1>1, <1>2, FS_CardinalityType
<1>4. ASSUME A \subseteq B PROVE Cardinality(A) <= Cardinality(B)
  BY <1>2, <1>4, FS_Subset
<1>5. ASSUME NEW q \in B, A \subseteq B \ {q} PROVE Cardinality(A) + 1 <= Cardinality(B)
  <2>1. Cardinality(A \cup {q}) = Cardinality(A) + 1
    BY <1>2, <1>5, FS_AddElement
  <2>2. Cardinality(A \cup {q}) <= Cardinality(B)
    <3>1. A \cup {q} \in SUBSET B
      BY <1>5
    <3> QED
      BY ONLY <1>2, <3>1, FS_Subset
  <2> QED
    BY <2>1, <2>2
<1>6. ASSUME NEW r \in Requests PROVE Cardinality(A \cup {r}) <= Cardinality(A) + 1
  <2>1. Cardinality(A \cup {r}) = IF r \in A THEN Cardinality(A) ELSE Cardinality(A) + 1
    BY <1>2, FS_AddElement
  <2> QED
    BY <1>3, <2>1
<1>7. ASSUME A \cap B = {} PROVE Cardinality(A) + Cardinality(B) <= Cardinality(Requests)
  <2>1. Cardinality(A \cup B) = Cardinality(A) + Cardinality(B) - Cardinality(A \cap B)
    BY ONLY <1>2, FS_Union, Zenon
  <2>2. Cardinality(A \cap B) = 0
    BY <1>7, FS_EmptySet
  <2>3. Cardinality(A \cup B) <= Cardinality(Requests)
    <3>1. A \cup B \in SUBSET Requests
      OBVIOUS
    <3> QED
      BY ONLY <1>1, <3>1, FS_Subset
  <2> QED
    BY ONLY <1>3, <2>1, <2>2, <2>3
<1> QED
  BY <1>2, <1>3, <1>4, <1>5, <1>6, <1>7

\* Allowances, by what a step does to the requests.
LEMMA Allowances ==
    ASSUME NEW m \in Nat, NEW A \in SUBSET Requests, NEW B \in SUBSET Requests, NEW T \in SUBSET Requests
    PROVE  /\ Allowance(m, A, T) \in Int
           /\ A \cap T = {} => Allowance(m, A, T) >= 0
           /\ B \subseteq A => Allowance(m, A, T) <= Allowance(m, B, T)
           /\ \A q \in A : B \subseteq A \ {q} => Allowance(m, A, T) + MaxSize <= Allowance(m, B, T)
           /\ \A r \in Requests \ T : B \subseteq A \cup {r} => Allowance(m, A, T \cup {r}) <= Allowance(m, B, T)
           /\ \A r \in Requests \ T, q \in A : B \subseteq (A \ {q}) \cup {r} =>
                 Allowance(m, A, T \cup {r}) + MaxSize <= Allowance(m, B, T)
           /\ \A r \in Requests : B \subseteq A \cup {r} => Allowance(m, A, T) <= Allowance(m + 1, B, T)
<1> DEFINE N == Cardinality(Requests) + m
           a == Cardinality(A)
           b == Cardinality(B)
           t == Cardinality(T)
<1>1. a \in Nat /\ b \in Nat /\ t \in Nat /\ N \in Nat /\ N + 1 = Cardinality(Requests) + (m + 1) /\ IsFiniteSet(T)
  <2>1. a \in Nat /\ b \in Nat /\ t \in Nat /\ Cardinality(Requests) \in Nat /\ IsFiniteSet(T)
    BY Crowds
  <2> HIDE DEF a, b, t
  <2> QED
    BY <2>1
<1>2. ASSUME NEW r \in Requests \ T PROVE Cardinality(T \cup {r}) = t + 1
  BY <1>1, FS_AddElement
<1>3. A \cap T = {} => a + t <= N
  <2>1. A \cap T = {} => a + t <= Cardinality(Requests)
    BY Crowds
  <2>2. Cardinality(Requests) \in Nat
    BY Crowds
  <2> QED
    BY <1>1, <2>1, <2>2
<1>4. B \subseteq A => b <= a
  BY Crowds
<1>5. \A q \in A : B \subseteq A \ {q} => b + 1 <= a
  BY Crowds
<1>6. ASSUME NEW r \in Requests, B \subseteq A \cup {r} PROVE b <= a + 1
  <2>1. A \cup {r} \in SUBSET Requests
    OBVIOUS
  <2>2. Cardinality(A \cup {r}) <= a + 1 /\ Cardinality(A \cup {r}) \in Nat
    BY <2>1, Crowds
  <2>3. b <= Cardinality(A \cup {r})
    BY <1>6, <2>1, Crowds
  <2> QED
    BY <1>1, <2>2, <2>3
<1>7. ASSUME NEW r \in Requests, NEW q \in A, B \subseteq (A \ {q}) \cup {r} PROVE b <= a
  <2>1. (A \ {q}) \cup {r} \in SUBSET Requests /\ A \ {q} \in SUBSET Requests
    OBVIOUS
  <2>2. Cardinality(A \ {q}) + 1 <= a
    BY <2>1, Crowds
  <2>3. Cardinality((A \ {q}) \cup {r}) <= Cardinality(A \ {q}) + 1 /\ Cardinality(A \ {q}) \in Nat
        /\ Cardinality((A \ {q}) \cup {r}) \in Nat
    BY <2>1, Crowds
  <2>4. b <= Cardinality((A \ {q}) \cup {r})
    BY <1>7, <2>1, Crowds
  <2> QED
    BY <1>1, <2>2, <2>3, <2>4
<1> HIDE DEF N, a, b, t
<1>8. Allowance(m, A, T) = MaxSize * (N - a - t) /\ Allowance(m, B, T) = MaxSize * (N - b - t)
      /\ \A r \in Requests \ T : Allowance(m, A, T \cup {r}) = MaxSize * (N - a - (t + 1))
  BY <1>2 DEF Allowance, N, a, b, t
<1>17. Allowance(m + 1, B, T) = MaxSize * ((N + 1) - b - t)
  <2>1. Allowance(m + 1, B, T) = MaxSize * ((Cardinality(Requests) + (m + 1)) - b - t)
    BY DEF Allowance, b, t
  <2> QED
    BY <1>1, <2>1
<1>9. N - a - t \in Int /\ N - b - t \in Int /\ N - a - (t + 1) \in Int /\ (N + 1) - b - t \in Int
  BY <1>1
<1>10. Allowance(m, A, T) \in Int
  BY <1>8, <1>9, Multiples
<1>11. ASSUME A \cap T = {} PROVE Allowance(m, A, T) >= 0
  <2>1. N - a - t >= 0
    BY <1>1, <1>3, <1>11
  <2> QED
    BY <1>8, <1>9, <2>1, Multiples
<1>12. ASSUME B \subseteq A PROVE Allowance(m, A, T) <= Allowance(m, B, T)
  <2>1. N - a - t <= N - b - t
    BY <1>1, <1>4, <1>12
  <2> QED
    BY <1>8, <1>9, <2>1, Multiples
<1>13. ASSUME NEW q \in A, B \subseteq A \ {q} PROVE Allowance(m, A, T) + MaxSize <= Allowance(m, B, T)
  <2>1. (N - a - t) + 1 <= N - b - t
    BY <1>1, <1>5, <1>13
  <2> QED
    BY <1>8, <1>9, <2>1, Multiples
<1>14. ASSUME NEW r \in Requests \ T, B \subseteq A \cup {r} PROVE Allowance(m, A, T \cup {r}) <= Allowance(m, B, T)
  <2>1. N - a - (t + 1) <= N - b - t
    BY <1>1, <1>6, <1>14
  <2> QED
    BY <1>8, <1>9, <2>1, Multiples
<1>15. ASSUME NEW r \in Requests \ T, NEW q \in A, B \subseteq (A \ {q}) \cup {r}
       PROVE  Allowance(m, A, T \cup {r}) + MaxSize <= Allowance(m, B, T)
  <2>1. (N - a - (t + 1)) + 1 <= N - b - t
    BY <1>1, <1>7, <1>15
  <2> QED
    BY <1>8, <1>9, <2>1, Multiples
<1>16. ASSUME NEW r \in Requests, B \subseteq A \cup {r} PROVE Allowance(m, A, T) <= Allowance(m + 1, B, T)
  <2>1. N - a - t <= (N + 1) - b - t
    BY <1>1, <1>6, <1>16
  <2>2. MaxSize * (N - a - t) <= MaxSize * ((N + 1) - b - t)
    BY ONLY <1>9, <2>1, Multiples
  <2> QED
    BY <1>8, <1>17, <2>2
<1> QED
  BY <1>10, <1>11, <1>12, <1>13, <1>14, <1>15, <1>16

\* Requests that evict are not admitted.
LEMMA EvictingNotAdmitted ==
    /\ Evicting \in SUBSET Requests /\ Admitted \in SUBSET Requests /\ Evicting \cap Admitted = {}
    /\ Evicting' \in SUBSET Requests /\ Admitted' \in SUBSET Requests /\ Evicting' \cap Admitted' = {}
<1>1. Evicting \in SUBSET Requests /\ Admitted \in SUBSET Requests /\ Evicting \cap Admitted = {}
  BY DEF Evicting, Admitted, At, Blind
<1>2. Evicting' \in SUBSET Requests /\ Admitted' \in SUBSET Requests /\ Evicting' \cap Admitted' = {}
  BY DEF Evicting, Admitted, At, Blind
<1> QED
  BY <1>1, <1>2

\* What a request that evicts has measured is a number.
LEMMA Measured ==
    /\ Sizes => \A r \in Evicting : call[r].currentSize \in Int
    /\ Sizes' => \A r \in Evicting' : call'[r].currentSize \in Int
<1>1. ASSUME Sizes PROVE \A r \in Evicting : call[r].currentSize \in Int
  <2> SUFFICES ASSUME NEW r \in Evicting PROVE call[r].currentSize \in Int
    OBVIOUS
  <2>1. call[r] \in Call \cup {Idle} /\ call[r].pc # "idle"
    BY <1>1 DEF Sizes, TypeOK, Evicting, At
  <2> QED
    BY <2>1 DEF Call, Idle
<1>2. ASSUME Sizes' PROVE \A r \in Evicting' : call'[r].currentSize \in Int
  <2> SUFFICES ASSUME NEW r \in Evicting' PROVE call'[r].currentSize \in Int
    OBVIOUS
  <2>1. call'[r] \in Call \cup {Idle} /\ call'[r].pc # "idle"
    BY <1>2 DEF Sizes, TypeOK, Evicting, At, Call
  <2> QED
    BY <2>1 DEF Call, Idle
<1> QED
  BY <1>1, <1>2

\* What others evict is no larger, by more than e, than they think.
Grows(s, e) ==
    /\ New(s)' <= New(s) + e
    /\ Seen(s)' - call'[s].currentSize <= Seen(s) - call[s].currentSize + e

\* A step that adds no more than what it frees.
LEMMA Widens ==
    ASSUME Sizes, Sizes', Budget, Evicting' \subseteq Evicting, NEW e \in {0, MaxSize},
           \A T \in SUBSET Evicting' :
              Allowance(misjudged, Admitted, T) + e <= Allowance(misjudged', Admitted', T),
           Kept' <= Kept + e, \A s \in Evicting' : Grows(s, e)
    PROVE  Budget'
<1> SUFFICES ASSUME NEW T \in SUBSET Evicting' PROVE Within(T, Allowance(misjudged, Admitted, T))'
  BY DEF Budget
<1> DEFINE b == Allowance(misjudged, Admitted, T)
           d == Allowance(misjudged', Admitted', T)
<1>1. T \in SUBSET Requests /\ Admitted \in SUBSET Requests /\ Admitted' \in SUBSET Requests /\ T \in SUBSET Evicting
      /\ misjudged \in Nat /\ misjudged' \in Nat
  BY EvictingNotAdmitted DEF Sizes, TypeOK
<1>2. b \in Int /\ d \in Int /\ e \in Nat
  <2>1. b \in Int
    BY <1>1, Allowances
  <2>2. d \in Int
    BY <1>1, Allowances
  <2>3. e \in Nat
    BY ScratchAssumption
  <2> QED
    BY <2>1, <2>2, <2>3
<1>3. b + e <= d
  OBVIOUS
<1>4. Within(T, b)
  BY <1>1 DEF Budget
<1>5. Within(T, Allowance(misjudged, Admitted, T))' <=>
        Kept' < Ceiling + d \/ \E r \in T : New(r)' <= d /\ Seen(r)' <= call'[r].currentSize + d
  BY DEF Within, Allowance, Ceiling
<1> HIDE DEF b, d
<1>6. CASE Kept < Ceiling + b
  <2>1. Kept' < Ceiling + d
    BY <1>2, <1>3, <1>6, Numbers
  <2> QED
    BY <1>5, <2>1
<1>7. ASSUME NEW r \in T, New(r) <= b, Seen(r) <= call[r].currentSize + b
      PROVE  New(r)' <= d /\ Seen(r)' <= call'[r].currentSize + d
  <2>1. call[r].currentSize \in Int /\ call'[r].currentSize \in Int
    BY <1>1, Measured
  <2>2. Grows(r, e)
    OBVIOUS
  <2>3. New(r) \in Nat /\ New(r)' \in Nat /\ Seen(r) \in Nat /\ Seen(r)' \in Nat
    BY Numbers
  <2> QED
    BY <1>2, <1>3, <1>7, <2>1, <2>2, <2>3 DEF Grows
<1> QED
  BY <1>4, <1>5, <1>6, <1>7 DEF Within

\* A step that admits nobody: what it adds, an admitted request has given up.
LEMMA Loosens ==
    ASSUME Sizes, Sizes', Budget, misjudged' = misjudged, Evicting' \subseteq Evicting, NEW e \in {0, MaxSize},
           Admitted' \subseteq Admitted,
           e = MaxSize => MaxSize = 0 \/ \E q \in Admitted : q \notin Admitted',
           Kept' <= Kept + e, \A s \in Evicting' : Grows(s, e)
    PROVE  Budget'
<1>1. ASSUME NEW T \in SUBSET Evicting'
      PROVE  Allowance(misjudged, Admitted, T) + e <= Allowance(misjudged', Admitted', T)
  <2> DEFINE b == Allowance(misjudged, Admitted, T)
             d == Allowance(misjudged, Admitted', T)
  <2>1. T \in SUBSET Requests /\ Admitted \in SUBSET Requests /\ Admitted' \in SUBSET Requests /\ misjudged \in Nat
    BY EvictingNotAdmitted DEF Sizes, TypeOK
  <2>2. b \in Int
    BY <2>1, Allowances
  <2>3. CASE e = 0
    <3>1. b <= d
      BY <2>1, Allowances
    <3> QED
      BY <2>2, <2>3, <3>1
  <2>4. CASE e # 0
    <3>1. PICK q \in Admitted : q \notin Admitted'
      BY <2>4
    <3>2. Admitted' \subseteq Admitted \ {q}
      BY <3>1
    <3>3. b + MaxSize <= d
      BY <2>1, <3>2, Allowances
    <3> QED
      BY <2>4, <3>3
  <2> QED
    BY <2>3, <2>4
<1> QED
  BY <1>1, Widens

\* A step that admits r, which has measured too little.
LEMMA Misjudges ==
    ASSUME Sizes, Sizes', Budget, misjudged' = misjudged + 1, Evicting' \subseteq Evicting,
           NEW r \in Requests, Admitted' \subseteq Admitted \cup {r},
           Kept' <= Kept, \A s \in Evicting' : Grows(s, 0)
    PROVE  Budget'
<1> DEFINE e == 0
<1>1. ASSUME NEW T \in SUBSET Evicting'
      PROVE  Allowance(misjudged, Admitted, T) + e <= Allowance(misjudged', Admitted', T)
  <2>1. T \in SUBSET Requests /\ Admitted \in SUBSET Requests /\ Admitted' \in SUBSET Requests /\ misjudged \in Nat
    BY EvictingNotAdmitted DEF Sizes, TypeOK
  <2>2. Allowance(misjudged, Admitted, T) \in Int
    BY <2>1, Allowances
  <2>3. Allowance(misjudged, Admitted, T) <= Allowance(misjudged + 1, Admitted', T)
    BY <2>1, Allowances
  <2> QED
    BY <2>2, <2>3
<1>2. e \in {0, MaxSize} /\ Kept' <= Kept + e /\ \A s \in Evicting' : Grows(s, e)
  BY Numbers
<1> HIDE DEF e
<1> QED
  BY <1>1, <1>2, Widens

\* A step that admits r, which has evicted.
LEMMA Admits ==
    ASSUME Sizes, Sizes', Budget, misjudged' = misjudged, NEW r \in Evicting,
           Evicting' \subseteq Evicting \ {r},
           NEW e \in {0, MaxSize}, Admitted' \subseteq Admitted \cup {r},
           e = MaxSize => MaxSize = 0 \/ \E q \in Admitted : q \notin Admitted',
           Kept' <= Kept, \A s \in Evicting' : Grows(s, 0),
           \A b \in Int : New(r) <= b /\ Seen(r) <= call[r].currentSize + b => Kept' < Ceiling + b + e
    PROVE  Budget'
<1> SUFFICES ASSUME NEW T \in SUBSET Evicting' PROVE Within(T, Allowance(misjudged, Admitted, T))'
  BY DEF Budget
<1> DEFINE R == T \cup {r}
           b == Allowance(misjudged, Admitted, R)
           d == Allowance(misjudged', Admitted', T)
<1>1. T \in SUBSET Requests /\ R \in SUBSET Requests /\ Admitted \in SUBSET Requests
      /\ Admitted' \in SUBSET Requests /\ R \in SUBSET Evicting /\ r \in Requests \ T
      /\ misjudged \in Nat
  BY EvictingNotAdmitted DEF Sizes, TypeOK
<1>2. b \in Int /\ d \in Int /\ e \in Nat
  <2>1. b \in Int
    BY <1>1, Allowances
  <2>2. d \in Int
    BY <1>1, Allowances
  <2>3. e \in Nat
    BY ScratchAssumption
  <2> QED
    BY <2>1, <2>2, <2>3
<1>3. b + e <= d
  <2>1. CASE e = 0
    <3>1. b <= d
      BY <1>1, Allowances
    <3> QED
      BY <1>2, <2>1, <3>1
  <2>2. CASE e # 0
    <3>1. PICK q \in Admitted : q \notin Admitted'
      BY <2>2
    <3>2. Admitted' \subseteq (Admitted \ {q}) \cup {r}
      BY <3>1
    <3>3. b + MaxSize <= d
      BY <1>1, <3>2, Allowances
    <3> QED
      BY <2>2, <3>3
  <2> QED
    BY <2>1, <2>2
<1>4. Within(R, b)
  BY <1>1 DEF Budget
<1>5. Within(T, Allowance(misjudged, Admitted, T))' <=>
        Kept' < Ceiling + d \/ \E s \in T : New(s)' <= d /\ Seen(s)' <= call'[s].currentSize + d
  BY DEF Within, Allowance, Ceiling
<1> HIDE DEF b, d
<1>6. CASE Kept < Ceiling + b
  <2>1. Kept' < Ceiling + d
    BY <1>2, <1>3, <1>6, Numbers
  <2> QED
    BY <1>5, <2>1
<1>7. ASSUME NEW s \in T, New(s) <= b, Seen(s) <= call[s].currentSize + b
      PROVE  New(s)' <= d /\ Seen(s)' <= call'[s].currentSize + d
  <2>1. call[s].currentSize \in Int /\ call'[s].currentSize \in Int
    BY <1>1, Measured
  <2>2. Grows(s, 0)
    OBVIOUS
  <2>3. New(s) \in Nat /\ New(s)' \in Nat /\ Seen(s) \in Nat /\ Seen(s)' \in Nat
    BY Numbers
  <2> QED
    BY <1>2, <1>3, <1>7, <2>1, <2>2, <2>3 DEF Grows
<1>8. CASE New(r) <= b /\ Seen(r) <= call[r].currentSize + b
  <2>1. Kept' < Ceiling + b + e
    BY <1>2, <1>8
  <2>2. Kept' < Ceiling + d
    BY <1>2, <1>3, <2>1, Numbers
  <2> QED
    BY <1>5, <2>2
<1> QED
  BY <1>4, <1>5, <1>6, <1>7, <1>8 DEF Within

\* When little is kept, every request may still be admitted.
LEMMA Fresh ==
    ASSUME Sizes', Kept' < Ceiling
    PROVE  Budget'
<1> SUFFICES ASSUME NEW T \in SUBSET Evicting' PROVE Within(T, Allowance(misjudged, Admitted, T))'
  BY DEF Budget
<1> DEFINE d == Allowance(misjudged', Admitted', T)
<1>1. T \in SUBSET Requests /\ Admitted' \in SUBSET Requests /\ Admitted' \cap T = {} /\ misjudged' \in Nat
  BY EvictingNotAdmitted DEF Sizes, TypeOK
<1>2. d \in Int /\ d >= 0
  BY <1>1, Allowances
<1>3. Within(T, Allowance(misjudged, Admitted, T))' <=>
        Kept' < Ceiling + d \/ \E s \in T : New(s)' <= d /\ Seen(s)' <= call'[s].currentSize + d
  BY DEF Within, Allowance, Ceiling
<1> HIDE DEF d
<1>4. Kept' < Ceiling + d
  BY <1>2, Numbers
<1> QED
  BY <1>3, <1>4

\* A request that begins to evict has measured all there is.
LEMMA Enters ==
    ASSUME Sizes, Sizes', Budget, misjudged' = misjudged, NEW r \in Requests,
           Evicting' \subseteq Evicting \cup {r},
           Admitted' \subseteq Admitted, Kept' <= Kept, \A s \in Evicting' \ {r} : Grows(s, 0),
           New(r)' <= 0, Seen(r)' <= call'[r].currentSize
    PROVE  Budget'
<1> SUFFICES ASSUME NEW T \in SUBSET Evicting' PROVE Within(T, Allowance(misjudged, Admitted, T))'
  BY DEF Budget
<1> DEFINE b == Allowance(misjudged, Admitted, T)
           d == Allowance(misjudged', Admitted', T)
<1>1. T \in SUBSET Requests /\ Admitted \in SUBSET Requests /\ Admitted' \in SUBSET Requests
      /\ Admitted' \cap T = {} /\ misjudged \in Nat
  BY EvictingNotAdmitted DEF Sizes, TypeOK
<1>2. b \in Int /\ d \in Int /\ d >= 0 /\ b <= d
  BY <1>1, Allowances
<1>5. Within(T, Allowance(misjudged, Admitted, T))' <=>
        Kept' < Ceiling + d \/ \E s \in T : New(s)' <= d /\ Seen(s)' <= call'[s].currentSize + d
  BY DEF Within, Allowance, Ceiling
<1>3. CASE r \in T
  <2> HIDE DEF b, d
  <2>1. call'[r].currentSize \in Int
    BY <1>3, Measured
  <2>2. New(r)' \in Nat /\ Seen(r)' \in Nat
    BY Numbers
  <2>3. New(r)' <= d /\ Seen(r)' <= call'[r].currentSize + d
    BY <1>2, <2>1, <2>2
  <2> QED
    BY <1>3, <1>5, <2>3
<1>4. CASE r \notin T
  <2>1. T \in SUBSET Evicting
    BY <1>4
  <2>2. Within(T, b)
    BY <2>1 DEF Budget
  <2> HIDE DEF b, d
  <2>3. CASE Kept < Ceiling + b
    <3>1. Kept' < Ceiling + d
      BY <1>2, <2>3, Numbers
    <3> QED
      BY <1>5, <3>1
  <2>4. ASSUME NEW s \in T, New(s) <= b, Seen(s) <= call[s].currentSize + b
        PROVE  New(s)' <= d /\ Seen(s)' <= call'[s].currentSize + d
    <3>1. call[s].currentSize \in Int /\ call'[s].currentSize \in Int
      BY <2>1, Measured
    <3>2. Grows(s, 0)
      BY <1>4
    <3>3. New(s) \in Nat /\ New(s)' \in Nat /\ Seen(s) \in Nat /\ Seen(s)' \in Nat
      BY Numbers
    <3> QED
      BY <1>2, <2>4, <3>1, <3>2, <3>3 DEF Grows
  <2> QED
    BY <1>5, <2>2, <2>3, <2>4 DEF Within
<1> QED
  BY <1>3, <1>4

\* Sizes of files, before and after a step.
LEMMA FileSizes ==
    /\ Sizes => \A k \in Keys : file[k].bytes \in 0..MaxSize /\ file[k].bytes \in Nat
                                /\ (file[k].bytes > 0 => Exists(k))
    /\ Sizes' => \A k \in Keys : file'[k].bytes \in 0..MaxSize /\ file'[k].bytes \in Nat
                                 /\ (file'[k].bytes > 0 => file'[k] # NoFile)
<1>1. ASSUME NEW f \in [Keys -> File], NEW k \in Keys
      PROVE  f[k].bytes \in 0..MaxSize /\ f[k].bytes \in Nat /\ (f[k].bytes > 0 => f[k] # NoFile)
  BY ScratchAssumption DEF File, NoFile
<1>2. Sizes => file \in [Keys -> File]
  BY DEF Sizes, TypeOK
<1>3. Sizes' => file' \in [Keys -> File]
  BY DEF Sizes, TypeOK, File
<1> QED
  BY <1>1, <1>2, <1>3 DEF Exists

\* Files change in X only, which has at most one of them.
LEMMA AmountGrows ==
    ASSUME NEW f, NEW g, NEW S \in SUBSET Keys, NEW R \in SUBSET Keys, NEW X, NEW e \in {0, MaxSize},
           X = {} \/ (e = MaxSize /\ \E j \in Keys : X = {j}),
           \A k \in Keys : f[k].bytes \in 0..MaxSize /\ g[k].bytes \in 0..MaxSize,
           \A k \in S \ X : f[k].bytes > 0 => k \in R /\ f[k].bytes <= g[k].bytes
    PROVE  Amount(f, S) <= Amount(g, R) + e
<1>0. MaxSize \in Nat /\ e \in Nat /\ \A k \in Keys : f[k].bytes \in Nat /\ g[k].bytes \in Nat
  BY ScratchAssumption
<1>1. Amount(f, S) \in Nat /\ Amount(g, R) \in Nat
  BY AmountType
<1>2. CASE X = {}
  <2>1. Amount(f, S) <= Amount(g, R)
    BY <1>0, <1>2, AmountMonotone
  <2> QED
    BY <1>0, <1>1, <2>1
<1>3. CASE X # {}
  <2>1. PICK j \in Keys : X = {j}
    BY <1>3
  <2>2. Amount(f, S) <= Amount(g, R) + MaxSize
    BY <2>1, AmountAdd
  <2> QED
    BY <1>3, <2>2
<1> QED
  BY <1>2, <1>3

\* Outside X, closed files do not grow, are not added, and stay lost.
Settled(X) ==
    \A k \in Keys \ X : k \in Shut' /\ file'[k].bytes > 0 =>
        k \in Shut /\ file'[k].bytes <= file[k].bytes /\ (k \in Lost => k \in Lost')

\* r keeps its snapshot, but for files that are gone or lost.
SameSnapshot(r) ==
    \A k \in Keys : file'[k].bytes > 0 =>
        /\ k \in Snapshot(r)' => k \in Snapshot(r)
        /\ k \in Snapshot(r) => k \in Snapshot(r)' \/ k \in Lost'

\* What such a step does to the sums.
LEMMA Less ==
    ASSUME Sizes, Sizes', NEW X, NEW e \in {0, MaxSize},
           X = {} \/ (e = MaxSize /\ \E j \in Keys : X = {j}), Settled(X)
    PROVE  /\ Kept' <= Kept + e
           /\ \A r : SameSnapshot(r) => New(r)' <= New(r) + e /\ Seen(r)' <= Seen(r) + e
<1>1. \A k \in Keys : file'[k].bytes \in 0..MaxSize /\ file[k].bytes \in 0..MaxSize
  BY FileSizes
<1>2. Kept' <= Kept + e
  <2> DEFINE S == Shut' \ Lost'
             R == Shut \ Lost
  <2>1. S \in SUBSET Keys /\ R \in SUBSET Keys
    BY DEF Shut
  <2>2. \A k \in S \ X : file'[k].bytes > 0 => k \in R /\ file'[k].bytes <= file[k].bytes
    BY <2>1 DEF Settled
  <2> HIDE DEF S, R
  <2>3. Amount(file', S) <= Amount(file, R) + e
    BY <1>1, <2>1, <2>2, AmountGrows
  <2> QED
    BY <2>3 DEF Kept, S, R
<1>3. ASSUME NEW r, SameSnapshot(r) PROVE New(r)' <= New(r) + e
  <2> DEFINE S == (Shut' \ Lost') \ Snapshot(r)'
             R == (Shut \ Lost) \ Snapshot(r)
  <2>1. S \in SUBSET Keys /\ R \in SUBSET Keys
    BY DEF Shut
  <2>2. \A k \in S \ X : file'[k].bytes > 0 => k \in R /\ file'[k].bytes <= file[k].bytes
    BY <1>3, <2>1 DEF Settled, SameSnapshot
  <2> HIDE DEF S, R
  <2>3. Amount(file', S) <= Amount(file, R) + e
    BY <1>1, <2>1, <2>2, AmountGrows
  <2> QED
    BY <2>3 DEF New, S, R
<1>4. ASSUME NEW r, SameSnapshot(r) PROVE Seen(r)' <= Seen(r) + e
  <2> DEFINE S == Shut' \cap ((Keys \ Lost') \cup Snapshot(r)')
             R == Shut \cap ((Keys \ Lost) \cup Snapshot(r))
  <2>1. S \in SUBSET Keys /\ R \in SUBSET Keys
    BY DEF Shut
  <2>2. \A k \in S \ X : file'[k].bytes > 0 => k \in R /\ file'[k].bytes <= file[k].bytes
    BY <1>4, <2>1 DEF Settled, SameSnapshot
  <2> HIDE DEF S, R
  <2>3. Amount(file', S) <= Amount(file, R) + e
    BY <1>1, <2>1, <2>2, AmountGrows
  <2>4. Seen(r)' = Amount(file', S) /\ Seen(r) = Amount(file, R)
    BY DEF Seen, Keys, S, R
  <2> QED
    BY <2>3, <2>4
<1> QED
  BY <1>2, <1>3, <1>4

\* A step of r admits no other request and stops none from evicting.
LEMMA Others ==
    ASSUME Sizes, NEW r \in Requests, NEW c, call' = [call EXCEPT ![r] = c],
           \A k \in Keys : file'[k].by \in {file[k].by, r, "nobody"}
    PROVE  /\ call'[r] = c
           /\ \A q \in Requests \ {r} : /\ call'[q] = call[q] /\ Snapshot(q)' = Snapshot(q)
                                        /\ q \in Admitted' => q \in Admitted
                                        /\ q \in Evicting' <=> q \in Evicting
<1>1. DOMAIN call = Requests
  BY DEF Sizes, TypeOK
<1>2. call'[r] = c /\ \A q \in Requests \ {r} : call'[q] = call[q]
  BY <1>1
<1>3. ASSUME NEW q \in Requests \ {r}
      PROVE  /\ Snapshot(q)' = Snapshot(q) /\ (q \in Admitted' => q \in Admitted)
             /\ q \in Evicting' <=> q \in Evicting
  <2>1. call'[q] = call[q]
    BY <1>2
  <2>2. Snapshot(q)' = Snapshot(q) /\ (q \in Evicting' <=> q \in Evicting)
    BY <2>1 DEF Snapshot, Evicting, At, Reached, Blind, Keys
  <2>3. ASSUME At(q, "copy"), Owns(q)' PROVE Owns(q)
    <3>1. KeyOf(q) \in Keys /\ KeyOf(q)' = KeyOf(q)
      BY <2>1, <2>3, CallRuns DEF At, KeyOf
    <3>2. file'[KeyOf(q)].by = q
      BY <2>3, <3>1 DEF Owns
    <3> QED
      BY <3>1, <3>2, ScratchAssumption DEF Owns
  <2>4. q \in Admitted' => q \in Admitted
    BY <2>1, <2>3 DEF Admitted, At, Reached, Blind
  <2> QED
    BY <2>2, <2>4
<1> QED
  BY <1>2, <1>3

\* A step of r that admits nobody.
LEMMA Quiet ==
    ASSUME Sizes, Sizes', Budget, misjudged' = misjudged,
           NEW r \in Requests, NEW c, call' = [call EXCEPT ![r] = c],
           \A k \in Keys : file'[k].by \in {file[k].by, r, "nobody"},
           NEW X, NEW e \in {0, MaxSize}, X = {} \/ (e = MaxSize /\ \E j \in Keys : X = {j}), Settled(X),
           r \in Admitted' => r \in Admitted,
           e = MaxSize => MaxSize = 0 \/ \E q \in Admitted : q \notin Admitted',
           r \in Evicting' => r \in Evicting /\ Grows(r, e)
    PROVE  Budget'
<1>1. Kept' <= Kept + e /\ \A q : SameSnapshot(q) => New(q)' <= New(q) + e /\ Seen(q)' <= Seen(q) + e
  BY Less
<1>2. \A q \in Requests \ {r} : /\ call'[q] = call[q] /\ Snapshot(q)' = Snapshot(q)
                                /\ q \in Admitted' => q \in Admitted
                                /\ q \in Evicting' <=> q \in Evicting
  BY Others
<1>3. Admitted' \subseteq Admitted /\ Evicting' \subseteq Evicting
  BY <1>2, EvictingNotAdmitted
<1>4. \A q \in Evicting' : Grows(q, e)
  <2> SUFFICES ASSUME NEW q \in Evicting', q # r PROVE Grows(q, e)
    OBVIOUS
  <2>1. q \in Requests \ {r} /\ call'[q] = call[q] /\ SameSnapshot(q) /\ q \in Evicting
    BY <1>2, EvictingNotAdmitted DEF SameSnapshot
  <2>2. New(q)' <= New(q) + e /\ Seen(q)' <= Seen(q) + e
    BY <1>1, <2>1
  <2>3. call[q].currentSize \in Int /\ Seen(q) \in Nat /\ Seen(q)' \in Nat /\ e \in Nat
    BY <2>1, Measured, Numbers
  <2> QED
    BY <2>1, <2>2, <2>3 DEF Grows
<1> QED
  BY <1>1, <1>3, <1>4, Loosens

\* The same, when closed files change only by going.
LEMMA Steady ==
    ASSUME Sizes, Sizes', Budget, misjudged' = misjudged,
           NEW r \in Requests, NEW c, call' = [call EXCEPT ![r] = c],
           \A k \in Keys : file'[k].by \in {file[k].by, r, "nobody"}, Settled({}),
           r \in Admitted' => r \in Admitted,
           r \in Evicting' => /\ r \in Evicting /\ SameSnapshot(r)
                              /\ call'[r].currentSize = call[r].currentSize
    PROVE  Budget'
<1>1. r \in Evicting' => Grows(r, 0)
  <2> SUFFICES ASSUME r \in Evicting' PROVE Grows(r, 0)
    OBVIOUS
  <2>1. New(r)' <= New(r) + 0 /\ Seen(r)' <= Seen(r) + 0
    BY Less
  <2>2. call[r].currentSize \in Int /\ Seen(r) \in Nat /\ Seen(r)' \in Nat
    BY Measured, Numbers
  <2> QED
    BY <2>1, <2>2 DEF Grows
<1> DEFINE X == {}
           e == 0
<1>2. e \in {0, MaxSize} /\ X = {} /\ Settled(X) /\ (e = MaxSize => MaxSize = 0)
      /\ (r \in Evicting' => r \in Evicting /\ Grows(r, e))
  BY <1>1
<1> HIDE DEF X, e
<1> QED
  BY <1>2, Quiet

\* Where r is, by the step it has reached.
LEMMA Places ==
    ASSUME NEW r \in Requests
    PROVE  /\ r \in Admitted' => \/ call'[r].pc \in {"replace", "create", "copy", "forget"}
                                 \/ call'[r].pc \in {"snapshot", "evict"} /\ call'[r].blind = TRUE
           /\ r \in Evicting' => call'[r].pc \in {"snapshot", "evict", "forget"} /\ call'[r].blind # TRUE
BY DEF Admitted, Evicting, At, Blind

\* A request begins: what was untracked counts as lost.
LEMMA TouchBudget ==
    ASSUME Sizes, Sizes', Budget, NEW r \in Requests, NEW u \in Uris, Touch(r, u)
    PROVE  Budget'
<1> DEFINE c == [pc |-> "lookup", uri |-> u, currentSize |-> 0, blind |-> FALSE, sortedAccess |-> NoTimes,
                 toDelete |-> {}, written |-> 0]
<1>1. call' = [call EXCEPT ![r] = c] /\ c.pc = "lookup" /\ file' = file
      /\ untracked' = untracked \ {generateCacheKey[u]}
      /\ strays' = strays \cup {k \in {generateCacheKey[u]} : k \in untracked /\ Exists(k)}
      /\ misjudged' = misjudged
  BY DEF Touch
<1> HIDE DEF c
<1>2. call'[r] = c
  BY <1>1 DEF Sizes, TypeOK
<1>3. r \notin Admitted' /\ r \notin Evicting'
  BY <1>1, <1>2, Places
<1>4. Settled({})
  <2> SUFFICES ASSUME NEW k \in Keys, k \in Shut', file'[k].bytes > 0
               PROVE  k \in Shut /\ file'[k].bytes <= file[k].bytes /\ (k \in Lost => k \in Lost')
    BY DEF Settled
  <2>1. file'[k] = file[k] /\ Exists(k) /\ file[k].bytes \in Nat
    BY <1>1, FileSizes
  <2> QED
    BY <1>1, <2>1 DEF Shut, Lost
<1> QED
  BY <1>1, <1>3, <1>4, Steady

\* A hit returns; a miss is measured next.  The walk throws, or the server
\* cannot be reached: the request ends.
LEMMA LookupBudget ==
    ASSUME Sizes, Sizes', Budget, NEW r \in Requests, Lookup(r) \/ MeasureThrows(r) \/ OpenFails(r)
    PROVE  Budget'
<1>1. call[r].pc # "idle" /\ file' = file /\ Lost' = Lost /\ misjudged' = misjudged
  BY DEF Lookup, MeasureThrows, OpenFails, At, Lost, counts
<1>2. call[r] \in Call
  BY <1>1, CallRuns
<1>3. PICK c \in {Idle, [call[r] EXCEPT !.pc = "measure"]} : call' = [call EXCEPT ![r] = c]
  BY DEF Lookup, MeasureThrows, OpenFails, Goto, Return
<1>4. c.pc \in {"idle", "measure"}
  BY <1>2, <1>3 DEF Idle, Call
<1>5. r \notin Admitted' /\ r \notin Evicting'
  <2>1. call'[r] = c
    BY <1>3 DEF Sizes, TypeOK
  <2> QED
    BY <1>4, <2>1, Places
<1>6. Settled({})
  BY <1>1, FileSizes DEF Settled, Shut
<1> QED
  BY <1>1, <1>3, <1>5, <1>6, Steady

\* The access time of a file that was deleted goes; r goes on evicting, or is
\* admitted already.
LEMMA ForgetBudget ==
    ASSUME Sizes, Sizes', Budget, NEW r \in Requests, NEW k \in Keys, Forget(r, k)
    PROVE  Budget'
<1> DEFINE c == [call[r] EXCEPT !.pc = "evict", !.toDelete = {}]
           d == [call[r] EXCEPT !.pc = "replace", !.toDelete = {}, !.currentSize = 0, !.sortedAccess = NoTimes]
<1>1. At(r, "forget") /\ file' = file /\ untracked \subseteq untracked' /\ strays' = strays
      /\ misjudged' = misjudged /\ call' = [call EXCEPT ![r] = IF Reached(r) THEN c ELSE d]
  BY DEF Forget, Reached, counts
<1>2. call[r] \in Call
  BY <1>1, CallRuns DEF At
<1>3. /\ c.pc = "evict" /\ c.blind = call[r].blind /\ c.currentSize = call[r].currentSize /\ c.sortedAccess = call[r].sortedAccess
      /\ d.pc = "replace"
  BY <1>2 DEF Call
<1> HIDE DEF c, d
<1>4. Settled({})
  BY <1>1, FileSizes DEF Settled, Shut, Lost
<1>5. CASE Reached(r)
  <2>1. call' = [call EXCEPT ![r] = c] /\ call'[r] = c
    BY <1>1, <1>5 DEF Sizes, TypeOK
  <2>2. /\ r \in Admitted' => r \in Admitted
        /\ r \in Evicting' => r \in Evicting
    BY <1>1, <1>3, <1>5, <2>1, Places DEF Evicting, Admitted, At, Blind
  <2>3. SameSnapshot(r) /\ call'[r].currentSize = call[r].currentSize
    BY <1>1, <1>3, <2>1 DEF SameSnapshot, Snapshot, At
  <2> QED
    BY <1>1, <1>4, <2>1, <2>2, <2>3, Steady
<1>6. CASE ~Reached(r)
  <2>1. call' = [call EXCEPT ![r] = d] /\ call'[r] = d
    BY <1>1, <1>6 DEF Sizes, TypeOK
  <2>2. r \in Admitted /\ r \notin Evicting'
    BY <1>1, <1>3, <1>6, <2>1, Places DEF Admitted
  <2> QED
    BY <1>1, <1>4, <2>1, <2>2, Steady
<1> QED
  BY <1>5, <1>6

\* The old file goes.
LEMMA ReplaceBudget ==
    ASSUME Sizes, Sizes', Budget, NEW r \in Requests, Replace(r)
    PROVE  Budget'
<1> DEFINE c == [call[r] EXCEPT !.pc = "create"]
<1>1. At(r, "replace") /\ file' = [file EXCEPT ![KeyOf(r)] = NoFile] /\ untracked' = untracked
      /\ strays' = strays \ {KeyOf(r)} /\ call' = [call EXCEPT ![r] = c] /\ misjudged' = misjudged
  BY DEF Replace, Goto, counts
<1>2. call[r] \in Call /\ KeyOf(r) \in Keys
  BY <1>1, CallRuns DEF At
<1>3. c.pc = "create"
  BY <1>2 DEF Call
<1> HIDE DEF c
<1>4. call'[r] = c
  BY <1>1 DEF Sizes, TypeOK
<1>5. r \in Admitted /\ r \notin Evicting'
  BY <1>1, <1>3, <1>4, Places DEF Admitted, At
<1>6. \A k \in Keys : file'[k] = IF k = KeyOf(r) THEN NoFile ELSE file[k]
  BY <1>1 DEF Sizes, TypeOK
<1>7. \A k \in Keys : file'[k].by \in {file[k].by, r, "nobody"}
  BY <1>6 DEF NoFile
<1>8. Settled({})
  <2> SUFFICES ASSUME NEW k \in Keys, k \in Shut', file'[k].bytes > 0
               PROVE  k \in Shut /\ file'[k].bytes <= file[k].bytes /\ (k \in Lost => k \in Lost')
    BY DEF Settled
  <2>1. k # KeyOf(r) /\ file'[k] = file[k] /\ file[k].bytes \in Nat
    BY <1>6, FileSizes DEF NoFile
  <2> QED
    BY <1>1, <2>1 DEF Shut, Lost
<1> QED
  BY <1>1, <1>5, <1>7, <1>8, Steady

\* An empty file is created, or the request fails.
LEMMA CreateBudget ==
    ASSUME Sizes, Sizes', Budget, NEW r \in Requests, Create(r)
    PROVE  Budget'
<1> DEFINE f == [by |-> r, of |-> call[r].uri, bytes |-> 0]
<1>1. At(r, "create") /\ Lost' = Lost /\ misjudged' = misjudged
      /\ (file' = file \/ file' = [file EXCEPT ![KeyOf(r)] = f])
  BY DEF Create, Lost, counts
<1>2. call[r] \in Call /\ KeyOf(r) \in Keys
  BY <1>1, CallRuns DEF At
<1>3. PICK c \in {Idle, [call[r] EXCEPT !.pc = "copy"]} : call' = [call EXCEPT ![r] = c]
  BY DEF Create, Goto, Return
<1>4. c.pc \in {"idle", "copy"}
  BY <1>2, <1>3 DEF Idle, Call
<1>5. r \in Admitted /\ r \notin Evicting'
  <2>1. call'[r] = c
    BY <1>3 DEF Sizes, TypeOK
  <2> QED
    BY <1>1, <1>4, <2>1, Places DEF Admitted, At
<1>6. \A k \in Keys : file'[k] = file[k] \/ file'[k].by = r
  BY <1>1 DEF Sizes, TypeOK
<1>7. Settled({})
  BY <1>1, <1>6, FileSizes, ScratchAssumption DEF Settled, Shut
<1> QED
  BY <1>1, <1>3, <1>5, <1>6, <1>7, Steady

\* A file grows that is open.
LEMMA CopyBudget ==
    ASSUME Sizes, Sizes', Budget, NEW r \in Requests, Copy(r)
    PROVE  Budget'
<1> DEFINE c == [call[r] EXCEPT !.written = call[r].written + 1]
           f == [file[KeyOf(r)] EXCEPT !.bytes = @ + 1]
<1>1. At(r, "copy") /\ Lost' = Lost /\ call' = [call EXCEPT ![r] = c] /\ misjudged' = misjudged
      /\ (file' = file \/ (Owns(r) /\ file' = [file EXCEPT ![KeyOf(r)] = f]))
  BY DEF Copy, Lost, counts
<1>2. call[r] \in Call /\ KeyOf(r) \in Keys
  BY <1>1, CallRuns DEF At
<1>3. c.pc = "copy" /\ c.uri = call[r].uri
  BY <1>1, <1>2 DEF Call, At
<1> HIDE DEF c
<1>4. call'[r] = c /\ KeyOf(r)' = KeyOf(r)
  BY <1>1, <1>3 DEF Sizes, TypeOK, KeyOf
<1>5. Owns(r) => f.by = r
  <2>1. Owns(r) => file[KeyOf(r)] \in [by : Requests \cup {"nobody"}, of : Uris, bytes : 0..MaxSize]
    BY <1>2, ScratchAssumption DEF Sizes, TypeOK, File, NoFile, Owns
  <2> QED
    BY <2>1 DEF Owns
<1> HIDE DEF f
<1>6. \A k \in Keys : file'[k] = file[k] \/ (file'[k].by = r /\ file[k].by = r)
  BY <1>1, <1>2, <1>5 DEF Sizes, TypeOK, Owns
<1>7. Settled({})
  BY <1>1, <1>6, FileSizes, ScratchAssumption DEF Settled, Shut
<1>8. r \in Admitted' => r \in Admitted
  <2>1. Owns(r)' => Owns(r)
    BY <1>2, <1>4, <1>6 DEF Owns
  <2> QED
    BY <1>1, <1>3, <1>4, <2>1 DEF Admitted, At
<1>9. r \notin Evicting'
  BY <1>3, <1>4, Places
<1> QED
  BY <1>1, <1>6, <1>7, <1>8, <1>9, Steady

\* A file is closed: the request that has added it may add no other.
LEMMA CopyEndsBudget ==
    ASSUME IInv, Sizes, Sizes', Budget, NEW r \in Requests, CopyEnds(r) \/ CopyFails(r)
    PROVE  Budget'
<1>1. At(r, "copy") /\ Lost' = Lost /\ call' = [call EXCEPT ![r] = Idle] /\ file' = Closed(OpenBy(r))
      /\ misjudged' = misjudged
  BY DEF CopyEnds, CopyFails, Return, Lost, counts
<1>2. KeyOf(r) \in Keys
  BY <1>1, CallRuns DEF At
<1>3. call'[r] = Idle /\ Idle.pc = "idle"
  BY <1>1 DEF Sizes, TypeOK, Idle
<1>4. r \notin Admitted' /\ r \notin Evicting'
  BY <1>3, Places
<1>5. \A k \in Keys : k \notin OpenBy(r) => file'[k] = file[k]
  BY <1>1 DEF Closed
<1>6. \A k \in OpenBy(r) : file'[k].by = "nobody" /\ k = KeyOf(r) /\ Owns(r)
  BY <1>1, FileTypes DEF Closed, OpenBy, File, NoFile
<1>7. \A k \in Keys : file'[k].by \in {file[k].by, r, "nobody"}
  BY <1>5, <1>6
<1>8. CASE Owns(r)
  <2> DEFINE X == {KeyOf(r)}
             e == MaxSize
  <2>1. r \in Admitted
    BY <1>1, <1>8 DEF Admitted
  <2>2. Settled(X)
    BY <1>1, <1>5, <1>6, FileSizes DEF Settled, Shut
  <2>3. e \in {0, MaxSize} /\ (X = {} \/ (e = MaxSize /\ \E j \in Keys : X = {j}))
        /\ (e = MaxSize => MaxSize = 0 \/ \E q \in Admitted : q \notin Admitted')
    BY <1>2, <1>4, <2>1
  <2> HIDE DEF X, e
  <2> QED
    BY <1>1, <1>4, <1>7, <2>2, <2>3, Quiet
<1>9. CASE ~Owns(r)
  <2>1. Settled({})
    BY <1>1, <1>5, <1>6, <1>9, FileSizes DEF Settled, Shut
  <2> QED
    BY <1>1, <1>4, <1>7, <2>1, Steady
<1> QED
  BY <1>8, <1>9

\* The same for a step by which r, having evicted, is admitted.
LEMMA Joins ==
    ASSUME Sizes, Sizes', Budget, misjudged' = misjudged,
           NEW r \in Requests, NEW c, call' = [call EXCEPT ![r] = c],
           \A k \in Keys : file'[k].by \in {file[k].by, r, "nobody"}, Settled({}),
           r \in Evicting, r \notin Evicting', NEW e \in {0, MaxSize},
           e = MaxSize => MaxSize = 0 \/ \E q \in Admitted : q \notin Admitted',
           \A b \in Int : New(r) <= b /\ Seen(r) <= call[r].currentSize + b => Kept' < Ceiling + b + e
    PROVE  Budget'
<1>1. Kept' <= Kept + 0 /\ \A q : SameSnapshot(q) => New(q)' <= New(q) + 0 /\ Seen(q)' <= Seen(q) + 0
  BY Less
<1>2. \A q \in Requests \ {r} : /\ call'[q] = call[q] /\ Snapshot(q)' = Snapshot(q)
                                /\ q \in Admitted' => q \in Admitted
                                /\ q \in Evicting' <=> q \in Evicting
  BY Others
<1>3. Admitted' \subseteq Admitted \cup {r} /\ Evicting' \subseteq Evicting \ {r}
  BY <1>2, EvictingNotAdmitted
<1>4. \A q \in Evicting' : Grows(q, 0)
  <2> SUFFICES ASSUME NEW q \in Evicting' PROVE Grows(q, 0)
    OBVIOUS
  <2>1. q \in Requests \ {r} /\ call'[q] = call[q] /\ SameSnapshot(q) /\ q \in Evicting
    BY <1>2, EvictingNotAdmitted DEF SameSnapshot
  <2>2. New(q)' <= New(q) + 0 /\ Seen(q)' <= Seen(q) + 0
    BY <1>1, <2>1
  <2>3. call[q].currentSize \in Int /\ Seen(q) \in Nat /\ Seen(q)' \in Nat
    BY <2>1, Measured, Numbers
  <2> QED
    BY <2>1, <2>2, <2>3 DEF Grows
<1>5. Kept' <= Kept
  BY <1>1, Numbers
<1> QED
  BY <1>3, <1>4, <1>5, Admits

\* Nothing is left that r could delete: all that is kept came after it measured.
LEMMA EvictEndsBudget ==
    ASSUME Sizes, Sizes', Budget, NEW r \in Requests, EvictEnds(r)
    PROVE  Budget'
<1> DEFINE c == [call[r] EXCEPT !.pc = "replace", !.currentSize = 0]
           e == 0
<1>1. At(r, "evict") /\ call[r].sortedAccess = NoTimes /\ call' = [call EXCEPT ![r] = c]
      /\ file' = file /\ Lost' = Lost /\ misjudged' = misjudged
  BY DEF EvictEnds, Lost, counts
<1>2. call[r] \in Call
  BY <1>1, CallRuns DEF At
<1>3. c.pc = "replace"
  BY <1>2 DEF Call
<1> HIDE DEF c
<1>4. call'[r] = c
  BY <1>1 DEF Sizes, TypeOK
<1>5. r \notin Evicting' /\ (Blind(r) => r \in Admitted) /\ (~Blind(r) => r \in Evicting)
  BY <1>1, <1>3, <1>4, Places DEF Evicting, Admitted, At
<1>6. Settled({})
  BY <1>1, FileSizes DEF Settled, Shut
<1>7. Kept' = Kept /\ New(r) = Kept
  <2>1. Snapshot(r) = {}
    BY <1>1 DEF Snapshot, NoTimes, At
  <2>2. (Shut \ Lost) \ Snapshot(r) = Shut \ Lost
    BY <2>1
  <2>3. Shut' = Shut
    BY <1>1 DEF Shut
  <2> QED
    BY <1>1, <2>2, <2>3 DEF Kept, New
<1>8. \A b \in Int : New(r) <= b /\ Seen(r) <= call[r].currentSize + b => Kept' < Ceiling + b + 0
  BY <1>7, Numbers
<1>9. e \in {0, MaxSize} /\ (e = MaxSize => MaxSize = 0)
      /\ \A b \in Int : New(r) <= b /\ Seen(r) <= call[r].currentSize + b => Kept' < Ceiling + b + e
  BY <1>8
<1> HIDE DEF e
<1>10. CASE Blind(r)
  BY <1>1, <1>5, <1>6, <1>10, Steady
<1>11. CASE ~Blind(r)
  BY <1>1, <1>5, <1>6, <1>9, <1>11, Joins
<1> QED
  BY <1>10, <1>11

\* A file that has gone is passed over, and so is one that cannot be deleted,
\* which counts as lost.
LEMMA SkipBudget ==
    ASSUME Sizes, Sizes', Budget, NEW r \in Requests, NEW k \in Keys,
           (EvictOne(r, k) /\ ~Exists(k)) \/ EvictFails(r, k)
    PROVE  Budget'
<1> DEFINE rest == Without(call[r].sortedAccess, k)
           c == [call[r] EXCEPT !.sortedAccess = rest]
<1>1. At(r, "evict") /\ call' = [call EXCEPT ![r] = c] /\ file' = file /\ Lost \subseteq Lost'
      /\ misjudged' = misjudged /\ (Exists(k) => k \in Lost')
  BY DEF EvictOne, EvictFails, Lost, counts
<1>2. call[r] \in Call
  BY <1>1, CallRuns DEF At
<1>3. DOMAIN rest = DOMAIN call[r].sortedAccess \ {k}
  BY DEF Without, Restrict
<1> HIDE DEF rest
<1>4. c.pc = "evict" /\ c.currentSize = call[r].currentSize /\ c.sortedAccess = rest /\ c.blind = call[r].blind
  BY <1>1, <1>2 DEF Call, At
<1> HIDE DEF c
<1>5. call'[r] = c
  BY <1>1 DEF Sizes, TypeOK
<1>6. (r \in Evicting' => r \in Evicting) /\ (r \in Admitted' => r \in Admitted)
  BY <1>1, <1>4, <1>5, Places DEF Evicting, Admitted, At, Blind
<1>7. Settled({})
  BY <1>1, FileSizes DEF Settled, Shut
<1>8. SameSnapshot(r)
  <2>1. Snapshot(r)' = Snapshot(r) \ {k}
    BY <1>1, <1>3, <1>4, <1>5 DEF Snapshot, At
  <2>2. file'[k].bytes > 0 => k \in Lost'
    BY <1>1, FileSizes
  <2> QED
    BY <2>1, <2>2 DEF SameSnapshot
<1> QED
  BY <1>1, <1>4, <1>5, <1>6, <1>7, <1>8, Steady

\* The access times are copied: files that have none are lost.
LEMMA SnapshotBudget ==
    ASSUME IInv, Sizes, Sizes', Budget, NEW r \in Requests, TakeSnapshot(r)
    PROVE  Budget'
<1> DEFINE c == [call[r] EXCEPT !.pc = "evict", !.sortedAccess = accessTimes]
<1>1. At(r, "snapshot") /\ call' = [call EXCEPT ![r] = c] /\ file' = file /\ Lost' = Lost
      /\ misjudged' = misjudged
  BY DEF TakeSnapshot, Lost, counts
<1>2. call[r] \in Call
  BY <1>1, CallRuns DEF At
<1>3. c.pc = "evict" /\ c.currentSize = call[r].currentSize /\ c.sortedAccess = accessTimes
      /\ c.blind = call[r].blind
  BY <1>2 DEF Call
<1> HIDE DEF c
<1>4. call'[r] = c
  BY <1>1 DEF Sizes, TypeOK
<1>5. (r \in Evicting' => r \in Evicting) /\ (r \in Admitted' => r \in Admitted)
  BY <1>1, <1>3, <1>4, Places DEF Evicting, Admitted, At, Blind
<1>6. Settled({})
  BY <1>1, FileSizes DEF Settled, Shut
<1>7. SameSnapshot(r)
  <2>1. Snapshot(r) = Keys /\ Snapshot(r)' = DOMAIN accessTimes
    BY <1>1, <1>3, <1>4 DEF Snapshot, At
  <2>2. \A k \in Keys : file'[k].bytes > 0 => Exists(k)
    BY <1>1, FileSizes
  <2>3. \A k \in Keys : Exists(k) => k \in DOMAIN accessTimes \/ k \in Lost'
    BY <1>1 DEF IInv, FilesTracked, Lost
  <2> QED
    BY <2>1, <2>2, <2>3 DEF SameSnapshot
<1> QED
  BY <1>1, <1>3, <1>4, <1>5, <1>6, <1>7, Steady

\* A file is deleted.  If it was open, its bytes were not among those of the
\* closed files, and the request that copies to it will add none.
LEMMA DeleteBudget ==
    ASSUME IInv, Sizes, Sizes', Budget, NEW r \in Requests, NEW k \in Keys, EvictOne(r, k), Exists(k)
    PROVE  Budget'
<1> DEFINE rest == Without(call[r].sortedAccess, k)
           n == call[r].currentSize - file[k].bytes
           c == [call[r] EXCEPT !.pc = "forget", !.toDelete = {k}, !.sortedAccess = rest, !.currentSize = n]
           e == IF k \in Shut THEN 0 ELSE MaxSize
<1>1. At(r, "evict") /\ call' = [call EXCEPT ![r] = c] /\ file' = [file EXCEPT ![k] = NoFile]
      /\ untracked' = untracked /\ strays' = strays \ {k} /\ k \in Snapshot(r)
      /\ misjudged' = misjudged
  BY DEF EvictOne, NextToGo, Snapshot, At, counts
<1>2. call[r] \in Call /\ call[r].currentSize \in Int
  BY <1>1, CallRuns DEF At
<1>3. DOMAIN rest = DOMAIN call[r].sortedAccess \ {k}
  BY DEF Without, Restrict
<1>n. n \in Int /\ n = call[r].currentSize - file[k].bytes
  BY <1>2, FileSizes
<1> HIDE DEF rest, n
<1>4. c.pc = "forget" /\ c.currentSize = n /\ c.sortedAccess = rest /\ c.blind = call[r].blind
  BY <1>2 DEF Call
<1> HIDE DEF c
<1>5. call'[r] = c /\ DOMAIN call = Requests
  BY <1>1 DEF Sizes, TypeOK
<1>6. \A j \in Keys : file'[j] = IF j = k THEN NoFile ELSE file[j]
  BY <1>1 DEF Sizes, TypeOK
<1>7. \A j \in Keys : file'[j].by \in {file[j].by, r, "nobody"}
  BY <1>6 DEF NoFile
<1>8. Settled({})
  <2> SUFFICES ASSUME NEW j \in Keys, j \in Shut', file'[j].bytes > 0
               PROVE  j \in Shut /\ file'[j].bytes <= file[j].bytes /\ (j \in Lost => j \in Lost')
    BY DEF Settled
  <2>1. j # k /\ file'[j] = file[j] /\ file[j].bytes \in Nat
    BY <1>6, FileSizes DEF NoFile
  <2> QED
    BY <1>1, <2>1 DEF Shut, Lost
<1>9. SameSnapshot(r)
  <2>1. Snapshot(r)' = Snapshot(r) \ {k}
    BY <1>1, <1>3, <1>4, <1>5 DEF Snapshot, At
  <2>2. file'[k].bytes = 0
    BY <1>6 DEF NoFile
  <2> QED
    BY <2>1, <2>2 DEF SameSnapshot
<1>10. New(r)' <= New(r) + 0 /\ Seen(r)' <= Seen(r) + 0
  BY <1>8, <1>9, Less
<1>11. file[k].bytes \in Nat /\ file[k].bytes <= MaxSize /\ e \in Nat /\ e \in {0, MaxSize}
       /\ (k \in Shut => e = 0) /\ (k \notin Shut => e = MaxSize)
  BY FileSizes, ScratchAssumption
<1> HIDE DEF e
<1>12. k \in Shut => Seen(r)' + file[k].bytes <= Seen(r)
  <2> SUFFICES ASSUME k \in Shut PROVE Seen(r)' + file[k].bytes <= Seen(r)
    OBVIOUS
  <2> DEFINE S == Shut \cap ((Keys \ Lost) \cup Snapshot(r))
             R == Shut' \cap ((Keys \ Lost') \cup Snapshot(r)')
  <2>1. S \in SUBSET Keys /\ R \in SUBSET Keys /\ k \in S
    BY <1>1 DEF Shut
  <2>2. \A j \in Keys : file'[j].bytes \in 0..MaxSize /\ file[j].bytes \in 0..MaxSize
    BY FileSizes
  <2>3. \A j \in R : file'[j].bytes > 0 => j \in S \ {k} /\ file'[j].bytes <= file[j].bytes
    <3> SUFFICES ASSUME NEW j \in R, file'[j].bytes > 0 PROVE j \in S \ {k} /\ file'[j].bytes <= file[j].bytes
      OBVIOUS
    <3>1. j \in Keys /\ j # k
      BY <1>6, <2>1 DEF NoFile
    <3> QED
      BY <1>8, <1>9, <3>1 DEF Settled, SameSnapshot
  <2>4. Seen(r)' = Amount(file', R) /\ Seen(r) = Amount(file, S)
    BY DEF Seen, Keys
  <2> HIDE DEF S, R
  <2>5. Amount(file', R) + file[k].bytes <= Amount(file, S)
    BY <2>1, <2>2, <2>3, AmountRemove
  <2> QED
    BY <2>4, <2>5
<1>13. Seen(r)' - n <= Seen(r) - call[r].currentSize + e
  BY <1>2, <1>n, <1>10, <1>11, <1>12, Numbers
<1>14. Grows(r, e)
  BY <1>4, <1>5, <1>10, <1>11, <1>13, Numbers DEF Grows
<1>15. e = MaxSize => MaxSize = 0 \/ \E q \in Admitted : q \notin Admitted'
  <2> SUFFICES ASSUME k \notin Shut PROVE \E q \in Admitted : q \notin Admitted'
    BY <1>11
  <2>1. PICK q \in Requests : file[k].by = q /\ At(q, "copy") /\ KeyOf(q) = k /\ q # "nobody"
    BY FileTypes DEF IInv, OpenRight, Shut
  <2>2. q \in Admitted
    BY <2>1 DEF Admitted, Owns
  <2>3. q # r
    BY <1>1, <2>1 DEF At
  <2>4. call'[q] = call[q]
    BY <1>1, <1>5, <2>1, <2>3
  <2>5. ~Owns(q)'
    BY <1>6, <2>1, <2>4 DEF Owns, KeyOf, NoFile
  <2>6. q \notin Admitted'
    BY <2>1, <2>4, <2>5 DEF Admitted, At
  <2> QED
    BY <2>2, <2>6
<1>b. CASE Blind(r)
  <2>1. r \in Admitted /\ r \notin Evicting'
    BY <1>1, <1>4, <1>5, <1>b, Places DEF Admitted, At, Blind
  <2> QED
    BY <1>1, <1>7, <1>8, <2>1, Steady
<1>16. ~Blind(r) => r \in Evicting
  BY <1>1 DEF Evicting, At
<1>17. CASE ~Blind(r) /\ LimitReached(n)
  <2>1. r \notin Admitted'
    BY <1>4, <1>5, <1>17 DEF Admitted, At, Reached, Blind
  <2> DEFINE X == {}
  <2>2. X = {} /\ Settled(X)
    BY <1>8
  <2> HIDE DEF X
  <2> QED
    BY <1>1, <1>7, <1>11, <1>14, <1>15, <1>16, <1>17, <2>1, <2>2, Quiet
<1>18. CASE ~Blind(r) /\ ~LimitReached(n)
  <2>1. r \notin Evicting'
    BY <1>4, <1>5, <1>18 DEF Evicting, At, Reached
  <2>2. Kept' <= Seen(r)'
    <3> DEFINE S == Shut' \ Lost'
               R == Shut' \cap ((Keys \ Lost') \cup Snapshot(r)')
    <3>1. S \in SUBSET Keys /\ R \in SUBSET Keys /\ S \subseteq R
      BY DEF Shut
    <3>2. \A j \in Keys : file'[j].bytes \in Nat
      BY FileSizes
    <3>3. Kept' = Amount(file', S) /\ Seen(r)' = Amount(file', R)
      BY DEF Kept, Seen, Keys
    <3> HIDE DEF S, R
    <3>4. (\A j \in S : file'[j].bytes \in Nat) /\ \A j \in S : j \in R /\ file'[j].bytes <= file'[j].bytes
      BY <3>1, <3>2
    <3>5. Amount(file', S) <= Amount(file', R)
      BY <3>1, <3>4, AmountMonotone
    <3> QED
      BY <3>3, <3>5
  <2>3. n < limitBytes
    BY <1>n, <1>18, ScratchAssumption DEF LimitReached
  <2>4. ASSUME NEW b \in Int, New(r) <= b, Seen(r) <= call[r].currentSize + b PROVE Kept' < Ceiling + b + e
    BY <1>2, <1>n, <1>11, <1>13, <2>2, <2>3, <2>4, Numbers
  <2> QED
    BY <1>1, <1>7, <1>8, <1>11, <1>15, <1>16, <1>18, <2>1, <2>4, Joins
<1> QED
  BY <1>b, <1>17, <1>18

\* The directory is measured: below the limit, little is kept; otherwise all
\* closed files are among those measured.  A request that measures too little
\* is admitted, with an allowance of its own.
LEMMA MeasureBudget ==
    ASSUME Sizes, Sizes', Budget, NEW r \in Requests, NEW unread \in SUBSET Keys, Measure(r, unread)
    PROVE  Budget'
<1> DEFINE n == Amount(file, Keys \ unread)
           b == Misread(unread)
           c == [call[r] EXCEPT !.pc = "snapshot", !.currentSize = n, !.blind = b]
           d == [call[r] EXCEPT !.pc = "replace"]
<1>1. At(r, "measure") /\ file' = file /\ Lost' = Lost
      /\ misjudged' = IF b THEN misjudged + 1 ELSE misjudged
  BY DEF Measure, Lost
<1>2. n \in Nat /\ getCacheSizeInBytes(unread) = n
  BY AmountType DEF getCacheSizeInBytes, BytesOf, Amount, BytesIn
<1>3. \A k \in Keys : file[k].bytes \in Nat
  BY FileSizes
<1>4. ASSUME ~b, NEW S \in SUBSET Keys PROVE Amount(file, S) <= n
  <2>1. (\A k \in S : file[k].bytes \in Nat) /\ \A k \in S : k \in Keys /\ file[k].bytes <= file[k].bytes
    BY <1>3
  <2>2. Keys \in SUBSET Keys /\ Keys \ {} = Keys
    OBVIOUS
  <2>3. Amount(file, S) <= Amount(file, Keys)
    BY <2>1, <2>2, AmountMonotone
  <2>4. getCacheSizeInBytes({}) = Amount(file, Keys)
    BY <2>2 DEF getCacheSizeInBytes, BytesOf, Amount, BytesIn
  <2>5. Amount(file, Keys) \in Nat /\ Amount(file, S) \in Nat
    BY <2>2, AmountType
  <2>6. ~(n < Amount(file, Keys))
    BY <1>2, <1>4, <2>4 DEF Misread
  <2> HIDE DEF n
  <2> QED
    BY <1>2, <2>3, <2>5, <2>6
<1>5. Shut' = Shut /\ Shut \in SUBSET Keys
  BY <1>1 DEF Shut
<1>m. call' = [call EXCEPT ![r] = IF LimitReached(n) THEN c ELSE d]
  BY <1>2 DEF Measure, Goto
<1>6. call[r] \in Call
  BY <1>1, CallRuns DEF At
<1>7. c.pc = "snapshot" /\ c.currentSize = n /\ (c.blind = TRUE <=> b) /\ d.pc = "replace"
  <2> HIDE DEF n
  <2>1. b \in BOOLEAN
    BY DEF Misread
  <2>2. c.blind = b
    <3> HIDE DEF b
    <3> QED
      BY <1>6 DEF Call
  <2>3. c.pc = "snapshot" /\ c.currentSize = n /\ d.pc = "replace"
    <3> HIDE DEF b
    <3> QED
      BY <1>6 DEF Call
  <2> HIDE DEF b, c
  <2> QED
    BY <2>1, <2>2, <2>3
<1> HIDE DEF c, d
<1>8. PICK x \in {c, d} : call' = [call EXCEPT ![r] = x] /\ (LimitReached(n) => x = c)
  BY <1>m
<1>9. call'[r] = x
  BY <1>8 DEF Sizes, TypeOK
<1>10. \A q \in Requests \ {r} : /\ call'[q] = call[q] /\ Snapshot(q)' = Snapshot(q)
                                 /\ q \in Admitted' => q \in Admitted
                                 /\ q \in Evicting' <=> q \in Evicting
  <2>1. \A k \in Keys : file'[k].by \in {file[k].by, r, "nobody"}
    BY <1>1
  <2> QED
    BY <1>8, <2>1, Others
<1>11. Admitted' \subseteq Admitted \cup {r} /\ Evicting' \subseteq Evicting \cup {r}
  BY <1>10, EvictingNotAdmitted
<1>12. Kept' <= Kept
  BY <1>1, <1>5, Numbers DEF Kept
<1>13. \A s \in Evicting' \ {r} : Grows(s, 0)
  <2> SUFFICES ASSUME NEW s \in Evicting' \ {r} PROVE Grows(s, 0)
    OBVIOUS
  <2>1. call'[s] = call[s] /\ Snapshot(s)' = Snapshot(s) /\ s \in Evicting
    BY <1>10, EvictingNotAdmitted
  <2>2. New(s)' = New(s) /\ Seen(s)' = Seen(s)
    <3>1. New(s)' = New(s)
      BY <1>1, <1>5, <2>1 DEF New
    <3>2. Seen(s)' = Amount(file, Shut \cap ((Keys \ Lost) \cup Snapshot(s)))
      BY <1>1, <1>5, <2>1 DEF Seen, Keys
    <3> QED
      BY <3>1, <3>2 DEF Seen
  <2>3. call[s].currentSize \in Int
    BY <2>1, Measured
  <2> QED
    BY <2>1, <2>2, <2>3, Numbers DEF Grows
<1>14. CASE b
  <2>1. r \notin Evicting'
    BY <1>7, <1>8, <1>9, <1>14, Places
  <2>2. Evicting' \subseteq Evicting /\ misjudged' = misjudged + 1
    BY <1>1, <1>11, <1>14, <2>1
  <2> QED
    BY <1>11, <1>12, <1>13, <2>1, <2>2, Misjudges
<1>15. CASE ~b /\ ~LimitReached(n)
  <2>1. n < limitBytes
    BY <1>2, <1>15, ScratchAssumption DEF LimitReached
  <2>2. Kept' <= n
    <3>1. Shut \ Lost \in SUBSET Keys
      BY <1>5
    <3> QED
      BY <1>1, <1>4, <1>5, <1>15, <3>1 DEF Kept
  <2>3. Kept' < Ceiling
    BY <1>2, <2>1, <2>2, Numbers
  <2> QED
    BY <2>3, Fresh
<1>16. CASE ~b /\ LimitReached(n)
  <2>1. call'[r].pc = "snapshot" /\ call'[r].currentSize = n /\ call'[r].blind # TRUE
    BY <1>7, <1>8, <1>9, <1>16
  <2>2. r \notin Admitted' /\ Admitted' \subseteq Admitted
    BY <1>11, <2>1, Places
  <2>3. Snapshot(r)' = Keys
    BY <2>1 DEF Snapshot, At, Keys
  <2>4. New(r)' <= 0
    <3>1. New(r)' = Amount(file, {})
      <4>1. (Shut \ Lost) \ Keys = {}
        BY <1>5
      <4> QED
        BY <1>1, <1>5, <2>3, <4>1 DEF New
    <3>2. BytesIn(file, {}) = {}
      BY DEF BytesIn
    <3> QED
      BY <3>1, <3>2, FS_EmptySet DEF Amount
  <2>5. Seen(r)' <= call'[r].currentSize
    <3>1. Seen(r)' = Amount(file, Shut)
      <4>1. Shut \cap ((Keys \ Lost) \cup Keys) = Shut
        BY <1>5
      <4> QED
        BY <1>1, <1>5, <2>3, <4>1 DEF Seen, Keys
    <3> HIDE DEF n, b
    <3> QED
      BY <1>4, <1>5, <1>16, <2>1, <3>1
  <2>6. misjudged' = misjudged
    BY <1>1, <1>16
  <2> HIDE DEF n, b
  <2> QED
    BY <1>11, <1>12, <1>13, <2>2, <2>4, <2>5, <2>6, Enters
<1> QED
  BY <1>14, <1>15, <1>16

\* No bytes of files that are closed and not lost.
LEMMA NothingKept ==
    ASSUME NEW f, NEW S \in SUBSET Keys, \A k \in S : f[k].bytes = 0
    PROVE  Amount(f, S) = 0
<1>1. BytesIn(f, S) = {}
  <2> SUFFICES ASSUME NEW b \in S \X (1..MaxSize) PROVE ~(b[2] <= f[b[1]].bytes)
    BY DEF BytesIn
  <2>1. b[1] \in S /\ b[2] \in 1..MaxSize /\ f[b[1]].bytes = 0
    OBVIOUS
  <2> QED
    BY <2>1, ScratchAssumption
<1> QED
  BY <1>1, FS_EmptySet DEF Amount

\* After a restart every file there is counts as lost.
LEMMA RestartBudget ==
    ASSUME Sizes, Sizes', Restart
    PROVE  Budget'
<1>1. file' = Closed(Keys) /\ untracked' = {k \in Keys : Exists(k)}
  BY DEF Restart
<1>2. \A k \in Keys : file'[k].bytes = file[k].bytes
  <2> SUFFICES ASSUME NEW k \in Keys PROVE file'[k].bytes = file[k].bytes
    OBVIOUS
  <2>1. file'[k] = [file[k] EXCEPT !.by = "nobody"]
    BY <1>1 DEF Closed
  <2>2. file[k] \in File
    BY FileTypes
  <2> QED
    BY <2>1, <2>2 DEF File, NoFile
<1>3. Shut' \ Lost' \in SUBSET Keys
  BY DEF Shut
<1>4. \A k \in Shut' \ Lost' : file'[k].bytes = 0
  <2> SUFFICES ASSUME NEW k \in Shut' \ Lost' PROVE file'[k].bytes = 0
    OBVIOUS
  <2>1. k \in Keys /\ ~Exists(k)
    BY <1>1, <1>3 DEF Lost
  <2>2. file[k].bytes \in Nat /\ ~(file[k].bytes > 0)
    BY <2>1, FileSizes
  <2> QED
    BY <1>2, <2>1, <2>2
<1>5. Kept' = 0
  BY <1>3, <1>4, NothingKept DEF Kept
<1> QED
  BY <1>5, Numbers, Fresh

\* Nothing happens.
LEMMA StutterBudget ==
    ASSUME Sizes, Sizes', Budget, UNCHANGED vars
    PROVE  Budget'
<1>1. file' = file /\ call' = call /\ Lost' = Lost /\ misjudged' = misjudged
  BY DEF vars, Lost, counts
<1>2. Shut' = Shut /\ Admitted' = Admitted /\ Evicting' = Evicting /\ \A s : Snapshot(s)' = Snapshot(s)
  BY <1>1 DEF Shut, Admitted, Evicting, Snapshot, At, Owns, KeyOf, Reached, Blind, Keys
<1>3. Kept' = Kept /\ \A s : New(s)' = New(s)
  BY <1>1, <1>2 DEF Kept, New
<1>4. \A s : Seen(s)' = Seen(s)
  <2> SUFFICES ASSUME NEW s PROVE Seen(s)' = Seen(s)
    OBVIOUS
  <2>1. Seen(s)' = Amount(file, Shut \cap ((Keys \ Lost) \cup Snapshot(s)))
    BY <1>1, <1>2 DEF Seen, Keys
  <2> QED
    BY <2>1 DEF Seen
<1> DEFINE e == 0
<1>5. \A s \in Evicting' : Grows(s, e)
  BY <1>1, <1>2, <1>3, <1>4, Measured, Numbers DEF Grows
<1>6. e \in {0, MaxSize} /\ (e = MaxSize => MaxSize = 0) /\ Kept' <= Kept + e
  BY <1>3, Numbers
<1> HIDE DEF e
<1> QED
  BY <1>1, <1>2, <1>5, <1>6, Loosens

\* At first there are no files.
LEMMA InitBudget == Init => Budget
<1> SUFFICES ASSUME Init, NEW T \in SUBSET Evicting PROVE Within(T, Allowance(misjudged, Admitted, T))
  BY DEF Budget
<1>1. T \in SUBSET Requests /\ Admitted \in SUBSET Requests /\ Admitted \cap T = {} /\ misjudged \in Nat
  BY EvictingNotAdmitted DEF Init
<1> DEFINE d == Allowance(misjudged, Admitted, T)
<1>2. d \in Int /\ d >= 0
  BY <1>1, Allowances
<1>3. Kept = 0
  <2>1. Shut \ Lost \in SUBSET Keys
    BY DEF Shut
  <2>2. \A k \in Shut \ Lost : file[k].bytes = 0
    BY <2>1 DEF Init, NoFile
  <2> QED
    BY <2>1, <2>2, NothingKept DEF Kept
<1> HIDE DEF d
<1>4. Kept < Ceiling + d
  BY <1>2, <1>3, Numbers
<1> QED
  BY <1>4 DEF Within, d

\* Every step keeps the budget.
LEMMA BudgetStep ==
    ASSUME IInv, Sizes, Sizes', Budget, [Next]_vars
    PROVE  Budget'
<1>1. ASSUME NEW r \in Requests, NEW k \in Keys, EvictOne(r, k) \/ EvictFails(r, k) PROVE Budget'
  BY <1>1, SkipBudget, DeleteBudget
<1> QED
  BY <1>1, StutterBudget, TouchBudget, LookupBudget, MeasureBudget, SnapshotBudget, EvictEndsBudget, ForgetBudget,
     ReplaceBudget, CreateBudget, CopyBudget, CopyEndsBudget, RestartBudget
  DEF Next, Proceed, Evict, Download

\* Open files: each belongs to another request, which is admitted.
LEMMA OpenBytes ==
    ASSUME IInv, Sizes
    PROVE  Amount(file, Keys \ Shut) <= MaxSize * Cardinality(Admitted)
<1> DEFINE S == BytesIn(file, Keys \ Shut)
           T == Admitted \X (1..MaxSize)
           g == [b \in S |-> <<file[b[1]].by, b[2]>>]
<1>1. \A k \in Keys \ Shut : file[k].by \in Admitted /\ KeyOf(file[k].by) = k
  <2> SUFFICES ASSUME NEW k \in Keys \ Shut PROVE file[k].by \in Admitted /\ KeyOf(file[k].by) = k
    OBVIOUS
  <2>1. file[k].by \in Requests /\ At(file[k].by, "copy") /\ KeyOf(file[k].by) = k
    BY FileTypes DEF IInv, OpenRight, Shut
  <2> QED
    BY <2>1 DEF Admitted, Owns
<1>2. \A b \in S : b = <<b[1], b[2]>> /\ b[1] \in Keys \ Shut /\ b[2] \in 1..MaxSize
  BY DEF BytesIn
<1>3. g \in [S -> T]
  BY <1>1, <1>2
<1>4. ASSUME NEW a \in S, NEW b \in S, g[a] = g[b] PROVE a = b
  <2>1. file[a[1]].by = file[b[1]].by /\ a[2] = b[2]
    BY <1>4
  <2>2. a[1] = b[1]
    BY <1>1, <1>2, <2>1
  <2> QED
    BY <1>2, <2>1, <2>2
<1>5. g \in Injection(S, T)
  BY <1>3, <1>4 DEF Injection, IsInjective
<1>6. IsFiniteSet(Admitted) /\ IsFiniteSet(1..MaxSize) /\ Cardinality(1..MaxSize) = MaxSize
      /\ Cardinality(Admitted) \in Nat
  <2>1. IsFiniteSet(Admitted) /\ Cardinality(Admitted) \in Nat
    BY EvictingNotAdmitted, Crowds
  <2>2. 1 \in Int /\ MaxSize \in Int /\ (IF 1 > MaxSize THEN 0 ELSE MaxSize - 1 + 1) = MaxSize
    BY ScratchAssumption
  <2>3. IsFiniteSet(1..MaxSize) /\ Cardinality(1..MaxSize) = MaxSize
    BY ONLY <2>2, FS_Interval
  <2> QED
    BY <2>1, <2>3
<1>7. IsFiniteSet(T) /\ Cardinality(T) = Cardinality(Admitted) * Cardinality(1..MaxSize)
  BY ONLY <1>6, FS_Product
<1> HIDE DEF S, T, g
<1>8. Cardinality(S) <= Cardinality(T)
  BY ONLY <1>5, <1>7, FS_Injection
<1>9. Cardinality(T) = MaxSize * Cardinality(Admitted)
  BY <1>6, <1>7, ScratchAssumption
<1> QED
  BY <1>8, <1>9 DEF Amount, S

\* The budget bounds what is closed, the admitted requests what is open.
LEMMA BudgetBounds ==
    ASSUME IInv, Sizes, Budget
    PROVE  CacheBounded
<1> DEFINE N == Cardinality(Requests) + misjudged
           a == Cardinality(Admitted)
           open == Amount(file, Keys \ Shut)
           all == Amount(file, Keys \ Lost)
<1>1. N \in Nat /\ a \in Nat /\ MaxSize \in Nat
  <2>1. Cardinality(Requests) \in Nat /\ a \in Nat
    BY EvictingNotAdmitted, Crowds
  <2>2. misjudged \in Nat
    BY DEF Sizes, TypeOK
  <2> QED
    BY <2>1, <2>2, ScratchAssumption
<1>2. Kept < Ceiling + MaxSize * (N - a)
  <2>1. Within({}, Allowance(misjudged, Admitted, {}))
    BY DEF Budget
  <2>2. Kept < Ceiling + Allowance(misjudged, Admitted, {})
    BY <2>1 DEF Within
  <2>3. Allowance(misjudged, Admitted, {}) = MaxSize * (N - a - Cardinality({}))
    BY DEF Allowance
  <2> HIDE DEF N, a
  <2>4. N - a - Cardinality({}) = N - a
    BY <1>1, FS_EmptySet
  <2> QED
    BY <2>2, <2>3, <2>4
<1>3. open <= MaxSize * a
  BY OpenBytes
<1>4. all <= Kept + open
  <2> DEFINE S == Shut \ Lost
             R == Keys \ Shut
             A == Keys \ Lost
             U == S \cup R
  <2>1. S \in SUBSET Keys /\ R \in SUBSET Keys /\ A \in SUBSET Keys /\ U \in SUBSET Keys /\ A \subseteq U
    BY DEF Shut
  <2>2. Amount(file, U) <= Amount(file, S) + Amount(file, R)
    BY <2>1, AmountUnion
  <2>3. (\A k \in A : file[k].bytes \in Nat) /\ \A k \in A : k \in U /\ file[k].bytes <= file[k].bytes
    BY <2>1, FileSizes
  <2> HIDE DEF S, R, A, U
  <2>4. Amount(file, A) <= Amount(file, U)
    BY <2>1, <2>3, AmountMonotone
  <2>5. Amount(file, A) \in Nat /\ Amount(file, U) \in Nat /\ Amount(file, S) \in Nat /\ Amount(file, R) \in Nat
    BY <2>1, AmountType
  <2>6. Amount(file, A) <= Amount(file, S) + Amount(file, R)
    BY <2>2, <2>4, <2>5 DEF U
  <2> QED
    BY <2>6 DEF Kept, S, R, A
<1>5. all \in Nat /\ open \in Nat
  BY AmountType
<1>6. MaxSize * (N - a) + MaxSize * a = N * MaxSize /\ MaxSize * (N - a) \in Int /\ MaxSize * a \in Int
      /\ N * MaxSize \in Int
  BY <1>1
<1>7. Cardinality(BytesOf(Keys \ Lost)) = all
  BY DEF BytesOf, Amount, BytesIn
<1> HIDE DEF N, a, open, all
<1>8. all < Ceiling + N * MaxSize
  BY <1>2, <1>3, <1>4, <1>5, <1>6, Numbers
<1> QED
  BY <1>7, <1>8 DEF CacheBounded, Sizes, N

\* What each request may add, and what each eviction has measured, stay within
\* the budget, for all requests together.
THEOREM BudgetInductive == Spec => [](IInv /\ Sizes /\ Budget)
<1>1. Init => IInv /\ Sizes /\ Budget
  BY InitEstablishes, SizesInit, InitBudget
<1>2. ASSUME IInv, Sizes, Budget, [Next]_vars PROVE (IInv /\ Sizes /\ Budget)'
  <2>1. IInv'
    BY <1>2, NextPreserves
  <2>2. Sizes'
    BY <1>2, SizesStep
  <2>3. Budget'
    BY <1>2, <2>2, BudgetStep
  <2> QED
    BY <2>1, <2>2, <2>3
<1> QED
  BY <1>1, <1>2, PTL DEF Spec

\* The directory never outgrows its limit by more than one file for each
\* request thread and one for each request that measured too little, whatever
\* evictions and downloads do to each other's measurements; files whose access
\* time was once lost, or that could not be deleted, are not counted.
THEOREM BoundCorrect == Spec => []CacheBounded
<1>1. IInv /\ Sizes /\ Budget => CacheBounded
  BY BudgetBounds
<1> QED
  BY <1>1, BudgetInductive, PTL
=============================================================================
