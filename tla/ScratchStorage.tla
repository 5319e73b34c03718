---------------------------- MODULE ScratchStorage ----------------------------
(***************************************************************************)
(* ScratchStorageService: a directory of downloaded files, bounded by      *)
(* evicting the least recently used ones.  resolveAndFetch runs on any     *)
(* number of request threads with no lock around it: each access to the    *)
(* directory or to accessTimes is one action, but the walk over the        *)
(* directory is one, and so are the three calls that check, measure and    *)
(* delete a file.  The access times live in memory only, so a restart      *)
(* forgets them and keeps the files.                                       *)
(*                                                                         *)
(* Local paths, which are returned as they are, do not get here.           *)
(***************************************************************************)
EXTENDS Integers, FiniteSets, Functions

CONSTANTS
    Requests,           \* request threads
    Uris,               \* what is asked for
    generateCacheKey,   \* the file name of a URI; two may share one
    SizeOf, MaxSize,    \* the size of what a URI names, and the largest
    limitBytes,
    MaxRequests, MaxRestarts, MaxMisread    \* bounds

Keys == {generateCacheKey[u] : u \in Uris}

ASSUME ScratchAssumption ==
    /\ generateCacheKey \in [Uris -> Keys] /\ IsFiniteSet(Keys) /\ IsFiniteSet(Requests)
    /\ MaxSize \in Nat /\ SizeOf \in [Uris -> 1..MaxSize]
    /\ limitBytes \in Nat /\ MaxRequests \in Nat /\ MaxRestarts \in Nat /\ MaxMisread \in Nat
    /\ "nobody" \notin Requests

VARIABLES
    file,           \* key -> the file of that name
    accessTimes,    \* key -> time, of the keys it has
    clock,          \* System.currentTimeMillis()
    call,           \* request -> its step and its local variables
    untracked,      \* history: keys whose access time was dropped by a restart,
                    \* or by an eviction that overlapped a request for them
    strays,         \* history: keys of untracked files that were then asked for, and
                    \* of files that could not be deleted
    aborted,        \* history: keys a failed or killed download has left
    misjudged,      \* history: requests that measured less than there was
    asked, restarts \* bounds

counts == <<misjudged, asked, restarts>>
vars == <<file, accessTimes, clock, call, untracked, strays, aborted, counts>>

NoFile == [by |-> "nobody", of |-> "nothing", bytes |-> 0]
Exists(k) == file[k] # NoFile

NoTimes == [k \in {} |-> 0]
Idle == [pc |-> "idle"]
Busy(r) == call[r] # Idle
KeyOf(r) == generateCacheKey[call[r].uri]

BytesOf(keys) == {b \in keys \X (1..MaxSize) : b[2] <= file[b[1]].bytes}

\* The size of a file that cannot be read counts as 0, and so does the whole
\* of a directory that cannot be.
getCacheSizeInBytes(unread) == Cardinality(BytesOf(Keys \ unread))
Misread(unread) == getCacheSizeInBytes(unread) < getCacheSizeInBytes({})

Init ==
    /\ file = [k \in Keys |-> NoFile]
    /\ accessTimes = NoTimes /\ clock = 0
    /\ call = [r \in Requests |-> Idle]
    /\ untracked = {} /\ strays = {} /\ aborted = {}
    /\ misjudged = 0 /\ asked = 0 /\ restarts = 0

At(r, pc) == call[r].pc = pc
Goto(r, pc) == call' = [call EXCEPT ![r].pc = pc]
Return(r) == call' = [call EXCEPT ![r] = Idle]

\* Mutant: only a hit counts as an access.
PutIfCached(key, time) ==
    [k \in DOMAIN accessTimes \cup {j \in {key} : Exists(j)} |->
        IF k = key THEN time ELSE accessTimes[k]]

Put(key, time) ==
    [k \in DOMAIN accessTimes \cup {key} |-> IF k = key THEN time ELSE accessTimes[k]]

\* resolveAndFetch begins: the access time is put before anything else.
Touch(r, u) ==
    /\ ~Busy(r) /\ asked < MaxRequests
    /\ call' = [call EXCEPT ![r] = [pc |-> "lookup", uri |-> u, currentSize |-> 0,
                                    blind |-> FALSE, sortedAccess |-> NoTimes,
                                    toDelete |-> {}, written |-> 0]]
    /\ clock' \in {clock, clock + 1}
    /\ accessTimes' = Put(generateCacheKey[u], clock')
    /\ untracked' = untracked \ {generateCacheKey[u]}
    /\ strays' = strays \cup {k \in {generateCacheKey[u]} : k \in untracked /\ Exists(k)}
    /\ asked' = asked + 1
    /\ UNCHANGED <<file, aborted, misjudged, restarts>>

\* A hit is a file of that name, whatever is in it.
Lookup(r) ==
    /\ At(r, "lookup")
    /\ IF Exists(KeyOf(r)) THEN Return(r) ELSE Goto(r, "measure")
    /\ UNCHANGED <<file, accessTimes, clock, untracked, strays, aborted, counts>>

\* Mutant: a cache of exactly the limit is not evicted from.
Above(size) == size > limitBytes

LimitReached(size) == size >= limitBytes

\* evictIfNecessary measures the directory ...
Measure(r, unread) ==
    LET n == getCacheSizeInBytes(unread) IN
    /\ At(r, "measure")
    /\ Misread(unread) => misjudged < MaxMisread
    /\ IF LimitReached(n)
         THEN call' = [call EXCEPT ![r] = [@ EXCEPT !.pc = "snapshot", !.currentSize = n,
                                                    !.blind = Misread(unread)]]
         ELSE Goto(r, "replace")
    /\ misjudged' = IF Misread(unread) THEN misjudged + 1 ELSE misjudged
    /\ UNCHANGED <<file, accessTimes, clock, untracked, strays, aborted, asked, restarts>>

\* ... unless a file goes while it walks: the walk throws an unchecked
\* exception, and so does the request.
MeasureThrows(r) ==
    /\ At(r, "measure")
    /\ Return(r)
    /\ UNCHANGED <<file, accessTimes, clock, untracked, strays, aborted, counts>>

\* The access times are copied, and sorted.
TakeSnapshot(r) ==
    /\ At(r, "snapshot")
    /\ call' = [call EXCEPT ![r] = [@ EXCEPT !.pc = "evict", !.sortedAccess = accessTimes]]
    /\ UNCHANGED <<file, accessTimes, clock, untracked, strays, aborted, counts>>

Without(times, k) == Restrict(times, DOMAIN times \ {k})

\* The next entry of the loop, in the order of the times.
NextToGo(r, k) ==
    LET times == call[r].sortedAccess
    IN  k \in DOMAIN times /\ \A j \in DOMAIN times : times[k] <= times[j]

\* One round of the loop: the file is deleted.  One that has gone meanwhile
\* is skipped.
EvictOne(r, k) ==
    LET rest == Without(call[r].sortedAccess, k)
    IN  /\ At(r, "evict") /\ NextToGo(r, k)
        /\ IF Exists(k)
             THEN /\ file' = [file EXCEPT ![k] = NoFile]
                  /\ aborted' = aborted \ {k} /\ strays' = strays \ {k}
                  /\ call' = [call EXCEPT ![r] =
                       [@ EXCEPT !.pc = "forget", !.toDelete = {k}, !.sortedAccess = rest,
                                 !.currentSize = call[r].currentSize - file[k].bytes]]
             ELSE /\ call' = [call EXCEPT ![r].sortedAccess = rest]
                  /\ UNCHANGED <<file, strays, aborted>>
        /\ UNCHANGED <<accessTimes, clock, untracked, counts>>

\* The file cannot be deleted: the exception is logged and the loop goes on.
EvictFails(r, k) ==
    /\ At(r, "evict") /\ NextToGo(r, k) /\ Exists(k)
    /\ call' = [call EXCEPT ![r].sortedAccess = Without(call[r].sortedAccess, k)]
    /\ strays' = strays \cup {k}
    /\ UNCHANGED <<file, accessTimes, clock, untracked, aborted, counts>>

\* The access time of a deleted file follows, even if the name has been asked
\* for, or fetched, again in between.
Forget(r, k) ==
    /\ At(r, "forget") /\ k \in call[r].toDelete
    /\ accessTimes' = Restrict(accessTimes, DOMAIN accessTimes \ {k})
    /\ untracked' = untracked \cup
         {j \in {k} : Exists(j) \/ \E q \in Requests : Busy(q) /\ KeyOf(q) = j}
    /\ call' = [call EXCEPT ![r] =
         IF LimitReached(call[r].currentSize)
           THEN [@ EXCEPT !.pc = "evict", !.toDelete = {}]
           ELSE [@ EXCEPT !.pc = "replace", !.toDelete = {}, !.currentSize = 0,
                          !.sortedAccess = NoTimes]]
    /\ UNCHANGED <<file, clock, strays, aborted, counts>>

EvictEnds(r) ==
    /\ At(r, "evict") /\ call[r].sortedAccess = NoTimes
    /\ call' = [call EXCEPT ![r] = [@ EXCEPT !.pc = "replace", !.currentSize = 0]]
    /\ UNCHANGED <<file, accessTimes, clock, untracked, strays, aborted, counts>>

\* There is no connection to the server.
OpenFails(r) ==
    /\ At(r, "replace")
    /\ Return(r)
    /\ UNCHANGED <<file, accessTimes, clock, untracked, strays, aborted, counts>>

\* It answers; then Files.copy(REPLACE_EXISTING) deletes a file of that name
\* and creates a new one, which fails when another thread has done so in
\* between.
Replace(r) ==
    /\ At(r, "replace")
    /\ file' = [file EXCEPT ![KeyOf(r)] = NoFile]
    /\ aborted' = aborted \ {KeyOf(r)} /\ strays' = strays \ {KeyOf(r)}
    /\ Goto(r, "create")
    /\ UNCHANGED <<accessTimes, clock, untracked, counts>>

Create(r) ==
    /\ At(r, "create")
    /\ IF Exists(KeyOf(r))
         THEN Return(r) /\ UNCHANGED file
         ELSE /\ file' = [file EXCEPT ![KeyOf(r)] = [by |-> r, of |-> call[r].uri, bytes |-> 0]]
              /\ Goto(r, "copy")
    /\ UNCHANGED <<accessTimes, clock, untracked, strays, aborted, counts>>

\* Mutant: the copy stops before the last buffer.
AtLastBuffer(r) == call[r].written >= SizeOf[call[r].uri] - 1

AtEnd(r) == call[r].written = SizeOf[call[r].uri]

\* The thread writes to the file it created, or to one that has no name any
\* more when that was deleted.
Owns(r) == file[KeyOf(r)].by = r

Copy(r) ==
    /\ At(r, "copy") /\ ~AtEnd(r)
    /\ call' = [call EXCEPT ![r].written = @ + 1]
    /\ file' = IF Owns(r) THEN [file EXCEPT ![KeyOf(r)].bytes = @ + 1] ELSE file
    /\ UNCHANGED <<accessTimes, clock, untracked, strays, aborted, counts>>

\* The file a thread has open, and the files once some are closed.
OpenBy(r) == {k \in Keys : At(r, "copy") /\ k = KeyOf(r) /\ Owns(r)}
Closed(keys) == [k \in Keys |-> IF k \in keys THEN [file[k] EXCEPT !.by = "nobody"] ELSE file[k]]

CopyEnds(r) ==
    /\ At(r, "copy") /\ AtEnd(r)
    /\ file' = Closed(OpenBy(r))
    /\ Return(r)
    /\ UNCHANGED <<accessTimes, clock, untracked, strays, aborted, counts>>

\* The connection breaks: the exception leaves what has been written.
CopyFails(r) ==
    /\ At(r, "copy") /\ ~AtEnd(r)
    /\ file' = Closed(OpenBy(r))
    /\ aborted' = aborted \cup OpenBy(r)
    /\ Return(r)
    /\ UNCHANGED <<accessTimes, clock, untracked, strays, counts>>

\* The process stops and starts again.
Restart ==
    /\ restarts < MaxRestarts
    /\ restarts' = restarts + 1
    /\ accessTimes' = NoTimes
    /\ call' = [r \in Requests |-> Idle]
    /\ untracked' = {k \in Keys : Exists(k)}
    /\ file' = Closed(Keys)
    /\ aborted' = aborted \cup UNION {OpenBy(r) : r \in Requests}
    /\ UNCHANGED <<clock, strays, misjudged, asked>>

Evict(r) == EvictEnds(r) \/ \E k \in Keys : EvictOne(r, k) \/ EvictFails(r, k) \/ Forget(r, k)
Proceed(r) ==
    \/ Lookup(r) \/ MeasureThrows(r) \/ \E unread \in SUBSET Keys : Measure(r, unread)
    \/ TakeSnapshot(r) \/ Evict(r) \/ Create(r)
Download(r) == OpenFails(r) \/ Replace(r) \/ Copy(r) \/ CopyEnds(r) \/ CopyFails(r)

Next ==
    \/ \E r \in Requests, u \in Uris : Touch(r, u)
    \/ \E r \in Requests : Proceed(r) \/ Download(r)
    \/ Restart

\* No fairness: openStream sets no timeout, so that a request may wait for its
\* server for ever.
Spec == Init /\ [][Next]_vars

-----------------------------------------------------------------------------
File == [by : Requests \cup {"nobody"}, of : Uris, bytes : 0..MaxSize] \cup {NoFile}

Times == UNION {[D -> 0..MaxRequests] : D \in SUBSET Keys}

Call ==
    [pc : {"lookup", "measure", "snapshot", "evict", "forget", "replace", "create", "copy"},
     uri : Uris, currentSize : Int, blind : BOOLEAN, sortedAccess : Times,
     toDelete : SUBSET Keys, written : Nat]

TypeOK ==
    /\ file \in [Keys -> File]
    /\ accessTimes \in Times /\ clock \in 0..MaxRequests
    /\ call \in [Requests -> Call \cup {Idle}]
    /\ untracked \subseteq Keys /\ strays \subseteq Keys /\ aborted \subseteq Keys
    /\ misjudged \in Nat /\ asked \in 0..MaxRequests /\ restarts \in 0..MaxRestarts

\* Eviction can find every file: it has an access time, unless a restart has
\* forgotten it or an eviction of the name overlapped a request for it.
FilesTracked == \A k \in Keys : Exists(k) => k \in DOMAIN accessTimes \cup untracked

\* A hit serves the whole of what was asked for under that name, unless the
\* file is being downloaded at that moment or a failed download left it.
HitsAreComplete ==
    \A k \in Keys : Exists(k) =>
        \/ generateCacheKey[file[k].of] = k /\ file[k].bytes = SizeOf[file[k].of]
        \/ \E r \in Requests : k \in OpenBy(r)
        \/ k \in aborted

\* The directory outgrows its limit by no more than one file for each request
\* that runs at the same time, and one for each that measured too little,
\* however evictions and downloads interleave.  Files that were once untracked
\* or could not be deleted are not counted, until they are deleted.  (And all
\* variables keep their types.)
Lost == untracked \cup strays
Ceiling == IF limitBytes = 0 THEN 1 ELSE limitBytes
CacheBounded ==
    /\ TypeOK
    /\ Cardinality(BytesOf(Keys \ Lost))
          < Ceiling + (Cardinality(Requests) + misjudged) * MaxSize
=============================================================================
