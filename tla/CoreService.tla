----------------------------- MODULE CoreService -----------------------------
(***************************************************************************)
(* AarchGateServiceImpl, the C++ gRPC service: handlers of ExecuteQuery    *)
(* and StreamIngest run on the server's threads and share the cache of     *)
(* mapped .agb files, guarded by cache_mutex_; a file is pinned in RAM by  *)
(* a detached thread that reports into the cache when mlock returns.       *)
(* Before it serves, main() prewarms the .agb files it finds.              *)
(*                                                                         *)
(* Paths are canonical.  A path names an inode, which has a length; other  *)
(* programs rewrite a file in place (the exporter) or put a new one in its *)
(* place (the scratch store), and the service is not told.                 *)
(***************************************************************************)
EXTENDS Naturals, FiniteSets, Sequences

CONSTANTS
    Handlers,              \* threads of the gRPC server
    AgbPaths, TextPaths,   \* by extension
    Lines,                 \* log lines clients stream
    MaxBlocks, MaxInodes, MaxRewrites, MaxRequests,
    NoOne                  \* nobody holds the mutex

Paths == AgbPaths \cup TextPaths
Threads == Handlers \cup {"main"}

\* There are inodes for the files of the start, and somebody is never NoOne.
ASSUME CoreAssumption ==
    /\ MaxBlocks \in Nat \ {0} /\ MaxInodes \in Nat /\ MaxRewrites \in Nat /\ MaxRequests \in Nat
    /\ AgbPaths \cap TextPaths = {} /\ Paths # {}
    /\ IsFiniteSet(AgbPaths) /\ Cardinality(AgbPaths) <= MaxInodes
    /\ "main" \notin Handlers /\ NoOne \notin Threads

VARIABLES
    inode, blocks,        \* .agb path -> inode (0: no such file), inode -> length
    nextInode, rewrites,  \* bounds
    mapped_files_cache_, cache_mutex_,
    pins,                 \* per path: pin threads in mlock, done, failed
    maps,                 \* history: mappings made of each path
    lost, stuck,          \* history: mappings and pins given up by a throwing std::thread
    pc, req, mapped,      \* per thread: step, request, what it will scan
    reply,                \* per handler: status of the last response
    startup,              \* files main() has yet to prewarm
    requests,             \* bound
    wal,                  \* staging_commit.wal, shared by all streams
    batch,                \* per handler: the batch it is ingesting
    stored,               \* per handler: lines of this stream transcoded
    seen                  \* history: versions of the file during the request

diskVars == <<inode, blocks, nextInode, rewrites>>
pinHistory == <<lost, stuck>>
cacheVars == <<mapped_files_cache_, cache_mutex_, pins, maps, pinHistory>>
ingestVars == <<wal, batch, stored>>
vars == <<diskVars, cacheVars, pc, req, mapped, reply, startup, requests, ingestVars,
          seen>>

NoEntry == [addr |-> 0, size |-> 0, pinned |-> FALSE, pin_in_progress |-> FALSE]
NoRequest == [kind |-> "none", path |-> CHOOSE p \in Paths : TRUE, pin |-> FALSE]
NoPins == [locking |-> 0, locked |-> 0, failed |-> 0]

\* find(): addr is the inode a mapping shows, never 0.
Cached(p) == mapped_files_cache_[p].addr # 0

\* What a program that opens p now finds (text files are not cached, so that
\* their versions do not matter).
Version(p) ==
    IF p \in TextPaths \/ inode[p] = 0 THEN <<0, 0>> ELSE <<inode[p], blocks[inode[p]]>>

\* Files there are at the start have inodes of their own.
FirstInode ==
    CHOOSE f \in [AgbPaths -> 1..Cardinality(AgbPaths)] :
        \A p, q \in AgbPaths : f[p] = f[q] => p = q

Mappable(p) == inode[p] # 0 /\ blocks[inode[p]] > 0

Init ==
    /\ \E present \in SUBSET AgbPaths :
          inode = [p \in AgbPaths |-> IF p \in present THEN FirstInode[p] ELSE 0]
    /\ blocks = [i \in 1..MaxInodes |-> 1]
    /\ nextInode = Cardinality(AgbPaths) + 1 /\ rewrites = 0
    /\ mapped_files_cache_ = [p \in AgbPaths |-> NoEntry]
    /\ cache_mutex_ = NoOne
    /\ pins = [p \in AgbPaths |-> NoPins]
    /\ maps = [p \in AgbPaths |-> 0]
    /\ lost = [p \in AgbPaths |-> 0] /\ stuck = {}
    /\ pc = [t \in Threads |-> "idle"]
    /\ req = [t \in Threads |-> NoRequest]
    /\ mapped = [t \in Threads |-> NoEntry]
    /\ reply = [h \in Handlers |-> "none"]
    /\ startup = {p \in AgbPaths : inode[p] # 0}
    /\ requests = 0
    /\ wal = {} /\ batch = [h \in Handlers |-> {}] /\ stored = [h \in Handlers |-> {}]
    /\ seen = [h \in Handlers |-> {}]

-----------------------------------------------------------------------------
(* Other programs and the files.                                           *)

\* Whoever is reading p sees its new version from now on.
Witness(p, version) ==
    seen' = [h \in Handlers |-> IF pc[h] # "idle" /\ req[h].path = p
                                  THEN seen[h] \cup {version} ELSE seen[h]]

\* convert_json_to_agb opens its output with trunc: the inode stays.
RewriteInPlace(p, n) ==
    /\ rewrites < MaxRewrites /\ inode[p] # 0
    /\ blocks' = [blocks EXCEPT ![inode[p]] = n]
    /\ rewrites' = rewrites + 1
    /\ Witness(p, <<inode[p], n>>)
    /\ UNCHANGED <<inode, nextInode, cacheVars, pc, req, mapped, reply, startup, requests,
                   ingestVars>>

\* A file evicted from the scratch store and fetched again is a new inode.
ReplaceFile(p, n) ==
    /\ rewrites < MaxRewrites /\ nextInode <= MaxInodes
    /\ inode' = [inode EXCEPT ![p] = nextInode]
    /\ blocks' = [blocks EXCEPT ![nextInode] = n]
    /\ nextInode' = nextInode + 1 /\ rewrites' = rewrites + 1
    /\ Witness(p, <<nextInode, n>>)
    /\ UNCHANGED <<cacheVars, pc, req, mapped, reply, startup, requests, ingestVars>>

-----------------------------------------------------------------------------
(* PrewarmCache, called by main and by both handlers; it holds the mutex    *)
(* from the lookup to the insertion.                                        *)

Goto(t, step) == pc' = [pc EXCEPT ![t] = step]

\* Where a thread goes after PrewarmCache.
AfterPrewarm(t) ==
    CASE req[t].kind = "startup" -> "idle"
      [] req[t].kind = "ingest"  -> "respond"
      [] OTHER                   -> "lookup"

\* Mutant: the cache is used without its lock.
LockIgnored == TRUE

\* A lock_guard of cache_mutex_ goes through.
LockFree == cache_mutex_ = NoOne

PrewarmLock(t) ==
    /\ pc[t] = "prewarm" /\ LockFree
    /\ cache_mutex_' = t
    /\ Goto(t, "find")
    /\ UNCHANGED <<diskVars, mapped_files_cache_, pins, maps, pinHistory, req, mapped, reply,
                   startup, requests, ingestVars, seen>>

\* Mutant: a pin under way is not noticed.
MustPinTwice(t) == req[t].pin /\ ~mapped_files_cache_[req[t].path].pinned

MustPin(t) ==
    LET entry == mapped_files_cache_[req[t].path]
    IN  req[t].pin /\ ~entry.pinned /\ ~entry.pin_in_progress

StartPin(p) == pins' = [pins EXCEPT ![p].locking = @ + 1]

\* The path is cached: at most a pin thread is started.
PrewarmHit(t) ==
    LET p == req[t].path IN
    /\ pc[t] = "find" /\ Cached(p)
    /\ IF MustPin(t)
         THEN /\ mapped_files_cache_' = [mapped_files_cache_ EXCEPT ![p].pin_in_progress = TRUE]
              /\ StartPin(p)
         ELSE UNCHANGED <<mapped_files_cache_, pins>>
    /\ cache_mutex_' = NoOne
    /\ Goto(t, AfterPrewarm(t))
    /\ UNCHANGED <<diskVars, maps, pinHistory, req, mapped, reply, startup, requests, ingestVars,
                   seen>>

\* Mutant: the early return forgets the lock.
PrewarmFailsLocked(t) ==
    /\ pc[t] = "find" /\ ~Cached(req[t].path)
    /\ Goto(t, AfterPrewarm(t))
    /\ UNCHANGED <<diskVars, cacheVars, req, mapped, reply, startup, requests, ingestVars,
                   seen>>

\* open, fstat or mmap fails, as they may even for a good file: nothing is
\* cached.
PrewarmFails(t) ==
    LET p == req[t].path IN
    /\ pc[t] = "find" /\ ~Cached(p)
    /\ cache_mutex_' = NoOne
    /\ Goto(t, AfterPrewarm(t))
    /\ UNCHANGED <<diskVars, mapped_files_cache_, pins, maps, pinHistory, req, mapped, reply,
                   startup, requests, ingestVars, seen>>

\* st_size.
FileBytes(p) == blocks[inode[p]]

\* The file is mapped and its pin thread started before there is an entry.
PrewarmMap(t) ==
    LET p == req[t].path IN
    /\ pc[t] = "find" /\ ~Cached(p) /\ Mappable(p)
    /\ mapped' = [mapped EXCEPT ![t] =
                    [addr |-> inode[p], size |-> FileBytes(p), pinned |-> FALSE,
                     pin_in_progress |-> req[t].pin]]
    /\ maps' = [maps EXCEPT ![p] = @ + 1]
    /\ IF req[t].pin THEN StartPin(p) ELSE UNCHANGED pins
    /\ Goto(t, "insert")
    /\ UNCHANGED <<diskVars, mapped_files_cache_, cache_mutex_, pinHistory, req, reply, startup,
                   requests, ingestVars, seen>>

PrewarmInsert(t) ==
    /\ pc[t] = "insert"
    /\ mapped_files_cache_' = [mapped_files_cache_ EXCEPT ![req[t].path] = mapped[t]]
    /\ mapped' = [mapped EXCEPT ![t] = NoEntry]
    /\ cache_mutex_' = NoOne
    /\ Goto(t, AfterPrewarm(t))
    /\ UNCHANGED <<diskVars, pins, maps, pinHistory, req, reply, startup, requests, ingestVars,
                   seen>>

\* A handler returns, and its locals with it.
Reply(h, status) ==
    /\ reply' = [reply EXCEPT ![h] = status]
    /\ req' = [req EXCEPT ![h] = NoRequest]
    /\ mapped' = [mapped EXCEPT ![h] = NoEntry]
    /\ stored' = [stored EXCEPT ![h] = {}]
    /\ seen' = [seen EXCEPT ![h] = {}]
    /\ Goto(h, "idle")

\* The constructor of std::thread throws, which no code in PrewarmCache
\* catches: the lock is released on the way out.  ExecuteQuery answers
\* INTERNAL, main gives up the rest of its scan; nothing in StreamIngest
\* catches, and the gRPC library answers UNKNOWN.
ThreadThrows(t) ==
    /\ cache_mutex_' = NoOne
    /\ IF t = "main"
         THEN /\ startup' = {}
              /\ Goto(t, "idle")
              /\ UNCHANGED <<req, mapped, reply, stored, seen>>
         ELSE /\ Reply(t, IF req[t].kind = "query" THEN "internal" ELSE "unknown")
              /\ UNCHANGED startup
    /\ UNCHANGED <<diskVars, pins, requests, wal, batch>>

\* On a hit pin_in_progress is already set, and stays so.
HitThreadThrows(t) ==
    LET p == req[t].path IN
    /\ pc[t] = "find" /\ Cached(p) /\ MustPin(t)
    /\ mapped_files_cache_' = [mapped_files_cache_ EXCEPT ![p].pin_in_progress = TRUE]
    /\ stuck' = stuck \cup {p}
    /\ ThreadThrows(t)
    /\ UNCHANGED <<maps, lost>>

\* On a miss the file is mapped, but no entry will hold the mapping.
MapThreadThrows(t) ==
    LET p == req[t].path IN
    /\ pc[t] = "find" /\ ~Cached(p) /\ Mappable(p) /\ req[t].pin
    /\ maps' = [maps EXCEPT ![p] = @ + 1]
    /\ lost' = [lost EXCEPT ![p] = @ + 1]
    /\ ThreadThrows(t)
    /\ UNCHANGED <<mapped_files_cache_, stuck>>

Prewarm(t) ==
    \/ PrewarmLock(t) \/ PrewarmHit(t) \/ PrewarmFails(t) \/ PrewarmMap(t) \/ PrewarmInsert(t)
    \/ HitThreadThrows(t) \/ MapThreadThrows(t)

-----------------------------------------------------------------------------
(* The detached pin threads of a path.                                      *)

\* mlock returns.
MlockReturns(p, outcome) ==
    /\ pins[p].locking > 0
    /\ pins' = [pins EXCEPT ![p].locking = @ - 1, ![p][outcome] = @ + 1]
    /\ UNCHANGED <<diskVars, mapped_files_cache_, cache_mutex_, maps, pinHistory, pc, req, mapped,
                   reply, startup, requests, ingestVars, seen>>

\* Mutant: only a successful pin is reported.
SettledIfLocked(entry, outcome) ==
    IF outcome = "locked" THEN [entry EXCEPT !.pin_in_progress = FALSE, !.pinned = TRUE] ELSE entry

\* What the thread writes into the entry.
Settled(entry, outcome) ==
    [entry EXCEPT !.pin_in_progress = FALSE, !.pinned = @ \/ outcome = "locked"]

\* The thread takes the mutex, reports into the entry, if there is one, and
\* ends.
ReportPin(p, outcome) ==
    /\ pins[p][outcome] > 0 /\ LockFree
    /\ pins' = [pins EXCEPT ![p][outcome] = @ - 1]
    /\ mapped_files_cache_' = IF Cached(p)
                                 THEN [mapped_files_cache_ EXCEPT ![p] = Settled(@, outcome)]
                                 ELSE mapped_files_cache_
    /\ UNCHANGED <<diskVars, cache_mutex_, maps, pinHistory, pc, req, mapped, reply, startup,
                   requests, ingestVars, seen>>

-----------------------------------------------------------------------------
(* main: prewarm what is there, then serve.                                 *)

StartupPrewarm(p) ==
    /\ pc["main"] = "idle" /\ p \in startup
    /\ startup' = startup \ {p}
    /\ req' = [req EXCEPT !["main"] = [kind |-> "startup", path |-> p, pin |-> TRUE]]
    /\ Goto("main", "prewarm")
    /\ UNCHANGED <<diskVars, cacheVars, mapped, reply, requests, ingestVars, seen>>

BuildAndStart ==
    /\ pc["main"] = "idle" /\ startup = {}
    /\ Goto("main", "serving")
    /\ UNCHANGED <<diskVars, cacheVars, req, mapped, reply, startup, requests, ingestVars,
                   seen>>

-----------------------------------------------------------------------------
(* The handlers.                                                            *)

\* A request arrives: a query over a file, or a stream of lines for a
\* database.
Request(h, kind, p, pin) ==
    /\ pc["main"] = "serving" /\ pc[h] = "idle"
    /\ requests < MaxRequests /\ requests' = requests + 1
    /\ kind \in {"query", "ingest"}
    /\ kind = "ingest" => pin        \* StreamIngest always asks for a pin
    /\ req' = [req EXCEPT ![h] = [kind |-> kind, path |-> p, pin |-> pin]]
    /\ reply' = [reply EXCEPT ![h] = "none"]
    /\ seen' = [seen EXCEPT ![h] = {Version(p)}]
    /\ Goto(h, CASE kind = "ingest"    -> "read"
                 [] p \in AgbPaths     -> "prewarm"
                 [] OTHER              -> "scanText")
    /\ UNCHANGED <<diskVars, cacheVars, mapped, startup, ingestVars>>

\* ExecuteQuery looks the path up again, under the lock.
Lookup(h) ==
    /\ pc[h] = "lookup" /\ LockFree
    /\ IF Cached(req[h].path)
         THEN /\ mapped' = [mapped EXCEPT ![h] = mapped_files_cache_[req[h].path]]
              /\ Goto(h, "scan")
              /\ UNCHANGED <<reply, req, stored, seen>>
         ELSE Reply(h, "internal")
    /\ UNCHANGED <<diskVars, cacheVars, startup, requests, wal, batch>>

\* The bit-sliced scan of every block the entry says there is.
Scan(h) ==
    /\ pc[h] = "scan" /\ blocks[mapped[h].addr] >= mapped[h].size
    /\ Reply(h, "ok")
    /\ UNCHANGED <<diskVars, cacheVars, startup, requests, wal, batch>>

\* The file has shrunk under the mapping: reading past its end is a SIGBUS, and
\* the process dies.
ScanFaults(h) ==
    /\ pc[h] = "scan" /\ blocks[mapped[h].addr] < mapped[h].size
    /\ pc' = [t \in Threads |-> "dead"]
    /\ cache_mutex_' = NoOne
    /\ mapped_files_cache_' = [p \in AgbPaths |-> NoEntry]
    /\ pins' = [p \in AgbPaths |-> NoPins]
    /\ maps' = [p \in AgbPaths |-> 0]
    /\ lost' = [p \in AgbPaths |-> 0] /\ stuck' = {}
    /\ UNCHANGED <<diskVars, req, mapped, reply, startup, requests, ingestVars, seen>>

\* Any other file is mapped for this request alone.  A file that cannot be
\* opened or is empty counts 0 in a string search; a filter on a missing one
\* is an error (an empty one is opened, and counts 0).
ScanText(h, filter, missing) ==
    /\ pc[h] = "scanText"
    /\ Reply(h, IF missing /\ filter THEN "not_found" ELSE "ok")
    /\ UNCHANGED <<diskVars, cacheVars, startup, requests, wal, batch>>

\* StreamIngest reads a chunk.  append_raw_batch logs it ...
ReadChunk(h, lines) ==
    /\ pc[h] = "read"
    /\ lines # {} /\ lines \cap stored[h] = {}
    /\ batch' = [batch EXCEPT ![h] = lines]
    /\ wal' = wal \cup {<<h, line>> : line \in lines}
    /\ Goto(h, "staged")
    /\ UNCHANGED <<diskVars, cacheVars, req, mapped, reply, startup, requests, stored, seen>>

\* ... and transcode_batch_now builds a row group in memory and truncates the
\* log; the row group goes out of scope.
TranscodeChunk(h) ==
    /\ pc[h] = "staged"
    /\ stored' = [stored EXCEPT ![h] = @ \cup batch[h]]
    /\ batch' = [batch EXCEPT ![h] = {}]
    /\ wal' = {}
    /\ Goto(h, "read")
    /\ UNCHANGED <<diskVars, cacheVars, req, mapped, reply, startup, requests, seen>>

\* The stream ends: the index is prewarmed and the count reported.  The path
\* comes with the first chunk, if there is one, even an empty one.
EndOfStream(h, named) ==
    /\ pc[h] = "read"
    /\ stored[h] # {} => named
    /\ Goto(h, IF named /\ req[h].path \in AgbPaths THEN "prewarm" ELSE "respond")
    /\ UNCHANGED <<diskVars, cacheVars, req, mapped, reply, startup, requests, ingestVars,
                   seen>>

RespondIngest(h) ==
    /\ pc[h] = "respond"
    /\ Reply(h, "ok")
    /\ UNCHANGED <<diskVars, cacheVars, startup, requests, wal, batch>>

Handle(h) ==
    \/ Prewarm(h) \/ Lookup(h) \/ Scan(h) \/ ScanFaults(h)
    \/ TranscodeChunk(h) \/ RespondIngest(h)
    \/ \E filter, missing \in BOOLEAN : ScanText(h, filter, missing)

Main == Prewarm("main") \/ BuildAndStart \/ \E p \in AgbPaths : StartupPrewarm(p)
Pin(p) ==
    \E outcome \in {"locked", "failed"} : MlockReturns(p, outcome) \/ ReportPin(p, outcome)

Next ==
    \/ \E p \in AgbPaths : \E n \in 0..MaxBlocks : RewriteInPlace(p, n) \/ ReplaceFile(p, n)
    \/ Main
    \/ \E p \in AgbPaths : Pin(p)
    \/ \E h \in Handlers, kind \in {"query", "ingest"}, p \in Paths,
          pin \in BOOLEAN : Request(h, kind, p, pin)
    \/ \E h \in Handlers : Handle(h)
    \/ \E h \in Handlers, lines \in SUBSET Lines : ReadChunk(h, lines)
    \/ \E h \in Handlers, named \in BOOLEAN : EndOfStream(h, named)

\* Every thread runs, mlock returns, and a thread that keeps wanting the
\* mutex gets it; no client is obliged to send or to end anything.
Fairness ==
    /\ SF_vars(Main)
    /\ \A h \in Handlers : SF_vars(Handle(h))
    /\ \A p \in AgbPaths : SF_vars(Pin(p))

Spec == Init /\ [][Next]_vars /\ Fairness

-----------------------------------------------------------------------------
Entry == [addr : 0..MaxInodes, size : 0..MaxBlocks, pinned : BOOLEAN, pin_in_progress : BOOLEAN]

TypeOK ==
    /\ inode \in [AgbPaths -> 0..MaxInodes]
    /\ blocks \in [1..MaxInodes -> 0..MaxBlocks]
    /\ mapped_files_cache_ \in [AgbPaths -> Entry]
    /\ cache_mutex_ \in Threads \cup {NoOne}
    /\ pins \in [AgbPaths -> [locking : Nat, locked : Nat, failed : Nat]]
    /\ pc \in [Threads -> {"idle", "prewarm", "find", "insert", "serving", "lookup", "scan",
                           "scanText", "read", "staged", "respond", "dead"}]
    /\ mapped \in [Threads -> Entry]
    /\ reply \in [Handlers -> {"none", "ok", "internal", "not_found", "unknown"}]
    /\ startup \subseteq AgbPaths
    /\ lost \in [AgbPaths -> Nat] /\ stuck \subseteq AgbPaths
    /\ wal \subseteq Handlers \X Lines

\* No mapping is made twice or forgotten: what was ever mapped of a path is
\* in its entry, in the hands of the one thread about to insert it, or was
\* left behind when the pin thread of a new mapping could not be created.
\* (And all variables keep their types.)
NoMappingLeaks ==
    /\ TypeOK
    /\ \A p \in AgbPaths :
          maps[p] = (IF Cached(p) THEN 1 ELSE 0) + lost[p]
                    + Cardinality({t \in Threads : pc[t] = "insert" /\ req[t].path = p})

\* pin_in_progress is true exactly while one pin thread of the path is at
\* work, from before its entry exists until its report, and a path is never
\* pinned by two threads.  The exception is a cached path whose pin thread
\* could not be created: its flag is set for good, no thread works on it, and
\* it is never pinned.
PinThreads(p) == pins[p].locking + pins[p].locked + pins[p].failed
Announced(p) ==
    \/ Cached(p) /\ mapped_files_cache_[p].pin_in_progress
    \/ \E t \in Threads : pc[t] = "insert" /\ req[t].path = p /\ mapped[t].pin_in_progress
PinBookkeeping ==
    \A p \in AgbPaths :
        /\ PinThreads(p) = IF Announced(p) /\ p \notin stuck THEN 1 ELSE 0
        /\ p \in stuck => /\ Cached(p) /\ mapped_files_cache_[p].pin_in_progress
                          /\ ~mapped_files_cache_[p].pinned

\* A pin under way is settled one day, so that a failed one can be retried,
\* unless its thread was never created.
PinSettles ==
    \A p \in AgbPaths :
        (mapped_files_cache_[p].pin_in_progress /\ p \notin stuck)
            ~> ~mapped_files_cache_[p].pin_in_progress

\* Every query is answered (or the process dies of a shrunken file).
QueryAnswered ==
    \A h \in Handlers :
        (pc[h] # "idle" /\ req[h].kind # "ingest") ~> (pc[h] \in {"idle", "dead"})

\* A query that is answered from a mapping scanned a version that the file
\* had at some time during the request.
AnswersCurrentFile ==
    [][\A h \in Handlers :
          pc[h] = "scan" /\ pc'[h] = "idle" => <<mapped[h].addr, mapped[h].size>> \in seen[h]]_vars
=============================================================================
