-------------------------- MODULE CoreServiceProofs --------------------------
(***************************************************************************)
(* Proofs about the cache of mapped files, for every number of handlers,   *)
(* files and rewrites: no mapping is made twice, none is lost unless a pin *)
(* thread cannot be created, and a file is never pinned by two threads.    *)
(***************************************************************************)
EXTENDS CoreService, FiniteSetTheorems, FunctionTheorems, TLAPS

RequestType ==
    [kind : {"none", "startup", "query", "ingest"}, path : Paths, pin : BOOLEAN]

PinCounts == [locking : Nat, locked : Nat, failed : Nat]
Total(c) == c.locking + c.locked + c.failed

Types ==
    /\ TypeOK
    /\ pins \in [AgbPaths -> PinCounts]
    /\ req \in [Threads -> RequestType]
    /\ maps \in [AgbPaths -> Nat]
    /\ nextInode \in Nat \ {0}
    /\ batch \in [Handlers -> SUBSET Lines]

\* PrewarmCache holds the mutex from the lookup to the insertion, is called
\* for .agb files only, and inserts what mmap returned.
Guarded ==
    \A t \in Threads :
        /\ pc[t] \in {"find", "insert"} => cache_mutex_ = t
        /\ pc[t] \in {"prewarm", "find", "insert", "lookup"} => req[t].path \in AgbPaths
        /\ pc[t] = "insert" => mapped[t].addr # 0

Inserting(t, p) == pc[t] = "insert" /\ req[t].path = p

\* A path is mapped at most once; whoever is about to insert it is the only
\* one to know.
MappedOnce ==
    \A p \in AgbPaths :
        /\ \A t \in Threads : Inserting(t, p) => ~Cached(p)
        /\ maps[p] = lost[p] + IF Cached(p) \/ (\E t \in Threads : Inserting(t, p)) THEN 1 ELSE 0

IInv == Types /\ Guarded /\ MappedOnce /\ PinBookkeeping

-----------------------------------------------------------------------------
\* Files of the start have inodes within the bound.
LEMMA FirstInodeType == FirstInode \in [AgbPaths -> 1..Cardinality(AgbPaths)]
<1> DEFINE n == Cardinality(AgbPaths)
<1>1. n \in Nat /\ ExistsBijection(1..n, AgbPaths)
  BY CoreAssumption, FS_CardinalityType
<1>2. ExistsBijection(AgbPaths, 1..n)
  BY <1>1, Fun_ExistsBijSymmetric
<1>3. PICK f \in [AgbPaths -> 1..n] : \A p, q \in AgbPaths : f[p] = f[q] => p = q
  BY <1>2 DEF ExistsBijection, Bijection, Injection, IsInjective
<1> QED
  BY <1>3 DEF FirstInode

\* The state before the first request.
LEMMA InitEstablishes == Init => IInv
<1> SUFFICES ASSUME Init PROVE IInv
  OBVIOUS
<1> USE CoreAssumption
<1>0. NoRequest \in RequestType
  BY DEF NoRequest, RequestType, Paths
<1>1. inode \in [AgbPaths -> 0..MaxInodes]
  <2>1. Cardinality(AgbPaths) \in Nat
    BY FS_CardinalityType
  <2> QED
    BY <2>1, FirstInodeType DEF Init
<1>2. nextInode \in Nat \ {0}
  BY FS_CardinalityType DEF Init
<1>3. NoEntry \in Entry
  BY DEF NoEntry, Entry
<1>4. Types
  BY <1>0, <1>1, <1>2, <1>3 DEF Init, Types, TypeOK, NoPins, PinCounts
<1>5. Guarded
  BY DEF Init, Guarded
<1>6. \A p \in AgbPaths : ~Cached(p) /\ PinThreads(p) = 0
  BY DEF Init, Cached, NoEntry, PinThreads, NoPins
<1>7. \A t \in Threads : pc[t] # "insert"
  BY DEF Init
<1> QED
  BY <1>4, <1>5, <1>6, <1>7 DEF Init, IInv, MappedOnce, Inserting, PinBookkeeping, Announced

-----------------------------------------------------------------------------
\* The steps, one by one.
LEMMA Steps ==
    ASSUME Next
    PROVE  \/ \E p \in AgbPaths, n \in 0..MaxBlocks : RewriteInPlace(p, n)
           \/ \E p \in AgbPaths, n \in 0..MaxBlocks : ReplaceFile(p, n)
           \/ \E t \in Threads : PrewarmLock(t)
           \/ \E t \in Threads : PrewarmHit(t)
           \/ \E t \in Threads : PrewarmFails(t)
           \/ \E t \in Threads : PrewarmMap(t)
           \/ \E t \in Threads : PrewarmInsert(t)
           \/ \E t \in Threads : HitThreadThrows(t)
           \/ \E t \in Threads : MapThreadThrows(t)
           \/ \E p \in AgbPaths, outcome \in {"locked", "failed"} : MlockReturns(p, outcome)
           \/ \E p \in AgbPaths, outcome \in {"locked", "failed"} : ReportPin(p, outcome)
           \/ \E p \in AgbPaths : StartupPrewarm(p)
           \/ BuildAndStart
           \/ \E h \in Handlers, kind \in {"query", "ingest"}, p \in Paths, pin \in BOOLEAN :
                 Request(h, kind, p, pin)
           \/ \E h \in Handlers : Lookup(h)
           \/ \E h \in Handlers : Scan(h)
           \/ \E h \in Handlers : ScanFaults(h)
           \/ \E h \in Handlers, filter, missing \in BOOLEAN : ScanText(h, filter, missing)
           \/ \E h \in Handlers, lines \in SUBSET Lines : ReadChunk(h, lines)
           \/ \E h \in Handlers : TranscodeChunk(h)
           \/ \E h \in Handlers, named \in BOOLEAN : EndOfStream(h, named)
           \/ \E h \in Handlers : RespondIngest(h)
BY DEF Next, Main, Prewarm, Pin, Handle, Threads

\* What happens to the pin threads of a path: one starts, one returns from
\* mlock, one reports.
LEMMA PinCounting ==
    ASSUME NEW c \in PinCounts, NEW outcome \in {"locked", "failed"}
    PROVE  LET starts  == [c EXCEPT !.locking = @ + 1]
               returns == [c EXCEPT !.locking = @ - 1, ![outcome] = @ + 1]
               reports == [c EXCEPT ![outcome] = @ - 1]
           IN  /\ starts \in PinCounts /\ Total(starts) = Total(c) + 1
               /\ c.locking > 0 => returns \in PinCounts /\ Total(returns) = Total(c)
               /\ c[outcome] > 0 => reports \in PinCounts /\ Total(reports) = Total(c) - 1
<1>t. c.locking \in Nat /\ c.locked \in Nat /\ c.failed \in Nat
  BY DEF PinCounts
<1>1. /\ [c EXCEPT !.locking = @ + 1] \in PinCounts
      /\ Total([c EXCEPT !.locking = @ + 1]) = Total(c) + 1
  BY <1>t DEF PinCounts, Total
<1>2. ASSUME c.locking > 0
      PROVE  LET returns == [c EXCEPT !.locking = @ - 1, ![outcome] = @ + 1]
             IN  returns \in PinCounts /\ Total(returns) = Total(c)
  <2> DEFINE d == [c EXCEPT !.locking = @ - 1]
             e == [d EXCEPT ![outcome] = @ + 1]
  <2>1. /\ d \in PinCounts
        /\ d.locked = c.locked /\ d.failed = c.failed /\ d.locking = c.locking - 1
    BY <1>t, <1>2 DEF PinCounts
  <2> HIDE DEF d
  <2>2. e \in PinCounts /\ Total(e) = Total(d) + 1
    <3>1. CASE outcome = "locked"
      BY <2>1, <3>1 DEF PinCounts, Total
    <3>2. CASE outcome = "failed"
      BY <2>1, <3>2 DEF PinCounts, Total
    <3> QED
      BY <3>1, <3>2
  <2>3. Total(d) + 1 = Total(c)
    BY <1>t, <2>1 DEF Total
  <2> QED
    BY <2>2, <2>3 DEF d
<1>3. ASSUME c[outcome] > 0
      PROVE  LET reports == [c EXCEPT ![outcome] = @ - 1]
             IN  reports \in PinCounts /\ Total(reports) = Total(c) - 1
  <2>1. CASE outcome = "locked"
    BY <1>t, <1>3, <2>1 DEF PinCounts, Total
  <2>2. CASE outcome = "failed"
    BY <1>t, <1>3, <2>2 DEF PinCounts, Total
  <2> QED
    BY <2>1, <2>2
<1> QED
  BY <1>1, <1>2, <1>3

\* A pin thread of p starts: one more at work on p, and no other path's.
LEMMA StartPinEffect ==
    ASSUME pins \in [AgbPaths -> PinCounts], NEW p \in AgbPaths, StartPin(p)
    PROVE  /\ pins' \in [AgbPaths -> PinCounts]
           /\ Total(pins'[p]) = Total(pins[p]) + 1
           /\ \A q \in AgbPaths \ {p} : pins'[q] = pins[q]
<1> DEFINE c == [pins[p] EXCEPT !.locking = @ + 1]
<1>1. pins[p] \in PinCounts /\ "locked" \in {"locked", "failed"}
  OBVIOUS
<1>2. c \in PinCounts /\ Total(c) = Total(pins[p]) + 1
  BY ONLY <1>1, PinCounting
<1>3. pins' = [pins EXCEPT ![p] = c]
  BY DEF StartPin
<1> HIDE DEF c
<1> QED
  BY ONLY <1>2, <1>3, pins \in [AgbPaths -> PinCounts], p \in AgbPaths

\* Every step keeps the types.
LEMMA TypesPreserved == IInv /\ [Next]_vars => Types'
<1> SUFFICES ASSUME IInv, [Next]_vars PROVE Types'
  OBVIOUS
<1> USE CoreAssumption
<1>t. /\ Types /\ "main" \in Threads /\ Handlers \subseteq Threads
      /\ NoEntry \in Entry /\ NoRequest \in RequestType
  BY DEF IInv, Threads, NoEntry, Entry, NoRequest, RequestType, Paths
<1>a. \A t \in Threads : AfterPrewarm(t) \in {"idle", "respond", "lookup"}
  BY DEF AfterPrewarm
<1>1. CASE UNCHANGED vars
  BY <1>1, <1>t DEF vars, diskVars, cacheVars, pinHistory, ingestVars, Types, TypeOK, PinCounts
<1>2. CASE \E p \in AgbPaths, n \in 0..MaxBlocks : RewriteInPlace(p, n)
  BY <1>2, <1>t, SMTT(30) DEF RewriteInPlace, cacheVars, pinHistory, ingestVars, Types, TypeOK, PinCounts
<1>3. ASSUME NEW p \in AgbPaths, NEW n \in 0..MaxBlocks, ReplaceFile(p, n) PROVE Types'
  <2>1. nextInode \in 1..MaxInodes /\ nextInode' \in Nat \ {0}
    BY <1>3, <1>t DEF ReplaceFile, Types
  <2>2. inode' \in [AgbPaths -> 0..MaxInodes]
    BY <1>3, <1>t, <2>1 DEF ReplaceFile, Types, TypeOK
  <2>3. blocks' \in [1..MaxInodes -> 0..MaxBlocks]
    BY <1>3, <1>t, <2>1 DEF ReplaceFile, Types, TypeOK
  <2> QED
    BY <1>3, <1>t, <2>1, <2>2, <2>3 DEF ReplaceFile, cacheVars, pinHistory, ingestVars, Types, TypeOK, PinCounts
<1>4. CASE \E t \in Threads : PrewarmLock(t)
  BY <1>4, <1>t DEF PrewarmLock, pinHistory, Goto, diskVars, ingestVars, Types, TypeOK, PinCounts
<1>5. ASSUME NEW t \in Threads, PrewarmHit(t) PROVE Types'
  <2> DEFINE p == req[t].path
  <2>1. p \in AgbPaths
    BY <1>5 DEF IInv, Guarded, PrewarmHit
  <2>2. mapped_files_cache_' \in [AgbPaths -> Entry]
    <3>1. [mapped_files_cache_[p] EXCEPT !.pin_in_progress = TRUE] \in Entry
      BY <1>t, <2>1 DEF Types, TypeOK, Entry
    <3> QED
      BY <1>5, <1>t, <2>1, <3>1 DEF PrewarmHit, pinHistory, Types, TypeOK, PinCounts
  <2>3. pins' \in [AgbPaths -> PinCounts]
    BY <1>5, <1>t, <2>1, StartPinEffect DEF PrewarmHit, pinHistory, Types
  <2> QED
    BY <1>5, <1>t, <1>a, <2>2, <2>3 DEF PrewarmHit, pinHistory, Goto, diskVars, ingestVars, Types, TypeOK, PinCounts
<1>6. CASE \E t \in Threads : PrewarmFails(t)
  BY <1>6, <1>t, <1>a, SMTT(30)
     DEF PrewarmFails, pinHistory, Goto, diskVars, ingestVars, Types, TypeOK, PinCounts
<1>7. ASSUME NEW t \in Threads, PrewarmMap(t) PROVE Types'
  <2> DEFINE p == req[t].path
  <2>1. p \in AgbPaths /\ req[t].pin \in BOOLEAN
    BY <1>7, <1>t DEF IInv, Guarded, PrewarmMap, Types, RequestType
  <2>2. inode[p] \in 1..MaxInodes /\ blocks[inode[p]] \in 0..MaxBlocks
    BY <1>7, <1>t, <2>1 DEF PrewarmMap, pinHistory, Mappable, Types, TypeOK, PinCounts
  <2>3. mapped' \in [Threads -> Entry]
    BY <1>7, <1>t, <2>1, <2>2 DEF PrewarmMap, pinHistory, FileBytes, Types, TypeOK, Entry
  <2>4. pins' \in [AgbPaths -> PinCounts]
    BY <1>7, <1>t, <2>1, StartPinEffect DEF PrewarmMap, pinHistory, Types
  <2>5. maps' \in [AgbPaths -> Nat]
    BY <1>7, <1>t, <2>1 DEF PrewarmMap, pinHistory, Types
  <2> QED
    BY <1>7, <1>t, <2>3, <2>4, <2>5 DEF PrewarmMap, pinHistory, Goto, diskVars, ingestVars, Types, TypeOK,
       PinCounts
<1>8. ASSUME NEW t \in Threads, PrewarmInsert(t) PROVE Types'
  BY <1>8, <1>t, <1>a DEF PrewarmInsert, pinHistory, Goto, diskVars, ingestVars, Types, TypeOK, PinCounts
<1>9. ASSUME NEW p \in AgbPaths, NEW outcome \in {"locked", "failed"}, MlockReturns(p, outcome)
      PROVE  Types'
  <2>1. pins' \in [AgbPaths -> PinCounts]
    BY <1>9, <1>t, PinCounting DEF MlockReturns, pinHistory, Types
  <2> QED
    BY <1>9, <1>t, <2>1 DEF MlockReturns, pinHistory, diskVars, ingestVars, Types, TypeOK, PinCounts
<1>10. ASSUME NEW p \in AgbPaths, NEW outcome \in {"locked", "failed"}, ReportPin(p, outcome)
       PROVE  Types'
  <2>1. pins' \in [AgbPaths -> PinCounts]
    BY <1>10, <1>t, PinCounting DEF ReportPin, pinHistory, Types
  <2>2. \A e \in Entry : Settled(e, outcome) \in Entry
    BY DEF Settled, Entry
  <2>3. mapped_files_cache_' \in [AgbPaths -> Entry]
    BY <1>10, <1>t, <2>2 DEF ReportPin, pinHistory, Types, TypeOK, PinCounts
  <2> QED
    BY <1>10, <1>t, <2>1, <2>3 DEF ReportPin, pinHistory, diskVars, ingestVars, Types, TypeOK, PinCounts
<1>11. ASSUME NEW p \in AgbPaths, StartupPrewarm(p) PROVE Types'
  <2>1. [kind |-> "startup", path |-> p, pin |-> TRUE] \in RequestType
    BY DEF RequestType, Paths
  <2> QED
    BY <1>11, <1>t, <2>1 DEF StartupPrewarm, Goto, diskVars, cacheVars, pinHistory, ingestVars, Types, TypeOK, PinCounts
<1>12. CASE BuildAndStart
  BY <1>12, <1>t DEF BuildAndStart, Goto, diskVars, cacheVars, pinHistory, ingestVars, Types, TypeOK, PinCounts
<1>13. ASSUME NEW h \in Handlers, NEW kind \in {"query", "ingest"}, NEW p \in Paths,
              NEW pin \in BOOLEAN, Request(h, kind, p, pin)
       PROVE  Types'
  <2>1. [kind |-> kind, path |-> p, pin |-> pin] \in RequestType
    BY DEF RequestType
  <2> QED
    BY <1>13, <1>t, <2>1 DEF Request, Goto, diskVars, cacheVars, pinHistory, ingestVars, Types, TypeOK, PinCounts
<1>14. ASSUME NEW h \in Handlers, Lookup(h) PROVE Types'
  <2>1. Cached(req[h].path) => req[h].path \in AgbPaths
    BY <1>14, <1>t DEF IInv, Guarded, Lookup
  <2>2. CASE Cached(req[h].path)
    <3>1. mapped' \in [Threads -> Entry]
      BY <1>14, <1>t, <2>1, <2>2 DEF Lookup, Types, TypeOK
    <3> QED
      BY <1>14, <1>t, <2>2, <3>1 DEF Lookup, Goto, diskVars, cacheVars, pinHistory, Types, TypeOK, PinCounts
  <2>3. CASE ~Cached(req[h].path)
    <3>1. /\ Reply(h, "internal")
          /\ UNCHANGED <<diskVars, cacheVars, startup, wal, batch>>
      BY <1>14, <2>3 DEF Lookup
    <3> QED
      BY <1>t, <3>1 DEF Reply, Goto, diskVars, cacheVars, pinHistory, Types, TypeOK, PinCounts
  <2> QED
    BY <2>2, <2>3
<1>r. ASSUME NEW h \in Handlers, NEW status \in {"ok", "not_found"}, Reply(h, status),
             UNCHANGED <<diskVars, cacheVars, startup, wal, batch>>
      PROVE  Types'
  BY <1>r, <1>t DEF Reply, Goto, diskVars, cacheVars, pinHistory, Types, TypeOK
<1>15. ASSUME NEW h \in Handlers, Scan(h) PROVE Types'
  BY <1>15, <1>r DEF Scan
<1>16. ASSUME NEW h \in Handlers, ScanFaults(h) PROVE Types'
  <2>1. UNCHANGED <<inode, blocks, nextInode, req, mapped, reply, startup, wal, batch>>
    BY <1>16 DEF ScanFaults, diskVars, ingestVars
  <2>2. pins' \in [AgbPaths -> PinCounts]
    BY <1>16 DEF ScanFaults, NoPins, PinCounts
  <2>3. /\ maps' \in [AgbPaths -> Nat] /\ lost' \in [AgbPaths -> Nat]
        /\ stuck' \subseteq AgbPaths
    BY <1>16 DEF ScanFaults
  <2>4. /\ mapped_files_cache_' \in [AgbPaths -> Entry] /\ cache_mutex_' = NoOne
        /\ pc' \in [Threads -> {"idle", "prewarm", "find", "insert", "serving", "lookup", "scan",
                               "scanText", "read", "staged", "respond", "dead"}]
    BY <1>16, <1>t DEF ScanFaults
  <2> QED
    BY <1>t, <2>1, <2>2, <2>3, <2>4 DEF Types, TypeOK, PinCounts
<1>17. ASSUME NEW h \in Handlers, NEW filter \in BOOLEAN, NEW missing \in BOOLEAN,
              ScanText(h, filter, missing)
       PROVE  Types'
  BY <1>17, <1>r DEF ScanText
<1>18. ASSUME NEW h \in Handlers, NEW chunk \in SUBSET Lines, ReadChunk(h, chunk) PROVE Types'
  <2>1. /\ UNCHANGED <<diskVars, cacheVars, req, mapped, reply, startup, requests>>
        /\ pc' = [pc EXCEPT ![h] = "staged"]
    BY <1>18 DEF ReadChunk, Goto
  <2>2. wal' \subseteq Handlers \X Lines /\ batch' \in [Handlers -> SUBSET Lines]
    BY <1>18, <1>t DEF ReadChunk, Types, TypeOK
  <2>3. pc' \in [Threads -> {"idle", "prewarm", "find", "insert", "serving", "lookup", "scan",
                            "scanText", "read", "staged", "respond", "dead"}]
    BY <1>t, <2>1 DEF Types, TypeOK
  <2> QED
    BY <1>t, <2>1, <2>2, <2>3 DEF diskVars, cacheVars, pinHistory, Types, TypeOK
<1>19. ASSUME NEW h \in Handlers, TranscodeChunk(h) PROVE Types'
  <2>1. /\ UNCHANGED <<diskVars, cacheVars, req, mapped, reply, startup, requests>>
        /\ pc' = [pc EXCEPT ![h] = "read"] /\ wal' = {}
        /\ batch' = [batch EXCEPT ![h] = {}]
    BY <1>19 DEF TranscodeChunk, Goto
  <2> QED
    BY <1>t, <2>1 DEF diskVars, cacheVars, pinHistory, Types, TypeOK
<1>20. ASSUME NEW h \in Handlers, NEW named \in BOOLEAN, EndOfStream(h, named) PROVE Types'
  <2>1. PICK step \in {"prewarm", "respond"} : pc' = [pc EXCEPT ![h] = step]
    BY <1>20 DEF EndOfStream, Goto
  <2>2. UNCHANGED <<diskVars, cacheVars, req, mapped, reply, startup, wal, batch>>
    BY <1>20 DEF EndOfStream, ingestVars
  <2> QED
    BY <1>t, <2>1, <2>2 DEF diskVars, cacheVars, pinHistory, Types, TypeOK
<1>21. ASSUME NEW h \in Handlers, RespondIngest(h) PROVE Types'
  BY <1>21, <1>r DEF RespondIngest
<1>22. ASSUME NEW t \in Threads, ThreadThrows(t)
       PROVE  /\ req' \in [Threads -> RequestType] /\ mapped' \in [Threads -> Entry]
              /\ pc' \in [Threads -> {"idle", "prewarm", "find", "insert", "serving", "lookup",
                                       "scan", "scanText", "read", "staged", "respond", "dead"}]
              /\ reply' \in [Handlers -> {"none", "ok", "internal", "not_found", "unknown"}]
              /\ startup' \subseteq AgbPaths /\ cache_mutex_' = NoOne
              /\ UNCHANGED <<diskVars, pins, wal, batch>>
  <2>1. CASE t = "main"
    BY <1>22, <1>t, <2>1 DEF ThreadThrows, Goto, Types, TypeOK
  <2>2. CASE t # "main"
    <3>1. t \in Handlers
      BY <2>2 DEF Threads
    <3>2. PICK status \in {"internal", "unknown"} : Reply(t, status)
      BY <1>22, <2>2 DEF ThreadThrows
    <3>3. /\ cache_mutex_' = NoOne /\ UNCHANGED startup
          /\ UNCHANGED <<diskVars, pins, wal, batch>>
      BY <1>22, <2>2 DEF ThreadThrows
    <3>4. req' \in [Threads -> RequestType] /\ mapped' \in [Threads -> Entry]
      BY <1>t, <3>2 DEF Reply, Types, TypeOK
    <3> QED
      BY <1>t, <3>1, <3>2, <3>3, <3>4 DEF Reply, Goto, Types, TypeOK
  <2> QED
    BY <2>1, <2>2
<1>23. ASSUME NEW t \in Threads, HitThreadThrows(t) PROVE Types'
  <2> DEFINE p == req[t].path
  <2>1. p \in AgbPaths
    BY <1>23 DEF IInv, Guarded, HitThreadThrows
  <2>2. mapped_files_cache_' \in [AgbPaths -> Entry]
    <3>1. [mapped_files_cache_[p] EXCEPT !.pin_in_progress = TRUE] \in Entry
      BY <1>t, <2>1 DEF Types, TypeOK, Entry
    <3> QED
      BY <1>23, <1>t, <2>1, <3>1 DEF HitThreadThrows, Types, TypeOK
  <2>3. stuck' \subseteq AgbPaths /\ UNCHANGED <<maps, lost>> /\ ThreadThrows(t)
    BY <1>23, <1>t, <2>1 DEF HitThreadThrows, Types, TypeOK
  <2>4. /\ req' \in [Threads -> RequestType] /\ mapped' \in [Threads -> Entry]
        /\ pc' \in [Threads -> {"idle", "prewarm", "find", "insert", "serving", "lookup", "scan",
                               "scanText", "read", "staged", "respond", "dead"}]
        /\ reply' \in [Handlers -> {"none", "ok", "internal", "not_found", "unknown"}]
        /\ startup' \subseteq AgbPaths /\ cache_mutex_' = NoOne
        /\ UNCHANGED <<inode, blocks, nextInode, pins, wal, batch>>
    BY <1>22, <2>3 DEF diskVars
  <2> QED
    BY <1>t, <2>2, <2>3, <2>4 DEF Types, TypeOK
<1>24. ASSUME NEW t \in Threads, MapThreadThrows(t) PROVE Types'
  <2>1. req[t].path \in AgbPaths
    BY <1>24 DEF IInv, Guarded, MapThreadThrows
  <2> DEFINE p == req[t].path
  <2>a. /\ maps' = [maps EXCEPT ![p] = @ + 1] /\ lost' = [lost EXCEPT ![p] = @ + 1]
        /\ UNCHANGED <<mapped_files_cache_, stuck>> /\ ThreadThrows(t)
    BY <1>24 DEF MapThreadThrows
  <2>b. /\ maps \in [AgbPaths -> Nat] /\ lost \in [AgbPaths -> Nat]
        /\ maps[p] + 1 \in Nat /\ lost[p] + 1 \in Nat
    BY <1>t, <2>1 DEF Types, TypeOK
  <2> HIDE DEF p
  <2>2. /\ maps' \in [AgbPaths -> Nat] /\ lost' \in [AgbPaths -> Nat]
        /\ UNCHANGED <<mapped_files_cache_, stuck>> /\ ThreadThrows(t)
    BY <2>a, <2>b
  <2>3. /\ req' \in [Threads -> RequestType] /\ mapped' \in [Threads -> Entry]
        /\ pc' \in [Threads -> {"idle", "prewarm", "find", "insert", "serving", "lookup", "scan",
                               "scanText", "read", "staged", "respond", "dead"}]
        /\ reply' \in [Handlers -> {"none", "ok", "internal", "not_found", "unknown"}]
        /\ startup' \subseteq AgbPaths /\ cache_mutex_' = NoOne
        /\ UNCHANGED <<inode, blocks, nextInode, pins, wal, batch>>
    BY <1>22, <2>2 DEF diskVars
  <2>4. mapped_files_cache_' \in [AgbPaths -> Entry] /\ stuck' \subseteq AgbPaths
    BY <1>t, <2>2 DEF Types, TypeOK
  <2>5. maps' \in [AgbPaths -> Nat] /\ lost' \in [AgbPaths -> Nat]
    BY <2>2
  <2> QED
    BY <1>t, <2>3, <2>4, <2>5 DEF Types, TypeOK
<1>25. CASE \/ \E h \in Handlers : Lookup(h) \/ Scan(h) \/ ScanFaults(h) \/ TranscodeChunk(h)
                                 \/ RespondIngest(h)
            \/ \E h \in Handlers, filter, missing \in BOOLEAN : ScanText(h, filter, missing)
            \/ \E h \in Handlers, lines \in SUBSET Lines : ReadChunk(h, lines)
            \/ \E h \in Handlers, named \in BOOLEAN : EndOfStream(h, named)
  BY <1>14, <1>15, <1>16, <1>17, <1>18, <1>19, <1>20, <1>21, <1>25
<1>26. CASE \E t \in Threads : \/ PrewarmLock(t) \/ PrewarmHit(t) \/ PrewarmFails(t) \/ PrewarmMap(t)
                               \/ PrewarmInsert(t) \/ HitThreadThrows(t) \/ MapThreadThrows(t)
  BY <1>4, <1>5, <1>6, <1>7, <1>8, <1>23, <1>24, <1>26
<1>27. CASE Next
  BY <1>27, <1>2, <1>3, <1>9, <1>10, <1>11, <1>12, <1>13, <1>25, <1>26, Steps
<1> QED
  BY <1>1, <1>27

\* The mutex keeps one thread between the lookup and the insertion.
LEMMA GuardedPreserved == IInv /\ [Next]_vars => Guarded'
<1> SUFFICES ASSUME IInv, [Next]_vars PROVE Guarded'
  OBVIOUS
<1> USE CoreAssumption
<1>t. /\ Types /\ Guarded /\ "main" \in Threads /\ Handlers \subseteq Threads
      /\ NoOne \notin Threads
  BY DEF IInv, Threads
<1>p. /\ pc \in [Threads -> {pc[t] : t \in Threads}]
      /\ req \in [Threads -> RequestType] /\ mapped \in [Threads -> Entry]
  BY <1>t DEF Types, TypeOK
<1>a. \A t \in Threads : AfterPrewarm(t) \in {"idle", "respond", "lookup"}
  BY DEF AfterPrewarm
<1>1. CASE UNCHANGED vars
  BY <1>1, <1>t DEF vars, cacheVars, pinHistory, Guarded
<1>2. CASE \E p \in AgbPaths, n \in 0..MaxBlocks : RewriteInPlace(p, n) \/ ReplaceFile(p, n)
  BY <1>2, <1>t DEF RewriteInPlace, ReplaceFile, cacheVars, pinHistory, Guarded
<1>4. CASE \E t \in Threads : PrewarmLock(t)
  BY <1>4, <1>t, <1>p DEF PrewarmLock, pinHistory, LockFree, Goto, Guarded
<1>5. ASSUME NEW t \in Threads, PrewarmHit(t) \/ PrewarmFails(t) PROVE Guarded'
  BY <1>5, <1>t, <1>p, <1>a DEF PrewarmHit, pinHistory, PrewarmFails, Goto, Guarded
<1>7. ASSUME NEW t \in Threads, PrewarmMap(t) PROVE Guarded'
  <2>1. inode[req[t].path] # 0 /\ mapped' = [mapped EXCEPT ![t] = mapped'[t]]
        /\ mapped'[t].addr = inode[req[t].path]
    BY <1>7, <1>p DEF PrewarmMap, pinHistory, Mappable
  <2> QED
    BY <1>7, <1>t, <1>p, <2>1 DEF PrewarmMap, pinHistory, Goto, Guarded
<1>8. ASSUME NEW t \in Threads, PrewarmInsert(t) PROVE Guarded'
  BY <1>8, <1>t, <1>p, <1>a DEF PrewarmInsert, pinHistory, Goto, Guarded
<1>9. CASE \E p \in AgbPaths, outcome \in {"locked", "failed"} :
              MlockReturns(p, outcome) \/ ReportPin(p, outcome)
  BY <1>9, <1>t DEF MlockReturns, pinHistory, ReportPin, Guarded
<1>11. ASSUME NEW p \in AgbPaths, StartupPrewarm(p) PROVE Guarded'
  BY <1>11, <1>t, <1>p DEF StartupPrewarm, Goto, cacheVars, pinHistory, Guarded
<1>12. CASE BuildAndStart
  BY <1>12, <1>t, <1>p DEF BuildAndStart, Goto, cacheVars, pinHistory, Guarded
<1>13. ASSUME NEW h \in Handlers, NEW kind \in {"query", "ingest"}, NEW p \in Paths,
              NEW pin \in BOOLEAN, Request(h, kind, p, pin)
       PROVE  Guarded'
  <2>0. PICK step : Goto(h, step)
    BY <1>13 DEF Request
  <2>1. /\ h \in Threads /\ pc[h] = "idle"
        /\ pc' = [pc EXCEPT ![h] = pc'[h]]
        /\ req' = [req EXCEPT ![h] = req'[h]] /\ req'[h].path = p
        /\ UNCHANGED <<cache_mutex_, mapped>>
    BY <1>13, <1>t, <1>p, <2>0 DEF Request, Goto, cacheVars, pinHistory
  <2>2. pc'[h] \in {"read", "prewarm", "scanText"} /\ (pc'[h] = "prewarm" => p \in AgbPaths)
    BY <1>13, <1>t, <1>p DEF Request, Goto
  <2> QED
    BY <1>t, <1>p, <2>1, <2>2 DEF Guarded
<1>14. ASSUME NEW h \in Handlers, NEW status, Reply(h, status), UNCHANGED cache_mutex_
       PROVE  Guarded'
  BY <1>14, <1>t, <1>p DEF Reply, Goto, Guarded
<1>15. ASSUME NEW h \in Handlers, Lookup(h) PROVE Guarded'
  <2>1. CASE Cached(req[h].path)
    BY <1>15, <1>t, <1>p, <2>1 DEF Lookup, Goto, cacheVars, pinHistory, Guarded
  <2>2. CASE ~Cached(req[h].path)
    BY <1>14, <1>15, <2>2 DEF Lookup, cacheVars, pinHistory
  <2> QED
    BY <2>1, <2>2
<1>16. CASE \E h \in Handlers : ScanFaults(h)
  BY <1>16, <1>t DEF ScanFaults, Guarded
<1>17. CASE \/ \E h \in Handlers : Scan(h) \/ RespondIngest(h)
            \/ \E h \in Handlers, filter, missing \in BOOLEAN : ScanText(h, filter, missing)
  BY <1>14, <1>17 DEF Scan, RespondIngest, ScanText, cacheVars, pinHistory
<1>18. CASE \E h \in Handlers, lines \in SUBSET Lines : ReadChunk(h, lines)
  BY <1>18, <1>t, <1>p DEF ReadChunk, Goto, cacheVars, pinHistory, Guarded
<1>19. CASE \E h \in Handlers : TranscodeChunk(h)
  BY <1>19, <1>t, <1>p DEF TranscodeChunk, Goto, cacheVars, pinHistory, Guarded
<1>20. CASE \E h \in Handlers, named \in BOOLEAN : EndOfStream(h, named)
  BY <1>20, <1>t, <1>p DEF EndOfStream, Goto, cacheVars, pinHistory, Guarded
<1>21. ASSUME NEW t \in Threads, HitThreadThrows(t) \/ MapThreadThrows(t) PROVE Guarded'
  <2>0. pc[t] = "find" /\ ThreadThrows(t)
    BY <1>21 DEF HitThreadThrows, MapThreadThrows
  <2>1. CASE t = "main"
    BY <1>t, <1>p, <2>0, <2>1 DEF ThreadThrows, Goto, Guarded
  <2>2. CASE t # "main"
    BY <1>t, <1>p, <2>0, <2>2 DEF ThreadThrows, Reply, Goto, Guarded
  <2> QED
    BY <2>1, <2>2
<1> QED
  BY <1>1, <1>2, <1>4, <1>5, <1>7, <1>8, <1>9, <1>11, <1>12, <1>13, <1>15, <1>16, <1>17, <1>18,
     <1>19, <1>20, <1>21, Steps

-----------------------------------------------------------------------------
Books == MappedOnce /\ PinBookkeeping

\* The two halves of PinBookkeeping, for one path.
OneAtWork(p) == PinThreads(p) = IF Announced(p) /\ p \notin stuck THEN 1 ELSE 0
StuckIsSeen(p) ==
    p \in stuck => /\ Cached(p) /\ mapped_files_cache_[p].pin_in_progress
                  /\ ~mapped_files_cache_[p].pinned

\* A step that leaves the cache, the pin threads and the inserting thread
\* alone leaves the books right.
LEMMA QuietStep ==
    ASSUME IInv, UNCHANGED <<mapped_files_cache_, pins, maps, lost, stuck>>,
           \A t \in Threads : /\ pc'[t] = "insert" <=> pc[t] = "insert"
                              /\ pc[t] = "insert" => req'[t] = req[t] /\ mapped'[t] = mapped[t]
    PROVE  Books'
<1>1. \A p \in AgbPaths : /\ (Cached(p))' = Cached(p)
                          /\ \A t \in Threads : Inserting(t, p)' = Inserting(t, p)
                          /\ PinThreads(p)' = PinThreads(p)
  BY DEF Cached, Inserting, PinThreads
<1>2. \A p \in AgbPaths : Announced(p)' = Announced(p)
  BY DEF Announced, Cached
<1> QED
  BY <1>1, <1>2 DEF IInv, Books, MappedOnce, PinBookkeeping

\* PrewarmCache and the pin threads keep the books of the path they work on.
LEMMA BooksPreserved == IInv /\ [Next]_vars => Books'
<1> SUFFICES ASSUME IInv, [Next]_vars PROVE Books'
  OBVIOUS
<1> USE CoreAssumption
<1>t. /\ Types /\ Guarded /\ MappedOnce /\ PinBookkeeping
      /\ "main" \in Threads /\ Handlers \subseteq Threads /\ NoOne \notin Threads
  BY DEF IInv, Threads
<1>b. \A p \in AgbPaths : OneAtWork(p) /\ StuckIsSeen(p)
  BY <1>t DEF PinBookkeeping, OneAtWork, StuckIsSeen
<1>c. ASSUME \A p \in AgbPaths : OneAtWork(p)' /\ StuckIsSeen(p)' PROVE PinBookkeeping'
  BY <1>c DEF PinBookkeeping, OneAtWork, StuckIsSeen
<1>p. /\ pc \in [Threads -> {pc[t] : t \in Threads}]
      /\ req \in [Threads -> RequestType] /\ mapped \in [Threads -> Entry]
      /\ pins \in [AgbPaths -> PinCounts] /\ maps \in [AgbPaths -> Nat]
      /\ lost \in [AgbPaths -> Nat] /\ stuck \subseteq AgbPaths
      /\ mapped_files_cache_ \in [AgbPaths -> Entry]
  BY <1>t DEF Types, TypeOK
<1>a. \A t \in Threads : AfterPrewarm(t) \in {"idle", "respond", "lookup"}
  BY DEF AfterPrewarm
<1>q. \A p \in AgbPaths : PinThreads(p) = Total(pins[p]) /\ PinThreads(p)' = Total(pins'[p])
  BY DEF PinThreads, Total
<1>o. ASSUME NEW t \in Threads, pc[t] = "find" PROVE \A u \in Threads : pc[u] # "insert"
  BY <1>o, <1>t DEF Guarded
<1>1. CASE UNCHANGED vars
  BY <1>1, QuietStep DEF vars, cacheVars, pinHistory
<1>2. CASE \E p \in AgbPaths, n \in 0..MaxBlocks : RewriteInPlace(p, n) \/ ReplaceFile(p, n)
  BY <1>2, QuietStep DEF RewriteInPlace, ReplaceFile, cacheVars, pinHistory
<1>3. CASE \E t \in Threads : PrewarmLock(t)
  BY <1>3, <1>p, QuietStep DEF PrewarmLock, pinHistory, Goto
<1>4. CASE \E t \in Threads : PrewarmFails(t)
  BY <1>4, <1>p, <1>a, QuietStep DEF PrewarmFails, pinHistory, Goto
<1>5. ASSUME NEW t \in Threads, PrewarmHit(t) PROVE Books'
  <2> DEFINE p == req[t].path
  <2>1. p \in AgbPaths /\ pc[t] = "find" /\ Cached(p)
    BY <1>5, <1>t DEF Guarded, PrewarmHit
  <2>2. /\ \A u \in Threads : pc[u] # "insert" /\ pc'[u] # "insert"
        /\ UNCHANGED <<maps, req, lost, stuck>>
    BY <1>5, <1>o, <1>p, <1>a, <2>1 DEF PrewarmHit, pinHistory, Goto
  <2>3. CASE ~MustPin(t)
    BY <1>5, <2>2, <2>3, QuietStep DEF PrewarmHit, pinHistory
  <2>4. CASE MustPin(t)
    <3>1. ~mapped_files_cache_[p].pin_in_progress /\ ~Announced(p)
      BY <2>2, <2>4 DEF MustPin, Announced
    <3>2. Total(pins[p]) = 0 /\ p \notin stuck
      BY <1>b, <1>q, <2>1, <3>1 DEF OneAtWork, StuckIsSeen
    <3>3. /\ Total(pins'[p]) = 1 /\ pins'[p] \in PinCounts
          /\ \A q \in AgbPaths \ {p} : pins'[q] = pins[q]
      BY <1>5, <1>p, <2>1, <2>4, <3>2, StartPinEffect DEF PrewarmHit, pinHistory
    <3>4. mapped_files_cache_' = [mapped_files_cache_ EXCEPT ![p].pin_in_progress = TRUE]
      BY <1>5, <2>4 DEF PrewarmHit, pinHistory
    <3>5. /\ mapped_files_cache_'[p].addr = mapped_files_cache_[p].addr
          /\ mapped_files_cache_'[p].pin_in_progress
          /\ \A q \in AgbPaths \ {p} : mapped_files_cache_'[q] = mapped_files_cache_[q]
      BY <1>p, <2>1, <3>4 DEF Entry
    <3>6. \A q \in AgbPaths : Cached(q)' = Cached(q)
      BY <3>5 DEF Cached
    <3>7. MappedOnce'
      BY <1>t, <2>2, <3>6 DEF MappedOnce, Inserting
    <3>8. Announced(p)' /\ \A q \in AgbPaths \ {p} : (Announced(q)' <=> Announced(q))
      <4>1. Announced(p)'
        BY <2>1, <2>2, <3>5, <3>6 DEF Announced
      <4>2. ASSUME NEW q \in AgbPaths \ {p} PROVE Announced(q)' <=> Announced(q)
        BY <2>2, <3>5, <3>6 DEF Announced
      <4> QED
        BY <4>1, <4>2
    <3>9. PinBookkeeping'
      <4>1. ASSUME NEW q \in AgbPaths PROVE OneAtWork(q)' /\ StuckIsSeen(q)'
        <5>1. CASE q = p
          BY <1>q, <2>2, <3>2, <3>3, <3>8, <5>1 DEF OneAtWork, StuckIsSeen
        <5>2. CASE q # p
          BY <1>b, <1>q, <2>2, <3>3, <3>5, <3>6, <3>8, <5>2 DEF OneAtWork, StuckIsSeen
        <5> QED
          BY <5>1, <5>2
      <4> QED
        BY <1>c, <4>1
    <3> QED
      BY <3>7, <3>9 DEF Books
  <2> QED
    BY <2>3, <2>4
<1>6. ASSUME NEW t \in Threads, PrewarmMap(t) PROVE Books'
  <2> DEFINE p == req[t].path
  <2>1. p \in AgbPaths /\ pc[t] = "find" /\ ~Cached(p) /\ \A u \in Threads : pc[u] # "insert"
    BY <1>6, <1>o, <1>t DEF Guarded, PrewarmMap
  <2>2. /\ pc'[t] = "insert" /\ (\A u \in Threads \ {t} : pc'[u] # "insert")
        /\ UNCHANGED <<req, mapped_files_cache_, lost, stuck>>
        /\ maps' = [maps EXCEPT ![p] = @ + 1]
    BY <1>6, <1>p, <2>1 DEF PrewarmMap, pinHistory, Goto
  <2>3. mapped'[t].pin_in_progress = req[t].pin
    BY <1>6, <1>p DEF PrewarmMap, pinHistory
  <2>4. \A q \in AgbPaths : /\ Cached(q)' = Cached(q)
                            /\ \A u \in Threads : ~Inserting(u, q)
                            /\ \A u \in Threads : Inserting(u, q)' <=> u = t /\ q = p
    BY <2>1, <2>2 DEF Cached, Inserting
  <2>5. MappedOnce'
    BY <1>t, <1>p, <2>1, <2>2, <2>4 DEF MappedOnce
  <2>6. /\ ~Announced(p) /\ (Announced(p)' <=> req[t].pin)
        /\ \A q \in AgbPaths \ {p} : (Announced(q)' <=> Announced(q))
    BY <2>1, <2>2, <2>3, <2>4 DEF Announced, Inserting
  <2>7. Total(pins[p]) = 0 /\ p \notin stuck
    BY <1>b, <1>q, <2>1, <2>6 DEF OneAtWork, StuckIsSeen
  <2>8. /\ Total(pins'[p]) = IF req[t].pin THEN 1 ELSE 0
        /\ \A q \in AgbPaths \ {p} : pins'[q] = pins[q]
    BY <1>6, <1>p, <2>1, <2>7, StartPinEffect DEF PrewarmMap, pinHistory
  <2>9. PinBookkeeping'
    <3>1. ASSUME NEW q \in AgbPaths PROVE OneAtWork(q)' /\ StuckIsSeen(q)'
      <4>1. CASE q = p
        BY <1>q, <2>2, <2>6, <2>7, <2>8, <4>1 DEF OneAtWork, StuckIsSeen
      <4>2. CASE q # p
        BY <1>b, <1>q, <2>2, <2>4, <2>6, <2>8, <4>2 DEF OneAtWork, StuckIsSeen
      <4> QED
        BY <4>1, <4>2
    <3> QED
      BY <1>c, <3>1
  <2> QED
    BY <2>5, <2>9 DEF Books
<1>7. ASSUME NEW t \in Threads, PrewarmInsert(t) PROVE Books'
  <2> DEFINE p == req[t].path
  <2>1. p \in AgbPaths /\ pc[t] = "insert" /\ mapped[t].addr # 0 /\ mapped[t] \in Entry
    BY <1>7, <1>t, <1>p DEF Guarded, PrewarmInsert
  <2>2. \A u \in Threads \ {t} : pc[u] # "insert"
    BY <1>t, <2>1 DEF Guarded
  <2>3. /\ \A u \in Threads : pc'[u] # "insert"
        /\ UNCHANGED <<req, maps, pins, lost, stuck>>
        /\ mapped_files_cache_'[p] = mapped[t]
        /\ \A q \in AgbPaths \ {p} : mapped_files_cache_'[q] = mapped_files_cache_[q]
    BY <1>7, <1>p, <1>a, <2>1, <2>2 DEF PrewarmInsert, pinHistory, Goto
  <2>4. ~Cached(p) /\ Cached(p)' /\ \A q \in AgbPaths \ {p} : Cached(q)' = Cached(q)
    BY <1>t, <2>1, <2>3 DEF Cached, MappedOnce, Inserting
  <2>5. \A q \in AgbPaths : /\ \A u \in Threads : Inserting(u, q) <=> u = t /\ q = p
                            /\ \A u \in Threads : ~Inserting(u, q)'
    BY <2>1, <2>2, <2>3 DEF Inserting
  <2>6. MappedOnce'
    BY <1>t, <2>1, <2>3, <2>4, <2>5 DEF MappedOnce
  <2>7. \A q \in AgbPaths : (Announced(q)' <=> Announced(q))
    BY <2>1, <2>2, <2>3, <2>4, <2>5 DEF Announced, Inserting
  <2>8. PinBookkeeping'
    <3>1. ASSUME NEW q \in AgbPaths PROVE OneAtWork(q)' /\ StuckIsSeen(q)'
      BY <1>b, <1>q, <2>3, <2>4, <2>7 DEF OneAtWork, StuckIsSeen
    <3> QED
      BY <1>c, <3>1
  <2> QED
    BY <2>6, <2>8 DEF Books
<1>8. ASSUME NEW p \in AgbPaths, NEW outcome \in {"locked", "failed"}, MlockReturns(p, outcome)
      PROVE  Books'
  <2>1. UNCHANGED <<mapped_files_cache_, maps, pc, req, mapped, lost, stuck>>
    BY <1>8 DEF MlockReturns, pinHistory
  <2>2. \A q \in AgbPaths : Total(pins'[q]) = Total(pins[q])
    <3>1. Total([pins[p] EXCEPT !.locking = @ - 1, ![outcome] = @ + 1]) = Total(pins[p])
      BY <1>8, <1>p, PinCounting DEF MlockReturns, pinHistory
    <3> QED
      BY <1>8, <1>p, <3>1 DEF MlockReturns, pinHistory
  <2> QED
    BY <1>t, <1>q, <2>1, <2>2 DEF Books, MappedOnce, Inserting, Cached, PinBookkeeping, Announced
<1>9. ASSUME NEW p \in AgbPaths, NEW outcome \in {"locked", "failed"}, ReportPin(p, outcome)
      PROVE  Books'
  <2>1. /\ UNCHANGED <<maps, pc, req, mapped, lost, stuck>>
        /\ \A u \in Threads : pc[u] # "insert"
    BY <1>9, <1>t DEF ReportPin, pinHistory, LockFree, Guarded
  <2>2. /\ Total(pins'[p]) = Total(pins[p]) - 1 /\ Total(pins[p]) > 0
        /\ \A q \in AgbPaths \ {p} : pins'[q] = pins[q]
    <3>1. /\ [pins[p] EXCEPT ![outcome] = @ - 1] \in PinCounts
          /\ Total([pins[p] EXCEPT ![outcome] = @ - 1]) = Total(pins[p]) - 1
      BY <1>9, <1>p, PinCounting DEF ReportPin, pinHistory
    <3>2. pins' = [pins EXCEPT ![p] = [pins[p] EXCEPT ![outcome] = @ - 1]]
      BY <1>9 DEF ReportPin, pinHistory
    <3>3. pins'[p] \in PinCounts => Total(pins'[p]) \in Nat
      BY DEF PinCounts, Total
    <3>4. Total(pins[p]) \in Nat
      BY <1>p DEF PinCounts, Total
    <3> QED
      BY <1>p, <3>1, <3>2, <3>3, <3>4
  <2>3. Total(pins[p]) = 1 /\ Announced(p) /\ p \notin stuck
    BY <1>b, <1>q, <2>2 DEF OneAtWork
  <2>4. Cached(p) /\ mapped_files_cache_[p].pin_in_progress
    BY <2>1, <2>3 DEF Announced
  <2>5. /\ mapped_files_cache_'[p] = Settled(mapped_files_cache_[p], outcome)
        /\ \A q \in AgbPaths \ {p} : mapped_files_cache_'[q] = mapped_files_cache_[q]
    BY <1>9, <1>p, <2>4 DEF ReportPin, pinHistory
  <2>6. /\ mapped_files_cache_'[p].addr = mapped_files_cache_[p].addr
        /\ mapped_files_cache_'[p].pin_in_progress = FALSE
    BY <1>p, <2>5 DEF Settled, Entry
  <2>7. \A q \in AgbPaths : Cached(q)' = Cached(q)
    BY <2>5, <2>6 DEF Cached
  <2>8. ~Announced(p)' /\ \A q \in AgbPaths \ {p} : (Announced(q)' <=> Announced(q))
    BY <2>1, <2>5, <2>6, <2>7 DEF Announced
  <2>9. MappedOnce'
    BY <1>t, <2>1, <2>7 DEF MappedOnce, Inserting
  <2>10. PinBookkeeping'
    <3>1. ASSUME NEW q \in AgbPaths PROVE OneAtWork(q)' /\ StuckIsSeen(q)'
      <4>1. CASE q = p
        BY <1>q, <2>1, <2>2, <2>3, <2>8, <4>1 DEF OneAtWork, StuckIsSeen
      <4>2. CASE q # p
        BY <1>b, <1>q, <2>1, <2>2, <2>5, <2>7, <2>8, <4>2 DEF OneAtWork, StuckIsSeen
      <4> QED
        BY <4>1, <4>2
    <3> QED
      BY <1>c, <3>1
  <2> QED
    BY <2>9, <2>10 DEF Books
<1>10. CASE \E p \in AgbPaths : StartupPrewarm(p)
  BY <1>10, <1>p, QuietStep DEF StartupPrewarm, Goto, cacheVars, pinHistory
<1>11. CASE BuildAndStart
  BY <1>11, <1>p, QuietStep DEF BuildAndStart, Goto, cacheVars, pinHistory
<1>12. ASSUME NEW h \in Handlers, NEW kind \in {"query", "ingest"}, NEW p \in Paths,
              NEW pin \in BOOLEAN, Request(h, kind, p, pin)
       PROVE  Books'
  <2>1. h \in Threads /\ pc[h] = "idle" /\ req' = [req EXCEPT ![h] = req'[h]]
        /\ UNCHANGED <<cacheVars, mapped>>
    BY <1>12, <1>t, <1>p DEF Request
  <2>2. PICK step \in {"read", "prewarm", "scanText"} : Goto(h, step)
    BY <1>12 DEF Request
  <2> QED
    BY <1>p, <2>1, <2>2, QuietStep DEF Goto, cacheVars, pinHistory
<1>13. ASSUME NEW h \in Handlers, NEW status, Reply(h, status), pc[h] # "insert",
              UNCHANGED cacheVars
       PROVE  Books'
  BY <1>13, <1>t, <1>p, QuietStep DEF Reply, Goto, cacheVars, pinHistory
<1>14. ASSUME NEW h \in Handlers, Lookup(h) PROVE Books'
  <2>1. CASE Cached(req[h].path)
    BY <1>14, <1>t, <1>p, <2>1, QuietStep DEF Lookup, Goto, cacheVars, pinHistory
  <2>2. CASE ~Cached(req[h].path)
    BY <1>13, <1>14, <2>2 DEF Lookup
  <2> QED
    BY <2>1, <2>2
<1>15. CASE \E h \in Handlers : ScanFaults(h)
  <2>1. \A p \in AgbPaths : ~Cached(p)' /\ PinThreads(p)' = 0 /\ maps'[p] = 0 /\ lost'[p] = 0
    BY <1>15 DEF ScanFaults, Cached, NoEntry, PinThreads, NoPins
  <2>2. (\A u \in Threads : pc'[u] # "insert") /\ stuck' = {}
    BY <1>15 DEF ScanFaults
  <2> QED
    BY <2>1, <2>2 DEF Books, MappedOnce, Inserting, PinBookkeeping, Announced
<1>16. CASE \/ \E h \in Handlers : Scan(h) \/ RespondIngest(h)
            \/ \E h \in Handlers, filter, missing \in BOOLEAN : ScanText(h, filter, missing)
  BY <1>13, <1>16 DEF Scan, RespondIngest, ScanText
<1>17. CASE \E h \in Handlers, lines \in SUBSET Lines : ReadChunk(h, lines)
  BY <1>17, <1>t, <1>p, QuietStep DEF ReadChunk, Goto, cacheVars, pinHistory
<1>18. CASE \E h \in Handlers : TranscodeChunk(h)
  BY <1>18, <1>t, <1>p, QuietStep DEF TranscodeChunk, Goto, cacheVars, pinHistory
<1>19. CASE \E h \in Handlers, named \in BOOLEAN : EndOfStream(h, named)
  BY <1>19, <1>t, <1>p, QuietStep DEF EndOfStream, Goto, cacheVars, pinHistory
<1>20. ASSUME NEW t \in Threads, pc[t] = "find", ThreadThrows(t)
       PROVE  /\ \A u \in Threads : pc[u] # "insert" /\ pc'[u] # "insert"
              /\ UNCHANGED pins
  <2>1. PICK step \in {"idle"} : Goto(t, step)
    BY <1>20 DEF ThreadThrows, Reply
  <2> QED
    BY <1>20, <1>o, <1>p, <2>1 DEF ThreadThrows, Goto
<1>21. ASSUME NEW t \in Threads, HitThreadThrows(t) PROVE Books'
  <2> DEFINE p == req[t].path
  <2>1. /\ p \in AgbPaths /\ pc[t] = "find" /\ Cached(p) /\ MustPin(t) /\ ThreadThrows(t)
        /\ mapped_files_cache_' = [mapped_files_cache_ EXCEPT ![p].pin_in_progress = TRUE]
        /\ stuck' = stuck \cup {p} /\ UNCHANGED <<maps, lost>>
    BY <1>21, <1>t DEF Guarded, HitThreadThrows
  <2>2. (\A u \in Threads : pc[u] # "insert" /\ pc'[u] # "insert") /\ UNCHANGED pins
    BY <1>20, <2>1
  <2>3. /\ mapped_files_cache_'[p].addr = mapped_files_cache_[p].addr
        /\ mapped_files_cache_'[p].pin_in_progress
        /\ mapped_files_cache_'[p].pinned = mapped_files_cache_[p].pinned
        /\ \A q \in AgbPaths \ {p} : mapped_files_cache_'[q] = mapped_files_cache_[q]
    BY <1>p, <2>1 DEF Entry
  <2>4. ~mapped_files_cache_[p].pinned /\ ~Announced(p)
    BY <2>1, <2>2 DEF MustPin, Announced
  <2>5. \A q \in AgbPaths : Cached(q)' = Cached(q)
    BY <2>3 DEF Cached
  <2>6. MappedOnce'
    BY <1>t, <2>1, <2>2, <2>5 DEF MappedOnce, Inserting
  <2>7. \A q \in AgbPaths \ {p} : (Announced(q)' <=> Announced(q))
    BY <2>2, <2>3, <2>5 DEF Announced
  <2>8. ASSUME NEW q \in AgbPaths PROVE OneAtWork(q)' /\ StuckIsSeen(q)'
    <3>1. CASE q = p
      BY <1>b, <1>q, <2>1, <2>2, <2>3, <2>4, <2>5, <3>1 DEF OneAtWork, StuckIsSeen
    <3>2. CASE q # p
      BY <1>b, <1>q, <2>1, <2>2, <2>3, <2>5, <2>7, <3>2 DEF OneAtWork, StuckIsSeen
    <3> QED
      BY <3>1, <3>2
  <2> QED
    BY <1>c, <2>6, <2>8 DEF Books
<1>22. ASSUME NEW t \in Threads, MapThreadThrows(t) PROVE Books'
  <2> DEFINE p == req[t].path
  <2>1. /\ p \in AgbPaths /\ pc[t] = "find" /\ ThreadThrows(t)
        /\ maps' = [maps EXCEPT ![p] = @ + 1] /\ lost' = [lost EXCEPT ![p] = @ + 1]
        /\ UNCHANGED <<mapped_files_cache_, stuck>>
    BY <1>22, <1>t DEF Guarded, MapThreadThrows
  <2>2. (\A u \in Threads : pc[u] # "insert" /\ pc'[u] # "insert") /\ UNCHANGED pins
    BY <1>20, <2>1
  <2>3. \A q \in AgbPaths : Cached(q)' = Cached(q) /\ (Announced(q)' <=> Announced(q))
    BY <2>1, <2>2 DEF Cached, Announced
  <2>4. MappedOnce'
    <3>1. \A q \in AgbPaths :
             /\ maps[q] = lost[q] + IF Cached(q) THEN 1 ELSE 0
             /\ \A u \in Threads : ~Inserting(u, q)'
      BY <1>t, <2>2 DEF MappedOnce, Inserting
    <3>2. \A q \in AgbPaths : maps'[q] = lost'[q] + IF Cached(q)' THEN 1 ELSE 0
      BY <1>p, <2>1, <2>3, <3>1
    <3> QED
      BY <3>1, <3>2 DEF MappedOnce
  <2>5. ASSUME NEW q \in AgbPaths PROVE OneAtWork(q)' /\ StuckIsSeen(q)'
    BY <1>b, <1>q, <2>1, <2>2, <2>3 DEF OneAtWork, StuckIsSeen
  <2> QED
    BY <1>c, <2>4, <2>5 DEF Books
<1> QED
  BY <1>1, <1>2, <1>3, <1>4, <1>5, <1>6, <1>7, <1>8, <1>9, <1>10, <1>11, <1>12, <1>14, <1>15,
     <1>16, <1>17, <1>18, <1>19, <1>21, <1>22, Steps

-----------------------------------------------------------------------------
\* The invariant that carries the proofs holds in every reachable state.
THEOREM Inductive == Spec => []IInv
<1>1. IInv /\ [Next]_vars => IInv'
  BY TypesPreserved, GuardedPreserved, BooksPreserved DEF IInv, Books
<1> QED
  BY <1>1, InitEstablishes, PTL DEF Spec

\* mmap and the cache agree: however the handlers, main and the pin threads
\* interleave, a file has at most one mapping in use, in the cache or in the
\* hands of the thread that is inserting it; every other mapping of it was left
\* behind by a pin thread that could not be created.
THEOREM MappingsCorrect == Spec => []NoMappingLeaks
<1>1. IInv => NoMappingLeaks
  <2> SUFFICES ASSUME IInv, NEW p \in AgbPaths
               PROVE  maps[p] = (IF Cached(p) THEN 1 ELSE 0) + lost[p]
                           + Cardinality({t \in Threads : pc[t] = "insert" /\ req[t].path = p})
    BY DEF IInv, Types, NoMappingLeaks
  <2> DEFINE I == {t \in Threads : pc[t] = "insert" /\ req[t].path = p}
  <2>0. lost[p] \in Nat
    BY DEF IInv, Types, TypeOK
  <2>1. CASE I = {}
    <3>1. \A t \in Threads : ~Inserting(t, p)
      BY <2>1 DEF Inserting
    <3>2. Cardinality(I) = 0
      BY <2>1, FS_EmptySet
    <3>3. maps[p] = lost[p] + IF Cached(p) THEN 1 ELSE 0
      BY <3>1 DEF IInv, MappedOnce
    <3> QED
      BY <2>0, <3>2, <3>3
  <2>2. CASE I # {}
    <3>1. PICK t \in I : TRUE
      BY <2>2
    <3>2. I = {t}
      BY <3>1 DEF IInv, Guarded
    <3>3. Cardinality(I) = 1
      BY <3>2, FS_Singleton
    <3> QED
      BY <2>0, <3>1, <3>3 DEF IInv, MappedOnce, Inserting
  <2> QED
    BY <2>1, <2>2
<1> QED
  BY <1>1, Inductive, PTL

\* A file is never pinned by two threads, and pin_in_progress tells exactly
\* whether one is at work, but for the files whose pin thread could not be
\* created: there it stays set, and the file is never pinned.
THEOREM PinsCorrect == Spec => []PinBookkeeping
<1>1. IInv => PinBookkeeping
  BY DEF IInv
<1> QED
  BY <1>1, Inductive, PTL
=============================================================================
