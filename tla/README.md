# A verification model of AarchGate-Eureka

AarchGate-Eureka scans logs.  A C++ library (`eureka::lex`) ingests NDJSON,
stores it bit-sliced and counts the records a predicate selects; a C++ gRPC
service exposes it; a Spring Boot service in front of it speaks Loki's HTTP and
WebSocket interface and consumes Kafka.  This directory holds TLA+ models of
that code, the TLC configurations that check them on small instances, and TLAPS
proofs of the results that matter most for every instance.  `PROJECT.json` maps
every definition to the source lines it models, and lists the runs, mutants,
findings, hazards and theorems.

## 1. Inventory

| Component | State | Operations | Interacts with | What makes it correct |
|---|---|---|---|---|
| `Ingester` (`src/lex/ingester.cpp`) | ring of blocks, indices, size, completion flag, match count | `open_file`, `close_file`, `run_query` (producer), `processing_worker_loop` (consumer thread) | mutex and two condition variables between its threads | every row is evaluated once; no lost wakeup; the call returns the exact count, also when reused |
| `AdaptiveIngester` and its log | depth counter, log file, schema map | `append_raw_batch`, `transcode_batch_now`, `append_wal_entry`, `truncate_wal`, `recover_from_wal` | row groups shared through `shared_ptr` cells with transcoders, promotion daemon and readers | an acknowledged line survives a crash until it is transcoded; readers always find complete groups; the counter is exact |
| `PromotionDaemon` | heat registry | `record_query_access`, `check_promotion_threshold`, `execute_compaction_promotion` | the same cells | a rewrite loses nothing, writes into no other column and speaks of the right rows |
| `RowGroup`, `ZoneMap`, `BloomFilter`, `QueryPlanner` | metadata and bit planes of a group | `ingest_chunk`, `evaluate_pruning` | planner reads what ingestion wrote | a group is skipped only when no document in it can match; the planes hold every value bit for bit |
| `PlanCache` | LRU list, map of iterators | `lookup_plan`, `insert_plan` | called by any thread, one mutex | list and map agree; exact LRU; current plans |
| core gRPC service (`service_impl.cpp`, `main.cpp`) | cache of mappings, detached pin threads | `PrewarmCache`, `ExecuteQuery`, `StreamIngest`, startup scan | handler threads, files others rewrite, one log shared by all streams | one mapping per path; pins settle; every query is answered, about the current file |
| `KafkaConsumerManager` | buffer, time of last flush | listener, `checkFlush`, `flushBuffer`, `stopContainer` | Kafka container, scheduler, shutdown thread | records are handed on in order, once, none vanishes; shutdown ends |
| `LogQLParser`, `QueryDispatcher`, exporter, `QueryExecutionService`, `TailSubscription` | none beyond a request | `parse`, `parse_query`, `convert_json_to_agb`, `getMatchingEvents`, `matches` | one string handed along and taken apart three times | the count, the events and the live tail agree with the LogQL query; a string search misses no occurrence |
| `ScratchStorageService` | files, access times (in memory only) | `resolveAndFetch`: hit test, eviction, download | concurrent requests, no lock | hits are complete, the directory is bounded, eviction can find what is in it |
| `RealTimeLogBroadcaster`, `LokiTailHandler` | registered sessions | register, unregister, `broadcastLogs` | every thread that has a batch; WebSocket sessions | a session gets its lines once and in order; nobody is passed over |
| `AarchGateGrpcClient`, `LokiController`, `MockIngestionSimulator` | the latch of a stream, running flag | `streamIngest`, `pushLogs`, start and stop | broadcaster, core service | 204 means that the core has everything; every push is answered |
| `ag-lex` | none | `--convert`, query, `--stream-ingest` | exporter, dispatcher, `Ingester` | its string search and its count are exact |
| benchmarks, examples, deployment files | none | drivers | the above | not modelled |
| simdjson, the apex engine, Kafka, Spring, gRPC | external | | | modelled only by how the code uses them |

The hard behaviours are: two threads around a bounded ring; row groups replaced
under readers by several writers; a log that crashes cut short; a buffer flushed
by three threads of which one adds without the lock; detached threads reporting
into a cache; files that change under a mapping; a directory that several requests
evict from and download into; sessions that come and go under a loop that sends to
them; a time limit racing an answer; and three parsers of one query.
`PROJECT.json` lists them one by one under `hazards`, at the line where they bite.

## 2. Modules

| Module | Models |
|---|---|
| `LogScan` | what a scan of a document stream computes |
| `ScanSpec` | abstract: what `run_query` promises its caller |
| `Ingester` | the producer/consumer pipeline; instantiates `ScanSpec` |
| `IngesterProofs` | proofs about `Ingester` |
| `AdaptiveIngester` | staging, log, transcoding, promotion, crash and replay |
| `AdaptiveIngesterProofs` | proofs about `AdaptiveIngester` |
| `KafkaConsumer` | buffer and its three flushing threads |
| `KafkaConsumerProofs` | proofs about `KafkaConsumer` |
| `CoreService` | the gRPC service's cache, pins, queries and streams |
| `CoreServiceProofs` | proofs about `CoreService` |
| `QueryPlanner` | metadata and bit planes, pruning, heat registry, promotion's output |
| `PlanCache` | the LRU cache of plans |
| `QueryPlannerProofs` | proofs about `QueryPlanner` and `PlanCache` |
| `QueryPath` | LogQL, or what is typed at `ag-lex`, to count, events and live tail |
| `QueryPathProofs` | proofs about `QueryPath` and the search in it |
| `StringSearch` | the loop of `run_scalar_string_search`; instantiated by `QueryPath` |
| `ScratchStorage` | `ScratchStorageService` under concurrent requests and restarts |
| `ScratchStorageProofs` | proofs about `ScratchStorage` |
| `PushPath` | composes `LokiController.pushLogs`, the broadcaster, the tail sessions, the gRPC client and the core's end of a stream |
| `PushPathProofs` | proofs about `PushPath` |
| `MC*` | constants and bounds for TLC |

Each `MC` module extends the module it instantiates; operators commented
`Mutant:` are deliberate errors, placed before the definition they stand in for
and used by no specification: each property of a passing run fails when its
mutant replaces the definition named in `PROJECT.json`.

### How state and actions correspond to the code

* **Ingester.**  Variables carry the names of the members and locals.  The ring
  is only touched under `queue_mutex_`, so each critical section is one action;
  a thread in `cv.wait` is in `asleep` until a notify (`WakeProducer`,
  `WakeConsumer`) or a spurious wakeup, and then tests its predicate again.
  `fault` records that `std::thread` threw, which the `catch` turns into an
  answer of 0.  Rows are records of the two fields; `first`, `parsed` and
  `executed` are history variables.
* **AdaptiveIngester.**  A cell is the caller's `shared_ptr`; every `atomic_load`
  and `atomic_store` is an action.  The log is a sequence of lines and a flag for
  an unfinished last line.  `StreamIngest` and `ag-lex` use the class with one cell
  and the same thread as producer and transcoder; the benchmarks use it with a
  background transcoder; the models cover both.  A crash loses everything but the
  file.  A restarted process may do what the durability test does, read the log and
  append what it held again (`Recover`), and may crash again while it does.  It may
  also append and transcode at once, which is what every other caller does: none of
  them calls `recover_from_wal`.  Its first `TruncateWal` then empties the log of
  lines it has never read (`unread`), and its first line is lost when it is written
  after an unfinished one; the history variable `forsaken` collects exactly these.
  Nothing in the code comes back to a cell, so the specification has no fairness and
  claims no progress.  `Chomped` takes the carriage return off a
  line's end, as reading the log does.  Lines with embedded newlines are left out,
  as is `fingerprint_hash`, which nothing reads.  `Kept` picks the non-empty lines by
  their rank among themselves, which is what a loop with `push_back` computes.
* **KafkaConsumer.**  `flushBuffer` is five steps (enter, copy, clear, send,
  leave) of an actor holding the monitor; `buffer.add` needs no monitor, and
  `raced` remembers the records it added between another thread's copy and clear.
  `container.stop()` may return at any time, because the container gives up after
  its shutdown timeout.
* **CoreService.**  `PrewarmCache` is split where other threads can see a
  difference: taking the lock, the hit, the failure, the mapping with its pin
  thread, the insertion.  A path names an inode with a length in blocks;
  `RewriteInPlace` is the exporter, `ReplaceFile` the scratch store.  Scanning past
  the end of a file that has shrunk kills the process.  Paths are canonical.
  `std::thread` may throw at both places where a pin thread is started
  (`HitThreadThrows`, `MapThreadThrows`).  The lock is released by its guard;
  `pin_in_progress` stays set, or the new mapping is left without an entry, which the
  history variables `stuck` and `lost` remember.  `ExecuteQuery` catches the exception
  and answers INTERNAL; the scan in `main` catches it and ends; in `StreamIngest` it
  reaches the gRPC library, which answers UNKNOWN.
* **QueryPlanner.**  One action per line of `ingest_chunk` and one per block of bit
  planes.  Memory is the set of the bits that are 1.  `WordBit` is the address
  ingestion computes, in words by bit and block, `ByteBit` the one promotion
  computes, in bytes by bit and row; `PlanesHoldRows` compares the two.  Row i of a
  promoted column is the i-th warm string of the group, not the string of document i,
  as in the code; `BlocksPresent` therefore counts the rows of each column by
  themselves.  That a promotion follows a passed threshold is how the class is meant to
  be called; `execute_compaction_promotion` does not test it.  A predicate
  is the set of leaves of its AND tree.  The Bloom filter is a set of (word, bit)
  pairs and the hash any function, so that collisions are part of the instance.
  `heat_registry` counts accesses to the promoted field; its score is in thousandths.
* **PlanCache.**  One action per outcome of a call.  An iterator in the map is a
  hash; `Node` is the position it stands for in the list, and eviction asks the map
  for its size, as the code does.
* **QueryPath.**  A LogQL query is what the three regular expressions find in it; a
  text is a sequence of tokens, in which `trim`, `contains()` and quotes are taken
  apart as `parse_query` does.  A document has two numeric fields, a message and
  other text; the string search reads `RawLine`, so it also finds a pattern outside
  the message, and counts a pattern as often as it stands in a line.  Documents,
  queries and texts are sequences over any set of tokens; TLC is given a few of them.
  A number in a document is its whole part and whether a fraction follows: the
  scans take it with `get_uint64`, for which a negative, too large or fractional number
  counts as 0, the Java readers with `intValue()`, which keeps the low bits of a whole
  number and cuts a fraction off.  `ExecuteQuery` guesses the number of columns of an
  `.agb` file from its size.  1,996,800,000 bytes mean three columns, and a two-column
  export of 1,950,000 blocks has that size: it is then read as `ThreeColumns`, which
  loses a third of its columns and takes statuses for latencies.
  `getMatchingEvents` reads any part of the JSON lines beside the file, none of them when
  there is no such file, or those of `benchmark_logs.json` (`Readable`).
* **StringSearch.**  One step is one turn of the loop: the first candidate `memchr`
  returns, the comparison, and the move past the match or by one.
* **ScratchStorage.**  Nothing is locked, so each access to the directory or to
  `accessTimes` is an action, except that the walk over the directory is one and that
  checking, measuring and deleting one file are one; a file is a name, the URI it was
  made from, its size so far and the thread that has it
  open.  `Files.copy(REPLACE_EXISTING)` is delete, create, and one `Copy` per buffer; a
  file deleted under its writer goes on without a name.  `currentSize` is a Java `long`
  and may fall below zero, when a file has grown between the measurement and its
  deletion.  `CopyFails` and `Restart` leave what has been
  written.  `getCacheSizeInBytes` counts pairs of a name and the number of a byte,
  which is the sum of the sizes.  Sizes that cannot be read count as 0, up to the whole
  directory (`Misread`), and a file that vanishes under the walk ends the request
  (`MeasureThrows`); a file that cannot be deleted is passed over (`EvictFails`).
  `untracked`, `strays` and `misjudged` are history variables: the names whose access
  time was lost; those of them that are asked for again while their file is there, and
  those that could not be deleted; the number of measurements that came out too small.
* **PushPath.**  `call[t]` holds a thread's locals.  The loop over the map may come to
  any entry that was there when it began or is there now, must come to those that
  were and are, and needs one action to begin a send and one to end it, so that two
  threads can meet in a session.  `received` holds, per session, the batches it
  got a message of, in order; which lines a message holds is determined by both.
  `LatchOpens` is `onCompleted`, `onError` or the time
  limit, whichever comes; `CoreReads` and `CoreAnswers` are the core.  `stored` counts the
  lines `StreamIngest` has read and transcoded; it drops the row group after each chunk,
  although a comment in `LokiController` (line 117) speaks of writing index files, so
  that `AckedIsStored` says that a batch was taken in, and not that it can be queried.
  Sending a chunk may throw (`StagingFails`), also after others have gone out.  Bad
  labels stand for every line on which `matches` throws, a line that is the JSON `null`
  included.  A message is the part of a whole batch that is meant for its session.

## 3. Runs

| Run | Shows | Bounds, and why they suffice |
|---|---|---|
| `Ingester_pipeline` | ring contents, wakeups, ending order, exact count; every call returns; refinement of `ScanSpec` | blocks of 2 and a ring of 2: all streams up to 3 documents, and two of 10 and 11, which fill the ring while both threads hold a block, wrap the indices and end in a full and in a partial block; any number of calls on one object |
| `Adaptive_sequential` | durability and an exact depth when one batch is processed at a time, in processes that read the log they find and, but for what they so lose, in those that do not | two batches, with a line that ends in CR and one that is nothing else; three crashes, so that a replay can itself be interrupted; a counter too large to wrap |
| `Adaptive_readers` | readers find complete groups | two transcoders and the daemon (two promotions) on two cells, failing log writes; groups of 2 rows and a batch of 3 lines; a counter of 0..7, which wraps when two transcoders subtract the same group |
| `Kafka_flush` | order, at most once, bounded buffer, losses only in the window between copy and clear; a partial batch drains, stopping ends | five records in batches of two: a flush of each thread and a partial batch |
| `Core_service` | one mapping per path, pin bookkeeping; pins settle, queries are answered, also when pin threads cannot be created | two handlers, one `.agb` and one text path, two requests after the startup scan of `main` (so that the pin of a startup can fail and be retried by one request while the other waits), one rewrite or replacement; no symmetry, since liveness is checked |
| `Planner_sound` | sound pruning, presence bits, bit planes | all batches up to 3 of five documents over three blocks of 2, and batches that fill or overflow the group; conjunctions of two leaves; words and bytes of 2 bits; hashes chosen so that two strings cover a third; `MaxAccesses` 2, which reaches the promotion threshold |
| `PlanCache_lru` | exact LRU | four hashes, capacity 3 |
| `Query_full` | the readers of a query agree; the search counts every occurrence it can | files up to two of eleven documents, documents whose numbers are negative, fractional, or beyond an int or 64 bits, some files of three and all of five lines with two documents (five fill the size that is taken for three columns), and up to two lines with every message of up to three letters or none; JSON lines read in full, in part, not at all, or those of the benchmark file; patterns that overlap themselves, have a false start, or blanks, and typed queries with quotes and `contains()`; blocks of 2 |
| `Scratch_cache` | tracked files, complete hits, a bound on what eviction can find and delete | two threads, three requests of four URIs of which two share a name, sizes 1 and 2 under a limit of 2, so that eviction and a download always meet; one restart, one measurement that comes out too small, any number of failed deletions |
| `Push_path` | 204 only for a stored batch; tail sessions get exact and complete batches; every push is answered | one pushing and one background thread, two sessions with lines in the same batch; a batch of two chunks, and one with a label that is no string; `batchSize` 2 |

So that a run says one thing about types and not five, the type invariants of
`AdaptiveIngester`, `KafkaConsumer`, `CoreService`, `ScratchStorage` and `PushPath` are
the first conjunct of `CellsKeepTheirBatch`, `HandedInOrder`, `NoMappingLeaks`,
`CacheBounded` and `TailExact`.

Deadlock is checked in the `Ingester` and `PlanCache` runs.  Elsewhere the bounds
on crashes, records, requests or documents end a behaviour, and the configuration
says so.

Two further runs each check one statement that a comment, an interface or a
test makes and that the code does not keep; `PROJECT.json` quotes the statement
and says what the trace shows.

* `Adaptive_truncation`: with two batches staged, transcoding one empties the log
  on which the other still depends.
* `Core_stale`: a query is answered from a mapping of a file that has since been
  replaced or has changed its size.

### Conditions of the passing runs

The constants of a passing run are also the conditions under which its properties
hold.  Where the code is used outside them:

* `Adaptive_sequential` has one cell, one thread and a log that can be opened.  Its
  durability is of use only to a caller that reads the log when it starts: the service,
  `ag-lex` and the benchmarks do not, and what a crash has left them in it is lost.
  `append_raw_batch` ignores a failed log write, a second batch falls under
  `Adaptive_truncation` (the streams of the core service share one log in the same
  way), and a replay logs recovered lines a second time, so that a later recovery
  may return a line twice.  `DepthExact` needs a single transcoder.
* `Adaptive_readers`: `ingest_chunk` drops the lines past 1024 blocks, so a compacted
  group may be a prefix of what was staged, of exactly that length.  A promotion may
  put back the raw group it copied; its lines are complete, and stay raw unless
  the caller transcodes the cell again.
* `Kafka_flush`: a record added between the copy and the clear of another thread's
  flush is lost; `LostOnlyInWindow` says that no other is.  A batch whose broadcast or
  ingestion throws is logged and dropped.
* `Core_service`: a pin thread that cannot be created leaves `pin_in_progress` set for
  good, so that the file is never pinned, or a mapping that is never unmapped; the
  properties say that this happens in no other way.  A stream's lines live in a row
  group that is dropped when the chunk has been transcoded, and its log is shared with
  every other stream; no property claims that they can be read afterwards.
* `Planner_sound` uses the leaves `status ==`, `status >`, `latency >` and
  `trace_id ==` on groups that are being or have been transcoded.  A numeric
  equality on another field is looked up in the zone map of status; the filter
  holds a service only of documents without a `trace_id`, and nothing of a raw
  group.
* `Query_full` asks for a status with `=` and a latency with `>` where it compares
  counts (`Expressible`), of documents whose numbers are unsigned 64-bit integers, and
  ints where the Java readers are compared (`Whole`).  Beyond an int, `intValue()`
  wraps, and the tail and the event list select other documents than the scan.  An
  `.agb` file of the one size taken for three columns is excluded; its count is wrong.
  The events are those of the JSON lines that were read: where there are none, fifty
  events are made up although the `.agb` file may hold matches.  The translation drops
  other operators, the engine compares a target that is not given with 0, and the
  `.agb` scan does not look at a text search.  A document without a status has the row
  of one with status 0, so that `status = 0` is compared only where every document has
  one.  The search agrees with the live tail for filters without blanks around them
  that stand only in messages, once in each: it counts occurrences in whole lines, the
  tail counts messages.  A pattern with a newline in it would also be found across two
  lines; `Once` excludes it.
* `Scratch_cache`: a hit may be partial while its download is under way and after one
  has broken, may be the file of another URI with the same name, and may be deleted
  by an eviction after its path was returned.  A restart forgets the access times, so
  that eviction does not find the older files; so does an eviction whose `remove`
  comes after a new request for the name.  `CacheBounded` counts neither of them, nor
  such a file after it was asked for again, until it is deleted: another eviction may
  have taken its list of names while the file was missing from it.  Nor does it count
  a file that could not be deleted, until it is, and it allows one file for each
  measurement that came out too small.  `url.openStream()` is called without a
  connect or read timeout, so that a request may wait for a stalled server for ever:
  no property claims that requests end.
* `Push_path`: an unchecked exception in `broadcastLogs` costs the batch its ingestion
  and the sessions further on their lines; `TailComplete` speaks of broadcasts that
  went through.  A push answered with 500 may have been stored in part or completely.

### Fairness

* `Ingester`: weak fairness of both threads; the operating system schedules
  runnable threads.  Queries, thread-creation failures and spurious wakeups are
  never obliged to happen.
* `AdaptiveIngester`: none.  Callers transcode a group once, and nothing returns to a
  raw one.
* `KafkaConsumer`: threads run and the 100 ms timer fires (weak); a monitor that is
  free again and again is granted (strong).
* `CoreService`: startup, handlers and pin threads run, and a mutex that is free again
  and again is granted (strong); `mlock` returns.  Creating a thread need not
  fail, and need not succeed.  No client is obliged to send, nor
  any program to rewrite a file.
* `ScratchStorage`: none, since a download may neither end nor break.
* `PushPath`: threads that hold a batch run (weak): sends return, and the latch opens
  because it has a time limit.  Staging is not obliged to fail, nor the core to read
  or to answer.

## 4. Proofs

All proofs are checked by TLAPS for every value of the constants that satisfies
the named assumptions.

**`IngesterProofs`** (from `SizesAssumption`, `FilesAssumption`,
`TargetsAssumption`: positive block size and ring capacity, files are document
streams, targets are naturals).  None of the properties is inductive alone: that a
popped block carries the right rows depends on where every block in the ring
starts, that no wakeup is lost on where the threads are, that the count is exact
on all of it.  The inductive invariant `IInv` is the conjunction of

* `TypeOK`;
* `Control`: which positions of the two threads go together (a consumer that is
  publishing or done implies an empty ring and a producer past its signal, ...);
* `RingCarriesEveryRow`: the blocks from `tail_` to `head_` are consecutive slices
  of the rows extracted, starting where the consumer stands;
* `NoLostWakeup`;
* `Building`: the block under construction continues where the ring ends;
* `Counting`: what has been evaluated equals the hits among the rows evaluated, and
  the hits among the rows extracted equal those among the documents read.

One lemma per conjunct shows that a step preserves it, with `PushKeepsRing` and
`PopKeepsRing` for the modular arithmetic of the ring and `ExecuteCounts`,
`ParseCounts` for cardinalities.  From `Inductive` follow `TypeCorrect`,
`RingCorrect`, `WakeupsCorrect`, `ConsumerCorrect`, `CountCorrect` and
`Refinement`: every step of the pipeline is a step of `ScanSpec` or leaves its
variables unchanged.

**`QueryPlannerProofs`** (from `PlannerAssumption`).  The invariant `IInv` adds to
`TypeOK` that the metadata cover every ingested row
(`MetadataCover`): status and latency lie within their zone maps and the bits of
the string are set; and that no more rows are ingested than a group holds, without
which `set_block_presence` would ignore a row's block.  `Division`, `Product`, `Sizes`,
`Addresses` and `BitPlaces` show that addresses and bit positions are naturals for
any word, byte, block and group size; `IngestRowPreserves`, `WriteBlockPreserves` and
`PromotePreserves` are the steps that change the group.  Pruning reads only metadata,
so soundness of a leaf follows from covering one document (`RejectedLeaf`,
`PruningCorrect`), for all batches, all hashes, and all predicates of supported
leaves over transcoded groups; section 3 says why both conditions are needed.

`PlanesCorrect` needs that a plane is a whole number of bytes (in the code 65,536 bits,
8192 bytes).  `AddressesAgree` brings the word address of ingestion and the byte address
of promotion to one form, `(slot * kWordBits + bit) * kRows + row`, and `PlacesApart`
shows that it determines slot, bit and row.  The invariant `PInv` adds to
`PlanesHoldRows` that blocks are written in order, a promotion comes last, and the
Bloom filter has every warm string: otherwise a row would be missing from the
promoted column.

`PresenceCorrect` adds `Marked`: the presence bits of a slot are those of the blocks of
its rows (`RowsOf`), which for a promoted slot are the warm strings.  `RowBlock` and
`BlockBits` show that every bit of a plane lies in the block of its row, so that with
`PlanesHoldRows` no 1 lies in a block that is not marked.

About `PlanCache` the same module proves, from `CapacityAssumption` (a positive
capacity), four facts together.  `Aligned` says
that the list is the front part of the recency order, `Distinct` that no hash stands
in it twice, `InMap` that the map indexes exactly the list, `Current` that each entry
has the latest plan.  The lemmas on sequences give `push_front`, `splice` to the front
and `pop_back` by position (`Shifted`).  `MapCorrect`, `EvictionCorrect` and
`LookupCorrect` follow for every capacity and every sequence of calls.

**`KafkaConsumerProofs`** (from `KafkaAssumption`: a positive batch size, any number
of records).  `IInv` adds to `TypeOK` and `LostOnlyInWindow`

* `Exclusion`: whoever is inside `flushBuffer` owns the monitor;
* `Ordered`: handed, copied and buffered offsets are increasing, and each of the
  three lies below the next;
* `Window`: what the buffer has beyond a thread's copy was added since, by the
  listener, and is in `raced`;
* `Room`: where the listener stands when the buffer is full.

`Ordered` is needed for `HandedInOrder`, because order among the records handed on
depends on the copies still in hand, and `Window` for both the order and the losses.
`OrderCorrect`, `BoundCorrect` and `LossCorrect` follow, for three threads and any
interleaving of `add`, copy and clear.

**`CoreServiceProofs`** (from `CoreAssumption`: the `.agb` paths are finitely many and
every one has an inode at the start, handlers are none of the program's own threads).
`Guarded` says that a thread between the locked lines owns `cache_mutex_`;
`MappedOnce` that the mappings made of a path are those in the cache, the one in the
hands of the thread that is inserting it, and those left behind by a pin thread that
could not be created.  With `PinBookkeeping` they are inductive, and give
`MappingsCorrect` (no second mapping, none lost otherwise) and `PinsCorrect`, in which
a failed creation accounts for exactly one flag that stays set.

**`PushPathProofs`** (from `PushAssumption`: batches are sequences of lines, chunks are
not empty).  `Owned` says that a batch is with one thread, answered or still to come;
`Registered` that an open session leaves the map only when it is closed;
`CallsRight` what a thread at each step has passed, sent and stored.  Together with
the three properties they are inductive: that a session gets no batch twice needs
that no other thread has the batch and that this thread's iterator has not passed
the session.  `AckCorrect`, `TailOnce` and `TailReaches` hold for any number of
threads, sessions and batches.

**`ScratchStorageProofs`** (from `ScratchAssumption`: names are given by any function of
the URIs, sizes are positive).  `NotWritten` and `OpenRight` say that a file is open
only by the request that copies into it, with as many bytes as that request has
written; `RequestsTracked` that the names of requests under way have an access time or
have lost it to an eviction; `ClosedRight` that a closed file is complete or was
broken off.  From them follow `TrackingCorrect` and `HitsCorrect`, although no step is
locked and any number of requests replace, evict and copy the same names.

`CacheBounded` needs an account of what is still to come.  `Admitted` are the requests
past eviction, each of which may add one file; an open file belongs to an admitted
request (`OpenBytes`).  `Evicting` are those that have measured the directory and not
yet come under the limit; what they think the size is may be outdated in both
directions.  `Budget` says, of every set `T` of evicting requests, with `b` the room
for one file for each request that is neither admitted nor in `T`, and for each
measurement that came out too small: either the closed
files are below the limit plus `b`, or some request in `T` knows all but `b` of them, in
its list of names and in its measurement, and so will delete the rest; a file it fails to
delete is counted no longer.  It must speak
of every `T`, because any of them may be the next to be admitted.  A step adds to the
closed files only by closing one, and then its request is admitted no longer (`Quiet`);
a request is admitted only when what it knows is below the limit (`Joins`); a deletion
takes from what others know only an open file, whose request then adds nothing
(`DeleteBudget`).  The lemmas on `Amount` do the sums, as cardinalities of sets of
pairs.  `BudgetInductive` and `BoundCorrect` follow.

**`QueryPathProofs`** (from `LimitsAssumption` and `InputsAssumption`: a positive
block size and event limit; documents, queries and texts over any tokens; numbers of
any size, whole or not).  `PathInv` says of every stage that its result is the function
of the earlier results that the code computes, and of a search under way that it is at
its best (`SearchCorrect`): the occurrences found are disjoint, and no choice of
disjoint occurrences up to where the search stands has more.  That is the exchange
argument for a search that always takes the first occurrence.  `CountsCorrect` follows
a file through packing, padding and blocks and compares the scans with the documents
the labels select, of any file of unsigned 64-bit numbers that has not the one size
taken for three columns.  `LinesCorrect` maps lines to occurrences: with `Once`, one to
one.  `TailCorrect` and `EventsCorrect` compare the other two readers of the query,
where the numbers are ints, so that `intValue()` keeps them, and need that
`parse_query` gets back what `parse` wrapped.  What a recursive function does for all
lengths, as in `Lists` and in the concatenation of lines, is proved by taking the
least length at which it would fail.

**`AdaptiveIngesterProofs`** (from `BatchesAssumption`, `BoundsAssumption`: batches are
not empty, a carriage return can be cut off a line, group size and counter modulus are
positive).  `CellsHold` and `InHand` say that a cell and the group a thread has loaded
from it hold the batch staged there last, raw or as far as a group has room;
`Alone` that a cell that is being filled is used by no other thread, which is how
callers hand out row groups; `Quiet` that a process that has just started works on
nothing.  `CellsCorrect` follows for any number of cells and threads of each kind,
also when the log cannot be written.

`LogCorrect` is durability under `OneAtATime`: one row group under way, a log that can
be opened, and no line that ends in two carriage returns (each replay through
`recover_from_wal` takes one off).  Each condition is needed: `Adaptive_truncation`
shows what a second group does, a log that cannot be opened never gets the line, and
two carriage returns come back as one and then as none.  `DInv` adds that the
unfinished line exists only until recovery, and what is uncommitted is in the hands of
whoever is about to truncate the log (`LoggedRight`, `LoadedRight`,
`StagedRight`).  Lines a crash has left in the log are there until it is truncated
(`unread`), and are then forsaken if no one has read them; this is all that the
theorem excuses.  Batches, threads and the number of crashes are arbitrary.

`DepthCorrect` is the backpressure counter under `OneTranscoder` (one transcoding
thread and no promotion; two transcoders may take the same group off twice).
`BacklogInv` adds to it that the group the transcoder has loaded is still the one in the
cell until it replaces it (`Loaded`), so that what it takes off is what the counter had
been raised by, and that the backlog is finite.

**Only model-checked** are the liveness properties (`QueryReturns`, `BufferDrains`,
`StopEnds`, `PinSettles`, `QueryAnswered`, `PushAnswered`), since fairness and ENABLED
are beyond the prover.  Every invariant of a passing run is also a theorem;
`UncommittedDurable`, `DepthExact` and `PruningSound` under the condition that their
theorems name.

## 5. Not modelled

The apex engine and simdjson are not in the repository's own code; the filter is taken
to count the rows it is asked to, over the first `count` rows of a block, and the
width argument of its field descriptors (64 in `ingester.cpp`, 8 in
`service_impl.cpp`) is not interpreted.  The arithmetic of the Bloom filter's hash,
timing and throughput figures, logging and thread priorities carry no property stated
here.  The file with three columns that `bench_native_scan` generates, for whose size
the number of columns is guessed, is left out: an `.agb` file of the models is one that
the exporter has written.  `Ingester` on a machine where creating the file mapping
succeeds but reading it faults is not considered.  The destructor of the core service is
not reached while the server runs.

Of the storage classes, signed and floating-point zone maps, `reset()` and moves are
left out because nothing calls them, and the reference count of a row group because
nothing tests it.  The `.idx` file beside an `.agb` file has no reader.  Of
`ScratchStorageService`, local paths (returned as they are) and the mock file
written when a simulated S3 source does not exist are left out; of `LokiController`,
the 400 for a body that is no JSON, the labels added to each line and the read-only
endpoints; of `MockIngestionSimulator`, start, stop and rate, so that it is a thread
that pushes.  Benchmarks and examples drive the components above and keep no state;
the Spring configuration is declarative.

## 6. Further work

The modules were written in the order `Ingester` (with its abstract specification),
`AdaptiveIngester`, `KafkaConsumer`, `CoreService`, `QueryPlanner`, `PlanCache`,
`QueryPath`, `StringSearch`, `ScratchStorage`, `PushPath`, and all their invariants are
proved.  What could follow:

1. An abstract durable queue that `AdaptiveIngester`'s sequential use implements.
2. An abstract cache that `ScratchStorage` implements for a single request thread,
   where no file can become a stray.
3. The simulator's start and stop.
