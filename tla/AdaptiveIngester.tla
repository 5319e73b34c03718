--------------------------- MODULE AdaptiveIngester ---------------------------
(***************************************************************************)
(* The staging path of eureka::lex::ingest: append_raw_batch logs a batch  *)
(* in the write-ahead log and stages it as a raw row group; a background   *)
(* transcoder replaces the raw group by a bit-sliced one and truncates the *)
(* log; the promotion daemon rewrites a group out of place; after a crash  *)
(* the log is read back and replayed.                                      *)
(*                                                                         *)
(* A row group is published through a shared_ptr cell with atomic_load and *)
(* atomic_store and never changed afterwards, so every load and every      *)
(* store is one action and the work in between is local to its thread.     *)
(* The log is only touched under wal_mutex: each of its operations is one  *)
(* action, except that a crash can cut an append short.                    *)
(***************************************************************************)
EXTENDS Integers, SequencesExt, FiniteSetsExt

CONSTANTS
    Producers, Transcoders, Promoters,  \* threads, by what they call
    Cells,            \* the shared_ptr<RowGroup> slots the caller keeps
    Lines,            \* log lines
    Batches,          \* the batches of log lines producers append, each once
    Blank,            \* a line with no characters
    Fragment,         \* a line an interrupted write has left unusable
    Chomped,          \* a line without the carriage return at its end
    HotSlots,         \* the slots a field may be promoted to
    RowGroupRows,     \* rows a row group holds (1024 blocks of 64)
    DepthModulus,     \* 2^64: active_buffer_depth is a size_t
    WalMayFail,       \* whether opening the log may fail
    MaxCrashes, MaxPromotions

Threads == Producers \cup Transcoders \cup Promoters

LogLines == Lines \cup {Blank, Fragment}

ASSUME BatchesAssumption ==
    /\ Batches \subseteq Seq(Lines) \ {<<>>}
    /\ Chomped \in [LogLines -> LogLines]
    /\ Blank # Fragment /\ Chomped[Blank] = Blank /\ Chomped[Fragment] = Fragment

ASSUME BoundsAssumption ==
    /\ RowGroupRows \in Nat \ {0} /\ DepthModulus \in Nat \ {0}
    /\ MaxCrashes \in Nat /\ MaxPromotions \in Nat
    /\ WalMayFail \in BOOLEAN
    /\ Cells # {}

VARIABLES
    wal,                  \* the complete lines of current_wal_file
    walTail,              \* the file ends in an unfinished line
    rg,                   \* what each cell points to
    active_buffer_depth,
    pc, at, lines, old_rg,  \* per thread: step, cell, lines in hand, group loaded
    restarted,            \* the process has been restarted and has done nothing yet
    unread,               \* lines a crash has left in the log, not read since
    todo,                 \* batches not yet appended
    acked, committed,     \* history: lines acknowledged, lines once transcoded
    forsaken,             \* history: lines lost for not having read the log
    batchOf,              \* history: what was staged in each cell
    crashes, promotions   \* bounds

walVars == <<wal, walTail>>
threadVars == <<pc, at, lines, old_rg>>
history == <<acked, committed, forsaken, batchOf>>
vars == <<walVars, rg, active_buffer_depth, threadVars, restarted, unread, todo, history,
          crashes, promotions>>

-----------------------------------------------------------------------------
(* Row groups.  `slots' are the promoted columns; fingerprint_hash, which   *)
(* nothing reads, is left out.                                              *)

NullPtr == [kind |-> "null"]

RowGroup(raw, rows, compacted, slots) ==
    [kind |-> "group", raw_chunk_buffer |-> raw, rows |-> rows,
     is_compacted |-> compacted, slots |-> slots]

StagedGroup(batch) == RowGroup(batch, <<>>, FALSE, {})

\* ingest_chunk: the rows past the last block of the group are dropped.
ingest_chunk(batch) ==
    SubSeq(batch, 1, IF Len(batch) <= RowGroupRows THEN Len(batch) ELSE RowGroupRows)

TranscodedGroup(group) ==
    RowGroup(<<>>, ingest_chunk(group.raw_chunk_buffer), TRUE, {})

\* The copy the promotion daemon writes: a column appears only when the group
\* has warm strings to promote.
PromotedGroup(group, slot) ==
    RowGroup(group.raw_chunk_buffer, group.rows, group.is_compacted,
             IF ToSet(group.rows) \subseteq {Blank, Fragment}
               THEN group.slots ELSE group.slots \cup {slot})

IsNull(c) == rg[c] = NullPtr

IsRaw(c) == ~IsNull(c) /\ ~rg[c].is_compacted

\* What a reader of the cell finds, in either representation.
Contents(group) == IF group.is_compacted THEN group.rows ELSE group.raw_chunk_buffer

-----------------------------------------------------------------------------
(* The log file.  Appending after an unfinished line glues the first new    *)
(* line to it: neither survives.                                            *)

Glued(batch) == IF walTail THEN <<Fragment>> \o Tail(batch) ELSE batch

\* Mutant: the file is opened without ios::app.
Overwritten(batch) == Glued(batch)

Appended(batch) == wal \o Glued(batch)

\* The lines of a log that are not empty, as SelectSeq gives them: the n-th is
\* the one with n of them up to it.
Rank(i, positions) == Cardinality({j \in positions : j <= i})
Kept(log) ==
    LET nonEmpty == {i \in DOMAIN log : log[i] # Blank}
    IN  [n \in 1..Cardinality(nonEmpty) |->
            log[CHOOSE i \in nonEmpty : Rank(i, nonEmpty) = n]]

\* recover_from_wal: every non-empty line, an unfinished last one included,
\* without its carriage return.
recover_from_wal ==
    LET kept == Kept(wal \o IF walTail THEN <<Fragment>> ELSE <<>>)
    IN  [i \in DOMAIN kept |-> Chomped[kept[i]]]

-----------------------------------------------------------------------------
Init ==
    /\ wal = <<>> /\ walTail = FALSE
    /\ rg = [c \in Cells |-> NullPtr]
    /\ active_buffer_depth = 0
    /\ pc = [t \in Threads |-> "idle"]
    /\ at = [t \in Threads |-> CHOOSE c \in Cells : TRUE]
    /\ lines = [t \in Threads |-> <<>>]
    /\ old_rg = [t \in Threads |-> NullPtr]
    /\ restarted = FALSE /\ unread = {}
    /\ todo = Batches
    /\ acked = {} /\ committed = {} /\ forsaken = {}
    /\ batchOf = [c \in Cells |-> <<>>]
    /\ crashes = 0 /\ promotions = 0

Busy(c) == \E t \in Threads : pc[t] # "idle" /\ at[t] = c

\* A caller keeps a returned group in a cell of its own: an empty one, or one
\* whose group is done with.
FreeCell(c) == ~Busy(c) /\ ~IsRaw(c)

\* While its producer is about to replace what a cell holds, nobody else is
\* given it.
HandedOut(c) == \E t \in Producers : pc[t] = "logged" /\ at[t] = c

\* append_raw_batch, first step: the batch goes to the log.  When the file
\* cannot be opened append_wal_entry returns false, which nobody looks at.  A
\* restarted process may append without having read the log, as StreamIngest
\* and ag-lex do: what it writes after an unfinished line is lost with that.
AppendWal(t, batch, c) ==
    /\ t \in Producers /\ pc[t] = "idle"
    /\ batch \in todo /\ FreeCell(c)
    /\ \/ /\ wal' = Appended(batch) /\ walTail' = FALSE
          /\ forsaken' = forsaken \cup IF walTail THEN {Head(batch)} ELSE {}
       \/ WalMayFail /\ UNCHANGED <<walVars, forsaken>>
    /\ restarted' = FALSE
    /\ pc' = [pc EXCEPT ![t] = "logged"]
    /\ at' = [at EXCEPT ![t] = c]
    /\ lines' = [lines EXCEPT ![t] = batch]
    /\ todo' = todo \ {batch}
    /\ UNCHANGED <<rg, active_buffer_depth, old_rg, unread, acked, committed, batchOf,
                   crashes, promotions>>

\* Mutant: the depth counts batches.
BatchRaises(batch) == 1

RaisedBy(batch) == Len(batch)

\* append_raw_batch, the rest: the raw group is built, the depth raised and
\* the group returned, which acknowledges the batch.
StageBatch(t) ==
    /\ pc[t] = "logged"
    /\ rg' = [rg EXCEPT ![at[t]] = StagedGroup(lines[t])]
    /\ active_buffer_depth' = (active_buffer_depth + RaisedBy(lines[t])) % DepthModulus
    /\ acked' = acked \cup ToSet(lines[t])
    /\ batchOf' = [batchOf EXCEPT ![at[t]] = lines[t]]
    /\ pc' = [pc EXCEPT ![t] = "idle"]
    /\ UNCHANGED <<walVars, at, lines, old_rg, restarted, unread, todo, committed, forsaken,
                   crashes, promotions>>

\* Mutant: a compacted group is transcoded as well.
AnyGroup(c) == ~IsNull(c) /\ ~HandedOut(c)

HasWork(c) == IsRaw(c)

\* transcode_batch_now: nothing to do for no group or a compacted one.
LoadForTranscode(t, c) ==
    /\ t \in Transcoders /\ pc[t] = "idle"
    /\ HasWork(c)
    /\ pc' = [pc EXCEPT ![t] = "transcode"]
    /\ at' = [at EXCEPT ![t] = c]
    /\ old_rg' = [old_rg EXCEPT ![t] = rg[c]]
    /\ UNCHANGED <<walVars, rg, active_buffer_depth, lines, restarted, unread, todo, history,
                   crashes, promotions>>

SwapTranscoded(t) ==
    /\ pc[t] = "transcode"
    /\ rg' = [rg EXCEPT ![at[t]] = TranscodedGroup(old_rg[t])]
    /\ committed' = committed \cup ToSet(old_rg[t].raw_chunk_buffer)
    /\ pc' = [pc EXCEPT ![t] = "drain"]
    /\ UNCHANGED <<walVars, active_buffer_depth, at, lines, old_rg, restarted, unread, todo,
                   acked, forsaken, batchOf, crashes, promotions>>

\* fetch_sub on a size_t wraps.
Lowered(n) == (active_buffer_depth - n) % DepthModulus

DrainDepth(t) ==
    /\ pc[t] = "drain"
    /\ active_buffer_depth' = Lowered(Len(old_rg[t].raw_chunk_buffer))
    /\ pc' = [pc EXCEPT ![t] = "truncate"]
    /\ UNCHANGED <<walVars, rg, at, lines, old_rg, restarted, unread, todo, history,
                   crashes, promotions>>

\* truncate_wal empties the whole file, whatever batches it holds: lines too
\* that are left there from before a restart.
TruncateWal(t) ==
    /\ pc[t] = "truncate"
    /\ wal' = <<>> /\ walTail' = FALSE
    /\ forsaken' = forsaken \cup unread /\ unread' = {}
    /\ pc' = [pc EXCEPT ![t] = "idle"]
    /\ UNCHANGED <<rg, active_buffer_depth, at, lines, old_rg, restarted, todo, acked, committed,
                   batchOf, crashes, promotions>>

\* execute_compaction_promotion: load, copy and rewrite, store.
LoadForPromotion(t, c) ==
    /\ t \in Promoters /\ pc[t] = "idle"
    /\ promotions < MaxPromotions
    /\ ~IsNull(c) /\ ~HandedOut(c)
    /\ pc' = [pc EXCEPT ![t] = "promote"]
    /\ at' = [at EXCEPT ![t] = c]
    /\ old_rg' = [old_rg EXCEPT ![t] = rg[c]]
    /\ promotions' = promotions + 1
    /\ UNCHANGED <<walVars, rg, active_buffer_depth, lines, restarted, unread, todo, history, crashes>>

StorePromoted(t, slot) ==
    /\ pc[t] = "promote"
    /\ rg' = [rg EXCEPT ![at[t]] = PromotedGroup(old_rg[t], slot)]
    /\ pc' = [pc EXCEPT ![t] = "idle"]
    /\ UNCHANGED <<walVars, active_buffer_depth, at, lines, old_rg, restarted, unread, todo,
                   history, crashes, promotions>>

\* A crash loses every row group and leaves the file.
Restart ==
    /\ crashes < MaxCrashes
    /\ crashes' = crashes + 1
    /\ restarted' = TRUE /\ unread' = ToSet(wal')
    /\ rg' = [c \in Cells |-> NullPtr]
    /\ batchOf' = [c \in Cells |-> <<>>]
    /\ active_buffer_depth' = 0
    /\ pc' = [t \in Threads |-> "idle"]
    /\ UNCHANGED <<at, lines, old_rg, todo, acked, committed, forsaken, promotions>>

Crash == UNCHANGED walVars /\ Restart

\* A crash inside append_wal_entry, of a new batch or of the replayed one:
\* some lines are written, and perhaps a part of the next one.
CrashInAppend(t, batch, n, torn) ==
    /\ t \in Producers /\ pc[t] = "idle"
    /\ batch \in todo \/ (restarted /\ batch = recover_from_wal)
    /\ n \in 0..Len(batch) - 1 /\ (n > 0 \/ torn)
    /\ wal' = IF n > 0 THEN Appended(SubSeq(batch, 1, n)) ELSE wal
    /\ walTail' = torn
    /\ Restart

\* A restarted process that begins with reading the log, as the durability
\* test does and no other caller: when it holds anything, it is replayed
\* through append_raw_batch, which logs the same lines again.
Recover(t, c) ==
    /\ t \in Producers /\ restarted
    /\ restarted' = FALSE /\ unread' = {}
    /\ IF recover_from_wal = <<>>
         THEN UNCHANGED <<walVars, threadVars>>
         ELSE /\ wal' = Appended(recover_from_wal) /\ walTail' = FALSE
              /\ pc' = [pc EXCEPT ![t] = "logged"]
              /\ at' = [at EXCEPT ![t] = c]
              /\ lines' = [lines EXCEPT ![t] = recover_from_wal]
              /\ UNCHANGED old_rg
    /\ UNCHANGED <<rg, active_buffer_depth, todo, history, crashes, promotions>>

Transcode(t) == SwapTranscoded(t) \/ DrainDepth(t) \/ TruncateWal(t)

Next ==
    \/ \E t \in Producers, batch \in Batches, c \in Cells : AppendWal(t, batch, c)
    \/ \E t \in Threads : StageBatch(t) \/ Transcode(t)
    \/ \E t \in Transcoders, c \in Cells : LoadForTranscode(t, c)
    \/ \E t \in Promoters, c \in Cells : LoadForPromotion(t, c)
    \/ \E t \in Promoters, slot \in HotSlots : StorePromoted(t, slot)
    \/ Crash
    \/ \E t \in Producers, batch \in Batches \cup {recover_from_wal}, torn \in BOOLEAN :
          \E n \in 0..Len(batch) - 1 : CrashInAppend(t, batch, n, torn)
    \/ \E t \in Producers, c \in Cells : Recover(t, c)

Spec == Init /\ [][Next]_vars

-----------------------------------------------------------------------------
GroupSet ==
    [kind : {"group"}, raw_chunk_buffer : Seq(LogLines), rows : Seq(LogLines),
     is_compacted : BOOLEAN, slots : SUBSET HotSlots]

TypeOK ==
    /\ wal \in Seq(LogLines) /\ walTail \in BOOLEAN
    /\ rg \in [Cells -> GroupSet \cup {NullPtr}]
    /\ active_buffer_depth \in 0..DepthModulus - 1
    /\ pc \in [Threads -> {"idle", "logged", "transcode", "drain", "truncate", "promote"}]
    /\ at \in [Threads -> Cells]
    /\ lines \in [Threads -> Seq(LogLines)]
    /\ old_rg \in [Threads -> GroupSet \cup {NullPtr}]
    /\ restarted \in BOOLEAN /\ unread \subseteq LogLines
    /\ todo \subseteq Batches
    /\ acked \subseteq LogLines /\ committed \subseteq LogLines /\ forsaken \subseteq LogLines
    /\ batchOf \in [Cells -> Seq(LogLines)]
    /\ crashes \in 0..MaxCrashes /\ promotions \in 0..MaxPromotions

\* Readers load a cell at any moment, between any two steps of the
\* transcoders and the promotion daemon, and always find the lines staged
\* there, once and in order: no rewrite of a group loses or mixes them.  Only
\* the lines a row group has no room for are gone once it is transcoded.  (And
\* all variables keep their types.)
CellsKeepTheirBatch ==
    /\ TypeOK
    /\ \A c \in Cells : ~IsNull(c) =>
          /\ IsPrefix(Contents(rg[c]), batchOf[c])
          /\ \/ Contents(rg[c]) = batchOf[c]
             \/ rg[c].is_compacted /\ Len(Contents(rg[c])) = RowGroupRows

\* The backpressure counter is exact: it counts the lines of the raw groups
\* and of the ones swapped but not yet subtracted, and so never wraps below
\* zero.
UncompactedCells == {c \in Cells : IsRaw(c)}
Draining == {t \in Threads : pc[t] = "drain"}
RawLines(holders, groups) == UNION {{h} \X DOMAIN groups[h].raw_chunk_buffer : h \in holders}
Backlog == Cardinality(RawLines(UncompactedCells, rg)) + Cardinality(RawLines(Draining, old_rg))
DepthExact == active_buffer_depth = Backlog % DepthModulus

\* A line that was acknowledged and not yet transcoded can be read back from
\* the log, whenever the process stops, be it while it replays the log; only a
\* carriage return at its end may be gone.  What is lost is exactly what a
\* process loses that starts on a log without reading it: the lines there when
\* it transcodes for the first time, and its first line if the log ends in an
\* unfinished one.
UncommittedDurable ==
    {Chomped[l] : l \in acked} \ ({Chomped[l] : l \in committed \cup forsaken} \cup {Blank, Fragment})
        \subseteq ToSet(recover_from_wal)
=============================================================================
