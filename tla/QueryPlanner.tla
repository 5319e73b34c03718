---------------------------- MODULE QueryPlanner ----------------------------
(***************************************************************************)
(* A row group and its pruning.  ingest_chunk builds, line by line, the    *)
(* metadata of a row group: a zone map per numeric slot, a Bloom filter of *)
(* the strings, the presence bits of the blocks and the warm strings; and  *)
(* block by block the bit planes of the numeric slots.                     *)
(* QueryPlanner::evaluate_pruning decides from the metadata alone whether  *)
(* the group can be skipped; the promotion daemon derives a hot column     *)
(* from the warm strings.                                                  *)
(*                                                                         *)
(* Memory is the set of the bits that are 1: hot_data_planes by bit        *)
(* address, the Bloom filter and the presence bits by word and bit.        *)
(*                                                                         *)
(* evaluate_pruning of an AND is the conjunction of its children (a        *)
(* missing child counts as true) and has no effects, so a predicate is the *)
(* set of its leaves.                                                      *)
(***************************************************************************)
EXTENDS Integers, Sequences

CONSTANTS
    Batches,        \* what ingest_chunk may be given: sequences of documents
    Predicates,     \* what is asked: sets of leaves
    Strings,        \* values of string fields
    Missing,        \* a field that is absent or of the wrong type
    NoString,       \* the empty val_str
    murmur_hash3,   \* the two hashes (by seed) of a string: any function
    num_words,      \* words of the Bloom filter
    kU64Max,
    kWordBits, kByteBits,   \* bits of a uint64_t (64) and of a byte (8)
    kBlockRows,     \* rows of a block (64)
    kBlocks,        \* blocks of a group (1024)
    TargetSlot,     \* hot slot of the promotion
    QueriesStaged,  \* whether raw groups are queried too
    MaxAccesses     \* bound: recorded accesses to the promoted field

StatusSlot == 0
LatencySlot == 1
TraceSlot == 32

U64 == 0..kU64Max

Doc == [status : U64 \cup {Missing}, latency : U64 \cup {Missing},
        latency_ms : U64 \cup {Missing},
        trace_id : Strings \cup {Missing}, service : Strings \cup {Missing}]

Leaf == [op : {"EQ", "GT"}, field : {"status", "latency", "trace_id", "service"},
         val_u64 : U64, val_str : Strings \cup {NoString}]

ASSUME PlannerAssumption ==
    /\ kU64Max \in Nat /\ kBlockRows \in Nat \ {0} /\ kBlocks \in Nat \ {0}
    /\ kWordBits \in Nat \ {0} /\ kByteBits \in Nat \ {0}
    /\ (kBlocks * kBlockRows) % kByteBits = 0   \* a plane is a whole number of bytes
    /\ Missing \notin U64 /\ Missing \notin Strings /\ NoString \notin Strings
    /\ num_words \in Nat \ {0} /\ murmur_hash3 \in [Strings -> [h1 : Nat, h2 : Nat]]
    /\ Batches \subseteq Seq(Doc)
    /\ Predicates \subseteq SUBSET Leaf
    /\ TargetSlot \in Nat \ {StatusSlot, LatencySlot, TraceSlot}
    /\ QueriesStaged \in BOOLEAN /\ MaxAccesses \in Nat

VARIABLES
    stage,               \* none, staged, ingesting, done
    raw_chunk_buffer,    \* the lines handed over
    rows,                \* the lines ingested so far
    zone_maps,           \* slot -> zone map, for the two numeric slots
    string_bloom,        \* the bits that are set
    warm_dict_strings,
    null_maps,           \* slot -> blocks marked present
    hot_data_planes,
    block_idx,           \* blocks whose planes are written
    heat_registry,       \* access count of the promoted field; 0: no entry
    promoted             \* history: execute_compaction_promotion has run

metadata == <<zone_maps, string_bloom, warm_dict_strings, null_maps>>
planes == <<hot_data_planes, block_idx, heat_registry, promoted>>
vars == <<stage, raw_chunk_buffer, rows, metadata, planes>>

-----------------------------------------------------------------------------
(* ZoneMap and BloomFilter.                                                 *)

EmptyZoneMap == [has_values |-> FALSE, min_val |-> kU64Max, max_val |-> 0]

\* Mutant: the minimum follows the last value.
update_last(zm, val) ==
    [has_values |-> TRUE, min_val |-> val,
     max_val |-> IF val > zm.max_val THEN val ELSE zm.max_val]

update_u64(zm, val) ==
    [has_values |-> TRUE,
     min_val |-> IF val < zm.min_val THEN val ELSE zm.min_val,
     max_val |-> IF val > zm.max_val THEN val ELSE zm.max_val]

\* A bit in the word the first hash picks, and one in the word after it.
BitsOf(str) ==
    LET h1 == murmur_hash3[str].h1
        h2 == murmur_hash3[str].h2
        word == h1 % num_words
    IN  {<<word, h2 % kWordBits>>, <<(word + 1) % num_words, (h1 \div kWordBits) % kWordBits>>}

contains(bloom, str) == str \in Strings /\ BitsOf(str) \subseteq bloom

-----------------------------------------------------------------------------
(* What ingest_chunk extracts from a line.                                  *)

Uint64(v) == IF v = Missing THEN 0 ELSE v

StatusOf(doc) == Uint64(doc.status)

\* Mutant: both latency fields count.
LatencyAdds(doc) == Uint64(doc.latency) + Uint64(doc.latency_ms)

LatencyOf(doc) == Uint64(IF doc.latency = Missing THEN doc.latency_ms ELSE doc.latency)
TraceOf(doc) == IF doc.trace_id = Missing THEN doc.service ELSE doc.trace_id

-----------------------------------------------------------------------------
(* Presence bits and bit planes.                                            *)

\* Mutant: the presence bit is that of the next block.
BlockAhead(row) == (row \div kBlockRows) + 1

BlockOf(row) == row \div kBlockRows

PresenceBit(block) == <<block \div kWordBits, block % kWordBits>>

\* set_block_presence, which ignores blocks there are not.
PresenceBits(blocks) == {PresenceBit(b) : b \in {c \in blocks : c < kBlocks}}

check_block_presence(slot, block) == block < kBlocks /\ PresenceBit(block) \in null_maps[slot]

kRows == kBlocks * kBlockRows
kPlaneBytes == kRows \div kByteBits

\* Mutant: the planes of a block lie side by side.
PlanesTogether(slot, bit, block, i) ==
    slot * kWordBits * kPlaneBytes * kByteBits + (block * kWordBits + bit) * kBlockRows + i

\* ingest_chunk writes words: row i of a block is bit i of the block's word.
WordBit(slot, bit, block, i) ==
    slot * kWordBits * kPlaneBytes * kByteBits + (bit * kBlocks + block) * kBlockRows + i

\* execute_compaction_promotion writes bytes.
ByteBit(slot, bit, row) ==
    (slot * kWordBits * kPlaneBytes + bit * kPlaneBytes + (row \div kByteBits)) * kByteBits
    + (row % kByteBits)

BitOf(val, bit) == (val \div 2^bit) % 2

-----------------------------------------------------------------------------
(* QueryPlanner::evaluate_pruning: FALSE means the group is skipped.        *)

KeepsGT(leaf) ==
    LET zm == zone_maps[IF leaf.field = "latency" THEN LatencySlot ELSE StatusSlot]
    IN  ~(zm.has_values /\ zm.max_val <= leaf.val_u64)

\* The slot of a numeric EQ is the status slot, whatever the field.
KeepsEQ(leaf) ==
    IF leaf.val_str # NoString
      THEN contains(string_bloom, leaf.val_str)
      ELSE LET zm == zone_maps[StatusSlot]
           IN  ~(zm.has_values /\ (leaf.val_u64 < zm.min_val \/ leaf.val_u64 > zm.max_val))

evaluate_pruning(predicate) ==
    \A leaf \in predicate : IF leaf.op = "GT" THEN KeepsGT(leaf) ELSE KeepsEQ(leaf)

-----------------------------------------------------------------------------
Init ==
    /\ stage = "none"
    /\ raw_chunk_buffer = <<>> /\ rows = <<>>
    /\ zone_maps = [s \in {StatusSlot, LatencySlot} |-> EmptyZoneMap]
    /\ string_bloom = {}
    /\ warm_dict_strings = <<>>
    /\ null_maps = [s \in {StatusSlot, LatencySlot, TraceSlot, TargetSlot} |-> {}]
    /\ hot_data_planes = {} /\ block_idx = 0 /\ heat_registry = 0 /\ promoted = FALSE

\* append_raw_batch: the metadata of a raw group stay empty.
StageRaw(batch) ==
    /\ stage = "none"
    /\ stage' = "staged"
    /\ raw_chunk_buffer' = batch
    /\ UNCHANGED <<rows, metadata, planes>>

BeginIngest ==
    /\ stage = "staged"
    /\ stage' = "ingesting"
    /\ UNCHANGED <<raw_chunk_buffer, rows, metadata, planes>>

\* The lines past the last block of a group are not looked at.
IngestedLines == IF Len(raw_chunk_buffer) <= kRows THEN Len(raw_chunk_buffer) ELSE kRows

\* The rows of the block at hand are all parsed.
BlockParsed ==
    \/ Len(rows) = (block_idx + 1) * kBlockRows
    \/ Len(rows) = IngestedLines /\ Len(rows) > block_idx * kBlockRows

\* The next line; at the head of a block its presence bits are set.
IngestRow ==
    /\ stage = "ingesting" /\ Len(rows) < IngestedLines /\ ~BlockParsed
    /\ LET doc == raw_chunk_buffer[Len(rows) + 1]
       IN  /\ rows' = Append(rows, doc)
           /\ zone_maps' =
                [s \in {StatusSlot, LatencySlot} |->
                   update_u64(zone_maps[s],
                              IF s = StatusSlot THEN StatusOf(doc) ELSE LatencyOf(doc))]
           /\ IF TraceOf(doc) = Missing
                THEN UNCHANGED <<string_bloom, warm_dict_strings>>
                ELSE /\ string_bloom' = string_bloom \cup BitsOf(TraceOf(doc))
                     /\ warm_dict_strings' = Append(warm_dict_strings, TraceOf(doc))
    /\ null_maps' = [s \in DOMAIN null_maps |->
                       IF s = TargetSlot THEN null_maps[s]
                       ELSE null_maps[s] \cup PresenceBits({BlockOf(Len(rows))})]
    /\ UNCHANGED <<stage, raw_chunk_buffer, planes>>

ValueOf(doc, slot) == IF slot = StatusSlot THEN StatusOf(doc) ELSE LatencyOf(doc)

\* The words of the block are written, one for each bit of each slot; rows
\* the block does not have are 0.
WriteBlock ==
    /\ stage = "ingesting" /\ BlockParsed
    /\ LET InBlock(i) == block_idx * kBlockRows + i + 1
           word == {StatusSlot, LatencySlot} \X (0..kWordBits - 1) \X (0..kBlockRows - 1)
           ones == {w \in word : InBlock(w[3]) <= Len(rows)
                                 /\ BitOf(ValueOf(rows[InBlock(w[3])], w[1]), w[2]) = 1}
       IN  hot_data_planes' =
             (hot_data_planes \ {WordBit(w[1], w[2], block_idx, w[3]) : w \in word})
             \cup {WordBit(w[1], w[2], block_idx, w[3]) : w \in ones}
    /\ block_idx' = block_idx + 1
    /\ UNCHANGED <<stage, raw_chunk_buffer, rows, metadata, heat_registry, promoted>>

FinishIngest ==
    /\ stage = "ingesting" /\ Len(rows) = IngestedLines /\ ~BlockParsed
    /\ stage' = "done"
    /\ raw_chunk_buffer' = <<>>
    /\ UNCHANGED <<rows, metadata, planes>>

record_query_access ==
    /\ heat_registry < MaxAccesses
    /\ heat_registry' = heat_registry + 1
    /\ UNCHANGED <<stage, raw_chunk_buffer, rows, metadata, hot_data_planes, block_idx, promoted>>

\* In thousandths, with the default density of 0.05.
check_promotion_threshold == heat_registry > 0 /\ 700 * heat_registry + 15 > 150

\* The rows a promotion writes to: one for each warm string.
PromotedRows == 0..(IF Len(warm_dict_strings) <= kRows THEN Len(warm_dict_strings) ELSE kRows) - 1

\* execute_compaction_promotion: the i-th warm string, if the Bloom filter
\* has it, is the value 1 in row i of the target slot.
Promote ==
    /\ stage = "done" /\ check_promotion_threshold
    /\ hot_data_planes' = hot_data_planes \cup
         {ByteBit(TargetSlot, 0, i) : i \in {j \in PromotedRows :
                                                contains(string_bloom, warm_dict_strings[j + 1])}}
    /\ null_maps' = [null_maps EXCEPT ![TargetSlot] =
                       @ \cup PresenceBits({BlockOf(i) : i \in PromotedRows})]
    /\ promoted' = TRUE
    /\ UNCHANGED <<stage, raw_chunk_buffer, rows, zone_maps, string_bloom, warm_dict_strings,
                   block_idx, heat_registry>>

Next ==
    \/ \E batch \in Batches : StageRaw(batch)
    \/ BeginIngest \/ IngestRow \/ WriteBlock \/ FinishIngest \/ record_query_access \/ Promote

Spec == Init /\ [][Next]_vars

-----------------------------------------------------------------------------
ZoneMap == [has_values : BOOLEAN, min_val : U64, max_val : U64]

TypeOK ==
    /\ stage \in {"none", "staged", "ingesting", "done"}
    /\ raw_chunk_buffer \in Seq(Doc) /\ rows \in Seq(Doc)
    /\ zone_maps \in [{StatusSlot, LatencySlot} -> ZoneMap]
    /\ string_bloom \in SUBSET (Nat \X Nat)
    /\ warm_dict_strings \in Seq(Strings)
    /\ null_maps \in [{StatusSlot, LatencySlot, TraceSlot, TargetSlot} -> SUBSET (Nat \X Nat)]
    /\ hot_data_planes \in SUBSET Nat /\ block_idx \in Nat
    /\ heat_registry \in 0..MaxAccesses /\ promoted \in BOOLEAN

\* What a leaf says of a document, with the values the engine stores.
Compares(leaf, val) == IF leaf.op = "GT" THEN val > leaf.val_u64 ELSE val = leaf.val_u64

Holds(leaf, doc) ==
    IF leaf.val_str # NoString
      THEN doc[leaf.field] = leaf.val_str
      ELSE \/ leaf.field = "status" /\ Compares(leaf, StatusOf(doc))
           \/ leaf.field = "latency" /\ Compares(leaf, LatencyOf(doc))

\* The documents a query of the group must find.
Visible == IF stage \in {"none", "staged"}
             THEN IF QueriesStaged THEN raw_chunk_buffer ELSE <<>>
             ELSE rows

\* A group is skipped only when no document in it satisfies the predicate,
\* at every point of the metadata's construction.
PruningSound ==
    \A predicate \in Predicates :
        ~evaluate_pruning(predicate) =>
            \A i \in DOMAIN Visible : \E leaf \in predicate : ~Holds(leaf, Visible[i])

\* The rows that a slot has values of: those ingested, or, in the target slot
\* of a promotion, one for each warm string.
RowsOf(slot) == IF slot # TargetSlot THEN {i - 1 : i \in DOMAIN rows}
                ELSE IF promoted THEN PromotedRows ELSE {}

\* At every point of the ingestion and of the promotion, of each slot exactly
\* the blocks that hold a row of it are marked present, although the bits are
\* set by ingest_chunk, row by row, and by the promotion, string by string;
\* and whatever plane has a 1, a scan that reads only the blocks marked
\* present in its slot finds it, although the planes are written later and
\* addressed otherwise.
BlocksPresent ==
    /\ \A s \in DOMAIN null_maps : \A b \in 0..kBlocks - 1 :
          check_block_presence(s, b) <=> \E r \in RowsOf(s) : r \div kBlockRows = b
    /\ \A s \in {StatusSlot, LatencySlot, TargetSlot} : \A bit \in 0..kWordBits - 1 :
          \A r \in 0..kRows - 1 :
             ByteBit(s, bit, r) \in hot_data_planes => check_block_presence(s, r \div kBlockRows)

\* The planes hold the values of every written row, bit for bit, the promoted
\* column holds a 1 for every warm string, and there is nothing else in them:
\* whether a bit is addressed in words or in bytes, no block, plane or slot
\* runs into another.
WrittenRows == {i \in DOMAIN rows : i <= block_idx * kBlockRows}
PlanesHoldRows ==
    hot_data_planes =
        {ByteBit(w[1], w[2], w[3] - 1) :
            w \in {v \in {StatusSlot, LatencySlot} \X (0..kWordBits - 1) \X WrittenRows :
                     BitOf(ValueOf(rows[v[3]], v[1]), v[2]) = 1}}
        \cup {ByteBit(TargetSlot, 0, i) : i \in IF promoted THEN PromotedRows ELSE {}}
=============================================================================
