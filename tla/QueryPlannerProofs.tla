------------------------- MODULE QueryPlannerProofs -------------------------
(***************************************************************************)
(* Pruning is sound for every batch, every string hash and every predicate *)
(* made of the leaves for which the planner consults the right metadata.   *)
(* The planes hold every value bit for bit.  And the cache of plans is an  *)
(* exact LRU, for every capacity.                                          *)
(***************************************************************************)
EXTENDS QueryPlanner, PlanCache, SequenceTheorems, FiniteSetTheorems, TLAPS

\* The leaves that evaluate_pruning understands: comparisons of status,
\* latency > v, and equality with a trace id.
SupportedLeaf(leaf) ==
    \/ leaf.val_str = NoString /\ leaf.op = "GT" /\ leaf.field \in {"status", "latency"}
    \/ leaf.val_str = NoString /\ leaf.op = "EQ" /\ leaf.field = "status"
    \/ leaf.val_str # NoString /\ leaf.op = "EQ" /\ leaf.field = "trace_id"

\* Queries use supported leaves and look at transcoded groups only.
Supported == ~QueriesStaged /\ \A predicate \in Predicates : \A leaf \in predicate : SupportedLeaf(leaf)

-----------------------------------------------------------------------------
InRange(zm, val) == zm.has_values /\ zm.min_val <= val /\ val <= zm.max_val

CoversDoc(doc) ==
    /\ InRange(zone_maps[StatusSlot], StatusOf(doc))
    /\ InRange(zone_maps[LatencySlot], LatencyOf(doc))
    /\ TraceOf(doc) # Missing => BitsOf(TraceOf(doc)) \subseteq string_bloom

\* The metadata cover every row ingested so far, and there is none before
\* ingestion begins.
MetadataCover ==
    /\ \A i \in DOMAIN rows : CoversDoc(rows[i])
    /\ stage \in {"none", "staged"} => rows = <<>>

IInv == TypeOK /\ MetadataCover /\ Len(rows) <= kRows

-----------------------------------------------------------------------------
\* The values extracted from a document have the types the metadata expect.
LEMMA ExtractTypes ==
    ASSUME NEW doc \in Doc
    PROVE  /\ StatusOf(doc) \in U64
           /\ LatencyOf(doc) \in U64
           /\ TraceOf(doc) \in Strings \cup {Missing}
<1>1. 0 \in U64
  BY PlannerAssumption DEF U64
<1>2. /\ doc.status \in U64 \cup {Missing} /\ doc.latency \in U64 \cup {Missing}
      /\ doc.latency_ms \in U64 \cup {Missing}
      /\ doc.trace_id \in Strings \cup {Missing} /\ doc.service \in Strings \cup {Missing}
  BY DEF Doc
<1> QED
  BY <1>1, <1>2 DEF StatusOf, LatencyOf, TraceOf, Uint64

\* update_u64 widens a zone map: it covers the new value and whatever it
\* covered before.
LEMMA UpdateWidens ==
    ASSUME NEW zm \in ZoneMap, NEW val \in U64
    PROVE  /\ update_u64(zm, val) \in ZoneMap
           /\ InRange(update_u64(zm, val), val)
           /\ \A v \in U64 : InRange(zm, v) => InRange(update_u64(zm, val), v)
<1>1. U64 \subseteq Nat
  BY PlannerAssumption DEF U64
<1> DEFINE new == update_u64(zm, val)
<1>2. /\ zm.has_values \in BOOLEAN /\ zm.min_val \in U64 /\ zm.max_val \in U64
  BY DEF ZoneMap
<1>3. /\ new.has_values = TRUE
      /\ new.min_val = IF val < zm.min_val THEN val ELSE zm.min_val
      /\ new.max_val = IF val > zm.max_val THEN val ELSE zm.max_val
  BY DEF update_u64
<1>4. new \in ZoneMap
  BY <1>2 DEF ZoneMap, update_u64
<1> HIDE DEF new
<1>5. /\ new.min_val <= val /\ val <= new.max_val
      /\ new.min_val <= zm.min_val /\ zm.max_val <= new.max_val
      /\ new.min_val \in Nat /\ new.max_val \in Nat /\ zm.min_val \in Nat /\ zm.max_val \in Nat
  <2>1. val \in Nat /\ zm.min_val \in Nat /\ zm.max_val \in Nat
    BY <1>1, <1>2
  <2> QED
    BY <2>1, <1>3
<1>6. InRange(new, val)
  BY <1>3, <1>5 DEF InRange
<1>7. ASSUME NEW v \in U64, InRange(zm, v) PROVE InRange(new, v)
  <2>1. v \in Nat /\ zm.min_val <= v /\ v <= zm.max_val
    BY <1>1, <1>7 DEF InRange
  <2>2. new.min_val <= v /\ v <= new.max_val
    BY <2>1, <1>5
  <2> QED
    BY <2>2, <1>3 DEF InRange
<1> QED
  BY <1>4, <1>6, <1>7 DEF new

\* Quotients and remainders are natural numbers, and a quotient is bounded by
\* the number of parts.
LEMMA Division ==
    ASSUME NEW n \in Nat, NEW d \in Nat \ {0}
    PROVE  /\ n \div d \in Nat /\ n % d \in Nat
           /\ \A k \in Nat : n < k * d => n \div d < k
<1>1. n \div d \in Nat /\ n % d \in Nat /\ n = d * (n \div d) + (n % d) /\ n % d >= 0
  OBVIOUS
<1>2. ASSUME NEW k \in Nat, n < k * d, ~(n \div d < k) PROVE FALSE
  <2> DEFINE q == n \div d
  <2>1. q \in Nat /\ q >= k /\ d * q <= n
    BY <1>1, <1>2
  <2> HIDE DEF q
  <2>2. q - k \in Nat /\ d * (q - k) >= 0 /\ d * (q - k) = d * q - d * k
    BY <2>1
  <2>3. d * k = k * d /\ d * k \in Nat /\ d * q \in Nat
    BY <2>1
  <2> QED
    BY <1>2, <2>1, <2>2, <2>3
<1> QED
  BY <1>1, <1>2

\* Products of natural numbers are natural numbers.
LEMMA Product == ASSUME NEW a \in Nat, NEW b \in Nat PROVE a * b \in Nat
OBVIOUS

\* Rows of a group and bytes of a plane are natural numbers.
LEMMA Sizes == kRows \in Nat /\ kPlaneBytes \in Nat
BY PlannerAssumption, Product, Division DEF kRows, kPlaneBytes

\* So are the addresses of ingestion and of promotion.
LEMMA Addresses ==
    ASSUME NEW slot \in Nat, NEW bit \in Nat, NEW block \in Nat, NEW i \in Nat
    PROVE  WordBit(slot, bit, block, i) \in Nat /\ ByteBit(slot, bit, i) \in Nat
<1>1. /\ kWordBits \in Nat /\ kByteBits \in Nat \ {0} /\ kBlocks \in Nat /\ kBlockRows \in Nat
      /\ kPlaneBytes \in Nat
  BY PlannerAssumption, Sizes
<1>2. slot * kWordBits * kPlaneBytes \in Nat
  <2>1. slot * kWordBits \in Nat
    BY <1>1, Product
  <2> QED
    BY <2>1, <1>1, Product
<1>3. slot * kWordBits * kPlaneBytes * kByteBits \in Nat
  BY <1>1, <1>2, Product
<1>4. (bit * kBlocks + block) * kBlockRows \in Nat
  <2>1. bit * kBlocks + block \in Nat
    <3>1. bit * kBlocks \in Nat
      BY <1>1, Product
    <3> QED
      BY <3>1
  <2> QED
    BY <2>1, <1>1, Product
<1>5. i \div kByteBits \in Nat /\ i % kByteBits \in Nat
  BY <1>1, Division
<1>6. (slot * kWordBits * kPlaneBytes + bit * kPlaneBytes + (i \div kByteBits)) * kByteBits \in Nat
  <2>1. bit * kPlaneBytes \in Nat
    BY <1>1, Product
  <2>2. slot * kWordBits * kPlaneBytes + bit * kPlaneBytes + (i \div kByteBits) \in Nat
    BY <2>1, <1>2, <1>5
  <2> QED
    BY <2>2, <1>1, Product
<1> QED
  BY <1>3, <1>4, <1>5, <1>6 DEF WordBit, ByteBit

\* A presence bit has a place, and a string has bits.
LEMMA BitPlaces ==
    /\ \A block \in Nat : PresenceBit(block) \in Nat \X Nat
    /\ \A str \in Strings : BitsOf(str) \in SUBSET (Nat \X Nat)
<1>1. ASSUME NEW block \in Nat PROVE PresenceBit(block) \in Nat \X Nat
  BY PlannerAssumption, Division DEF PresenceBit
<1>2. ASSUME NEW str \in Strings PROVE BitsOf(str) \in SUBSET (Nat \X Nat)
  <2>1. murmur_hash3[str].h1 \in Nat /\ murmur_hash3[str].h2 \in Nat
    BY PlannerAssumption
  <2>2. \A n \in Nat : n % num_words \in Nat /\ n % kWordBits \in Nat /\ n \div kWordBits \in Nat
    BY PlannerAssumption, Division
  <2> QED
    BY <2>1, <2>2 DEF BitsOf
<1> QED
  BY <1>1, <1>2

\* An empty group has nothing to cover.
LEMMA InitEstablishes == Init => IInv
<1> SUFFICES ASSUME Init PROVE IInv
  OBVIOUS
<1>1. EmptyZoneMap \in ZoneMap
  BY PlannerAssumption DEF EmptyZoneMap, ZoneMap, U64
<1>2. TypeOK
  <2>1. 0 \in 0..MaxAccesses
    BY PlannerAssumption
  <2>2. /\ promoted \in BOOLEAN /\ hot_data_planes \in SUBSET Nat /\ block_idx \in Nat
        /\ heat_registry \in 0..MaxAccesses
    BY <2>1 DEF Init
  <2>3. /\ stage \in {"none", "staged", "ingesting", "done"}
        /\ raw_chunk_buffer \in Seq(Doc) /\ rows \in Seq(Doc) /\ warm_dict_strings \in Seq(Strings)
        /\ zone_maps \in [{StatusSlot, LatencySlot} -> ZoneMap]
    BY <1>1 DEF Init
  <2>4. /\ string_bloom \in SUBSET (Nat \X Nat)
        /\ null_maps \in [{StatusSlot, LatencySlot, TraceSlot, TargetSlot} -> SUBSET (Nat \X Nat)]
    BY DEF Init
  <2> QED
    BY <2>2, <2>3, <2>4 DEF TypeOK
<1>3. MetadataCover /\ Len(rows) <= kRows
  BY Sizes DEF Init, MetadataCover
<1> QED
  BY <1>2, <1>3 DEF IInv

\* Every line ingested extends the cover by its own values.
LEMMA IngestRowPreserves == IInv /\ IngestRow => IInv'
<1> SUFFICES ASSUME IInv, IngestRow PROVE IInv'
  OBVIOUS
<1> DEFINE doc == raw_chunk_buffer[Len(rows) + 1]
           n == Len(rows) + 1
<1>1. /\ rows \in Seq(Doc) /\ raw_chunk_buffer \in Seq(Doc) /\ doc \in Doc
      /\ n \in Nat \ {0} /\ Len(rows) \in Nat
  <2>1. /\ rows \in Seq(Doc) /\ raw_chunk_buffer \in Seq(Doc) /\ Len(rows) < IngestedLines
    BY DEF IInv, TypeOK, IngestRow
  <2>2. Len(rows) < Len(raw_chunk_buffer)
    BY <2>1, Sizes DEF IngestedLines
  <2> QED
    BY <2>1, <2>2
<1>2. /\ StatusOf(doc) \in U64 /\ LatencyOf(doc) \in U64
      /\ TraceOf(doc) \in Strings \cup {Missing}
  BY <1>1, ExtractTypes
<1>3. /\ rows' = Append(rows, doc) /\ rows' \in Seq(Doc) /\ Len(rows') = n
      /\ \A i \in DOMAIN rows' : i \in 1..n
      /\ \A i \in 1..Len(rows) : i \in DOMAIN rows /\ rows'[i] = rows[i] /\ rows[i] \in Doc
      /\ rows'[n] = doc
  BY <1>1 DEF IngestRow
<1>4. /\ zone_maps[StatusSlot] \in ZoneMap /\ zone_maps[LatencySlot] \in ZoneMap
      /\ zone_maps'[StatusSlot] = update_u64(zone_maps[StatusSlot], StatusOf(doc))
      /\ zone_maps'[LatencySlot] = update_u64(zone_maps[LatencySlot], LatencyOf(doc))
      /\ zone_maps' = [s \in {StatusSlot, LatencySlot} |-> zone_maps'[s]]
  <2>1. zone_maps' = [s \in {StatusSlot, LatencySlot} |->
                        update_u64(zone_maps[s],
                                   IF s = StatusSlot THEN StatusOf(doc) ELSE LatencyOf(doc))]
    BY DEF IngestRow
  <2>2. StatusSlot # LatencySlot
    BY DEF StatusSlot, LatencySlot
  <2> QED
    BY <2>1, <2>2 DEF IInv, TypeOK
<1>5. /\ zone_maps'[StatusSlot] \in ZoneMap /\ zone_maps'[LatencySlot] \in ZoneMap
      /\ InRange(zone_maps'[StatusSlot], StatusOf(doc))
      /\ InRange(zone_maps'[LatencySlot], LatencyOf(doc))
      /\ \A v \in U64 : InRange(zone_maps[StatusSlot], v) => InRange(zone_maps'[StatusSlot], v)
      /\ \A v \in U64 : InRange(zone_maps[LatencySlot], v) => InRange(zone_maps'[LatencySlot], v)
  BY <1>2, <1>4, UpdateWidens
<1>6. /\ string_bloom' \in SUBSET (Nat \X Nat) /\ warm_dict_strings' \in Seq(Strings)
      /\ string_bloom \subseteq string_bloom'
      /\ TraceOf(doc) # Missing => BitsOf(TraceOf(doc)) \subseteq string_bloom'
  <2>1. string_bloom \in SUBSET (Nat \X Nat) /\ warm_dict_strings \in Seq(Strings)
    BY DEF IInv, TypeOK
  <2>2. CASE TraceOf(doc) = Missing
    <3>1. UNCHANGED <<string_bloom, warm_dict_strings>>
      BY <2>2 DEF IngestRow
    <3> QED
      BY <2>1, <2>2, <3>1
  <2>3. CASE TraceOf(doc) # Missing
    <3>1. /\ string_bloom' = string_bloom \cup BitsOf(TraceOf(doc))
          /\ warm_dict_strings' = Append(warm_dict_strings, TraceOf(doc))
      BY <2>3 DEF IngestRow
    <3>2. TraceOf(doc) \in Strings /\ BitsOf(TraceOf(doc)) \in SUBSET (Nat \X Nat)
      BY <1>2, <2>3, BitPlaces
    <3> QED
      BY <2>1, <3>1, <3>2
  <2> QED
    BY <2>2, <2>3
<1>7. null_maps' \in [{StatusSlot, LatencySlot, TraceSlot, TargetSlot} -> SUBSET (Nat \X Nat)]
  <2>1. PresenceBits({Len(rows) \div kBlockRows}) \in SUBSET (Nat \X Nat)
    <3>1. Len(rows) \div kBlockRows \in Nat
      BY <1>1, PlannerAssumption, Division
    <3> QED
      BY <3>1, BitPlaces DEF PresenceBits
  <2> QED
    BY <2>1 DEF IInv, TypeOK, IngestRow, BlockOf
<1>8. Len(rows) < kRows /\ n <= kRows
  <2>1. IngestedLines <= kRows /\ IngestedLines \in Nat /\ Len(rows) < IngestedLines
    BY <1>1, Sizes DEF IngestedLines, IngestRow
  <2> QED
    BY <2>1, <1>1, Sizes
<1>9. TypeOK'
  <2>1. zone_maps' \in [{StatusSlot, LatencySlot} -> ZoneMap]
    BY <1>4, <1>5
  <2> QED
    BY <2>1, <1>3, <1>6, <1>7 DEF IInv, TypeOK, IngestRow, planes
<1>10. MetadataCover'
  <2>1. ASSUME NEW i \in DOMAIN rows' PROVE CoversDoc(rows[i])'
    <3>1. CASE i = n
      BY <3>1, <1>3, <1>5, <1>6 DEF CoversDoc
    <3>2. CASE i # n
      <4>1. i \in 1..Len(rows)
        BY <3>2, <2>1, <1>1, <1>3
      <4>2. rows'[i] = rows[i] /\ rows[i] \in Doc /\ CoversDoc(rows[i])
        BY <4>1, <1>3 DEF IInv, MetadataCover
      <4>3. StatusOf(rows[i]) \in U64 /\ LatencyOf(rows[i]) \in U64
        BY <4>2, ExtractTypes
      <4> QED
        BY <4>2, <4>3, <1>5, <1>6 DEF CoversDoc
    <3> QED
      BY <3>1, <3>2
  <2>2. stage' = "ingesting"
    BY DEF IngestRow
  <2> QED
    BY <2>1, <2>2 DEF MetadataCover
<1> QED
  BY <1>3, <1>8, <1>9, <1>10 DEF IInv

\* The planes of a block are written at bit addresses.
LEMMA WriteBlockPreserves == IInv /\ WriteBlock => IInv'
<1> SUFFICES ASSUME IInv, WriteBlock PROVE IInv'
  OBVIOUS
<1> DEFINE word == {StatusSlot, LatencySlot} \X (0..kWordBits - 1) \X (0..kBlockRows - 1)
           address(w) == WordBit(w[1], w[2], block_idx, w[3])
<1>1. block_idx \in Nat /\ block_idx' = block_idx + 1 /\ hot_data_planes \in SUBSET Nat
  BY DEF IInv, TypeOK, WriteBlock
<1>2. ASSUME NEW w \in word PROVE address(w) \in Nat
  <2>1. w[1] \in Nat /\ w[2] \in Nat /\ w[3] \in Nat
    BY <1>2, PlannerAssumption DEF StatusSlot, LatencySlot
  <2> QED
    BY <2>1, <1>1, Addresses
<1>3. hot_data_planes' \in SUBSET Nat
  <2>1. hot_data_planes' \subseteq hot_data_planes \cup {address(w) : w \in word}
    BY DEF WriteBlock
  <2> QED
    BY <2>1, <1>1, <1>2
<1>4. TypeOK'
  BY <1>1, <1>3 DEF WriteBlock, metadata, IInv, TypeOK
<1>5. MetadataCover' /\ Len(rows)' <= kRows
  BY DEF WriteBlock, metadata, IInv, MetadataCover, CoversDoc
<1> QED
  BY <1>4, <1>5 DEF IInv

\* A promotion writes to the target slot only.
LEMMA PromotePreserves == IInv /\ Promote => IInv'
<1> SUFFICES ASSUME IInv, Promote PROVE IInv'
  OBVIOUS
<1>1. PromotedRows \subseteq Nat
  BY Sizes DEF PromotedRows, IInv, TypeOK
<1>2. null_maps' \in [{StatusSlot, LatencySlot, TraceSlot, TargetSlot} -> SUBSET (Nat \X Nat)]
  <2> DEFINE Blocks == {BlockOf(i) : i \in PromotedRows}
  <2>1. Blocks \subseteq Nat
    BY <1>1, PlannerAssumption, Division DEF BlockOf
  <2>2. PresenceBits(Blocks) \in SUBSET (Nat \X Nat)
    BY <2>1, BitPlaces DEF PresenceBits
  <2>3. null_maps' = [null_maps EXCEPT ![TargetSlot] = @ \cup PresenceBits(Blocks)]
    BY DEF Promote
  <2> HIDE DEF Blocks
  <2> QED
    BY <2>2, <2>3 DEF IInv, TypeOK
<1>3. hot_data_planes' \in SUBSET Nat
  <2>1. hot_data_planes' \subseteq hot_data_planes \cup {ByteBit(TargetSlot, 0, i) : i \in PromotedRows}
    BY DEF Promote
  <2>2. \A i \in PromotedRows : ByteBit(TargetSlot, 0, i) \in Nat
    <3>1. TargetSlot \in Nat /\ 0 \in Nat
      BY PlannerAssumption
    <3>2. \A i \in PromotedRows : i \in Nat
      BY <1>1
    <3> QED
      BY <3>1, <3>2, Addresses
  <2> QED
    BY <2>1, <2>2 DEF IInv, TypeOK
<1>4. TypeOK'
  BY <1>2, <1>3 DEF Promote, IInv, TypeOK
<1>5. MetadataCover' /\ Len(rows)' <= kRows
  BY DEF Promote, IInv, MetadataCover, CoversDoc
<1> QED
  BY <1>4, <1>5 DEF IInv

\* Every step keeps the invariant.
LEMMA NextPreserves == IInv /\ [Next]_vars => IInv'
<1> SUFFICES ASSUME IInv, [Next]_vars PROVE IInv'
  OBVIOUS
<1>1. ASSUME NEW batch \in Batches, StageRaw(batch) PROVE IInv'
  <2>1. batch \in Seq(Doc)
    BY PlannerAssumption
  <2> QED
    BY <1>1, <2>1 DEF StageRaw, metadata, planes, IInv, TypeOK, MetadataCover, CoversDoc
<1>2. CASE BeginIngest
  BY <1>2 DEF BeginIngest, metadata, planes, IInv, TypeOK, MetadataCover, CoversDoc
<1>3. CASE IngestRow
  BY <1>3, IngestRowPreserves
<1>4. CASE FinishIngest
  BY <1>4 DEF FinishIngest, metadata, planes, IInv, TypeOK, MetadataCover, CoversDoc
<1>5. CASE WriteBlock
  BY <1>5, WriteBlockPreserves
<1>6. CASE record_query_access
  <2>1. heat_registry' \in 0..MaxAccesses
    BY <1>6, PlannerAssumption DEF record_query_access, IInv, TypeOK
  <2> QED
    BY <1>6, <2>1, SMTT(30) DEF record_query_access, metadata, IInv, TypeOK, MetadataCover, CoversDoc
<1>7. CASE Promote
  BY <1>7, PromotePreserves
<1>8. CASE UNCHANGED vars
  BY <1>8 DEF vars, metadata, planes, IInv, TypeOK, MetadataCover, CoversDoc
<1> QED
  BY <1>1, <1>2, <1>3, <1>4, <1>5, <1>6, <1>7, <1>8 DEF Next

\* The metadata of a row group cover its rows in every reachable state.
THEOREM MetadataCorrect == Spec => []IInv
<1> QED
  BY InitEstablishes, NextPreserves, PTL DEF Spec

\* Type correctness of the pruning model.
THEOREM TypeCorrect == Spec => []TypeOK
<1>1. IInv => TypeOK
  BY DEF IInv
<1> QED
  BY <1>1, MetadataCorrect, PTL

\* A leaf that evaluate_pruning rejects holds of no document the metadata
\* cover.
LEMMA RejectedLeaf ==
    ASSUME IInv, NEW leaf \in Leaf, SupportedLeaf(leaf), NEW doc \in Doc, CoversDoc(doc),
           ~(IF leaf.op = "GT" THEN KeepsGT(leaf) ELSE KeepsEQ(leaf))
    PROVE  ~Holds(leaf, doc)
<1>1. /\ StatusOf(doc) \in Nat /\ LatencyOf(doc) \in Nat
  BY ExtractTypes, PlannerAssumption DEF U64
<1>2. /\ zone_maps[StatusSlot].min_val \in Nat /\ zone_maps[StatusSlot].max_val \in Nat
      /\ zone_maps[LatencySlot].min_val \in Nat /\ zone_maps[LatencySlot].max_val \in Nat
      /\ leaf.val_u64 \in Nat
  BY PlannerAssumption DEF IInv, TypeOK, ZoneMap, U64, Leaf
<1>3. CASE leaf.val_str = NoString /\ leaf.op = "GT"
  BY <1>1, <1>2, <1>3 DEF SupportedLeaf, KeepsGT, Holds, Compares, CoversDoc, InRange
<1>4. CASE leaf.val_str = NoString /\ leaf.op = "EQ"
  BY <1>1, <1>2, <1>4 DEF SupportedLeaf, KeepsEQ, Holds, Compares, CoversDoc, InRange
<1>5. CASE leaf.val_str # NoString
  <2>1. leaf.op = "EQ" /\ leaf.field = "trace_id" /\ leaf.val_str \in Strings
    BY <1>5 DEF SupportedLeaf, Leaf
  <2>2. ~(BitsOf(leaf.val_str) \subseteq string_bloom)
    BY <1>5, <2>1 DEF KeepsEQ, contains
  <2>3. SUFFICES ASSUME doc.trace_id = leaf.val_str PROVE FALSE
    BY <1>5, <2>1 DEF Holds
  <2>4. TraceOf(doc) = leaf.val_str /\ TraceOf(doc) # Missing
    BY <2>1, <2>3, PlannerAssumption DEF TraceOf
  <2> QED
    BY <2>2, <2>4 DEF CoversDoc
<1> QED
  BY <1>3, <1>4, <1>5 DEF SupportedLeaf

\* Pruning never skips a group with a matching document, as long as queries
\* use supported leaves and look at transcoded groups only.
THEOREM PruningCorrect == Spec => [](Supported => PruningSound)
<1>1. IInv => (Supported => PruningSound)
  <2> SUFFICES ASSUME IInv, Supported,
                      NEW predicate \in Predicates, ~evaluate_pruning(predicate),
                      NEW i \in DOMAIN Visible
               PROVE  \E leaf \in predicate : ~Holds(leaf, Visible[i])
    BY DEF PruningSound
  <2>1. PICK leaf \in predicate : ~(IF leaf.op = "GT" THEN KeepsGT(leaf) ELSE KeepsEQ(leaf))
    BY DEF evaluate_pruning
  <2>2. leaf \in Leaf /\ SupportedLeaf(leaf)
    BY PlannerAssumption DEF Supported
  <2>3. Visible = rows
    BY DEF Supported, Visible, IInv, MetadataCover
  <2>4. rows[i] \in Doc /\ CoversDoc(rows[i])
    BY <2>3 DEF IInv, TypeOK, MetadataCover
  <2> QED
    BY <2>1, <2>2, <2>3, <2>4, RejectedLeaf
<1> QED
  BY <1>1, MetadataCorrect, PTL

-----------------------------------------------------------------------------
(* Bit planes.                                                              *)

\* The place of a row in a plane of a slot, counted in bits.
Place(slot, bit, row) == (slot * kWordBits + bit) * kRows + row

\* From one multiple of n to a later one there are at least n.
LEMMA Multiples ==
    ASSUME NEW n \in Nat, NEW c \in Nat, NEW d \in Nat, c < d
    PROVE  c * n + n <= d * n
<1> DEFINE k == d - c - 1
<1>1. k \in Nat /\ d = c + 1 + k
  OBVIOUS
<1> HIDE DEF k
<1>2. k * n \in Nat /\ c * n \in Nat
  BY <1>1, Product
<1>3. (c + 1 + k) * n = c * n + n + k * n
  BY ONLY <1>1, c \in Nat, n \in Nat
<1> QED
  BY <1>1, <1>2, <1>3

\* Numbers written with a digit below n determine the digit and the rest.
LEMMA Digits ==
    ASSUME NEW n \in Nat, NEW a \in Nat, NEW b \in Nat, NEW r \in 0..n - 1, NEW q \in 0..n - 1,
           a * n + r = b * n + q
    PROVE  a = b /\ r = q
<1>1. \A c, d \in Nat : c < d => c * n + n <= d * n
  BY Multiples
<1>2. a * n \in Nat /\ b * n \in Nat
  BY Product
<1>3. ~(a < b)
  <2> SUFFICES ASSUME a < b PROVE FALSE
    OBVIOUS
  <2>1. a * n + n <= b * n
    BY <1>1
  <2> QED
    BY <1>2, <2>1
<1>4. ~(b < a)
  <2> SUFFICES ASSUME b < a PROVE FALSE
    OBVIOUS
  <2>1. b * n + n <= a * n
    BY <1>1
  <2> QED
    BY <1>2, <2>1
<1>5. a = b
  BY <1>3, <1>4
<1> QED
  BY <1>2, <1>5

\* A plane is a whole number of bytes.
LEMMA PlaneSize == kPlaneBytes * kByteBits = kRows
<1>1. kRows \in Nat /\ kByteBits \in Nat \ {0} /\ kRows % kByteBits = 0
  BY PlannerAssumption, Sizes DEF kRows
<1>2. kRows = kByteBits * (kRows \div kByteBits) + (kRows % kByteBits) /\ kRows \div kByteBits \in Nat
  BY ONLY <1>1
<1> QED
  BY ONLY <1>1, <1>2 DEF kPlaneBytes

\* Ingestion, which counts words by bit and block, and promotion, which counts
\* bytes by bit and row, agree on where a row is.
LEMMA AddressesAgree ==
    ASSUME NEW slot \in Nat, NEW bit \in Nat
    PROVE  /\ \A row \in Nat : ByteBit(slot, bit, row) = Place(slot, bit, row)
           /\ \A block \in Nat, i \in Nat :
                 WordBit(slot, bit, block, i) = Place(slot, bit, block * kBlockRows + i)
<1>1. /\ kWordBits \in Nat /\ kByteBits \in Nat \ {0} /\ kBlocks \in Nat /\ kBlockRows \in Nat
      /\ kPlaneBytes \in Nat /\ kRows \in Nat /\ kPlaneBytes * kByteBits = kRows
      /\ kBlocks * kBlockRows = kRows
  BY PlannerAssumption, Sizes, PlaneSize DEF kRows
<1> DEFINE x == slot * kWordBits
<1>2. x \in Nat
  BY <1>1, Product
<1>3. x * kPlaneBytes * kByteBits = x * kRows
  <2>1. x * kPlaneBytes * kByteBits = x * (kPlaneBytes * kByteBits)
    BY ONLY <1>1, <1>2
  <2> QED
    BY ONLY <1>1, <2>1
<1>4. (x + bit) * kRows = x * kRows + bit * kRows /\ x * kRows \in Nat /\ bit * kRows \in Nat
  BY ONLY <1>1, <1>2, bit \in Nat, Product
<1>5. ASSUME NEW row \in Nat PROVE ByteBit(slot, bit, row) = Place(slot, bit, row)
  <2> DEFINE q == row \div kByteBits
             r == row % kByteBits
  <2>1. q \in Nat /\ r \in Nat /\ row = kByteBits * q + r
    BY ONLY <1>1, row \in Nat
  <2> HIDE DEF q, r, x
  <2>2. (x * kPlaneBytes + bit * kPlaneBytes + q) * kByteBits
          = x * kPlaneBytes * kByteBits + bit * (kPlaneBytes * kByteBits) + kByteBits * q
    BY ONLY <1>1, <1>2, <2>1, bit \in Nat
  <2>3. bit * (kPlaneBytes * kByteBits) = bit * kRows
    BY ONLY <1>1
  <2>4. kByteBits * q \in Nat
    BY <1>1, <2>1, Product
  <2>5. (x * kPlaneBytes + bit * kPlaneBytes + q) * kByteBits + r = (x + bit) * kRows + row
    BY ONLY <1>3, <1>4, <2>1, <2>2, <2>3, <2>4
  <2> QED
    BY <2>5 DEF x, q, r, ByteBit, Place
<1>6. ASSUME NEW block \in Nat, NEW i \in Nat
      PROVE  WordBit(slot, bit, block, i) = Place(slot, bit, block * kBlockRows + i)
  <2> HIDE DEF x
  <2>1. (bit * kBlocks + block) * kBlockRows = bit * (kBlocks * kBlockRows) + block * kBlockRows
    BY ONLY <1>1, bit \in Nat, block \in Nat
  <2>2. bit * (kBlocks * kBlockRows) = bit * kRows
    BY ONLY <1>1
  <2>3. block * kBlockRows \in Nat
    BY <1>1, Product
  <2>4. x * kPlaneBytes * kByteBits + (bit * kBlocks + block) * kBlockRows + i
          = (x + bit) * kRows + (block * kBlockRows + i)
    BY ONLY <1>3, <1>4, <2>1, <2>2, <2>3, i \in Nat
  <2> QED
    BY <2>4 DEF x, WordBit, Place
<1> QED
  BY <1>5, <1>6

\* No two rows, planes or slots share a place.
LEMMA PlacesApart ==
    ASSUME NEW slot \in Nat, NEW t \in Nat, NEW bit \in 0..kWordBits - 1, NEW b \in 0..kWordBits - 1,
           NEW row \in 0..kRows - 1, NEW r \in 0..kRows - 1,
           Place(slot, bit, row) = Place(t, b, r)
    PROVE  slot = t /\ bit = b /\ row = r
<1>1. kWordBits \in Nat /\ kRows \in Nat /\ bit \in Nat /\ b \in Nat
  BY PlannerAssumption, Sizes
<1>2. slot * kWordBits \in Nat /\ t * kWordBits \in Nat
  BY <1>1, Product
<1>3. slot * kWordBits + bit \in Nat /\ t * kWordBits + b \in Nat
  BY <1>1, <1>2
<1>4. (slot * kWordBits + bit) * kRows + row = (t * kWordBits + b) * kRows + r
  BY DEF Place
<1> DEFINE u == slot * kWordBits + bit
           v == t * kWordBits + b
<1> HIDE DEF u, v
<1>5. u = v /\ row = r
  <2>1. u \in Nat /\ v \in Nat /\ u * kRows + row = v * kRows + r
    BY ONLY <1>3, <1>4 DEF u, v
  <2> QED
    BY ONLY <1>1, <2>1, row \in 0..kRows - 1, r \in 0..kRows - 1, Digits
<1>6. slot * kWordBits + bit = t * kWordBits + b
  BY ONLY <1>5 DEF u, v
<1> QED
  BY ONLY <1>1, <1>5, <1>6, slot \in Nat, t \in Nat, bit \in 0..kWordBits - 1, b \in 0..kWordBits - 1,
          Digits

\* The bits that are 1, by slot, number and row, and the places of a set of them.
IsOne(v) == BitOf(ValueOf(rows[v[3]], v[1]), v[2]) = 1
Ones == {v \in {StatusSlot, LatencySlot} \X (0..kWordBits - 1) \X WrittenRows : IsOne(v)}
PlacesOf(ones) == {ByteBit(w[1], w[2], w[3] - 1) : w \in ones}
Promoted == {ByteBit(TargetSlot, 0, i) : i \in IF promoted THEN PromotedRows ELSE {}}

\* Promotion comes after ingestion, and ingestion writes a block when all its
\* rows are parsed.
InOrder ==
    /\ promoted => stage = "done"
    /\ stage \in {"none", "staged"} => block_idx = 0
    /\ stage = "ingesting" => block_idx * kBlockRows <= Len(rows) \/ Len(rows) = IngestedLines

\* The Bloom filter has every warm string.
WarmCovered ==
    \A k \in DOMAIN warm_dict_strings :
        warm_dict_strings[k] \in Strings /\ BitsOf(warm_dict_strings[k]) \subseteq string_bloom

PInv == PlanesHoldRows /\ InOrder /\ WarmCovered

\* PlanesHoldRows, by the sets above.
LEMMA ByPlaces ==
    /\ PlanesHoldRows <=> hot_data_planes = PlacesOf(Ones) \cup Promoted
    /\ PlanesHoldRows' <=> hot_data_planes' = PlacesOf(Ones)' \cup Promoted'
BY DEF PlanesHoldRows, PlacesOf, Ones, IsOne, Promoted

\* Steps that change neither the written rows nor the planes.
LEMMA PlanesUntouched ==
    ASSUME PlanesHoldRows, Ones' = Ones, UNCHANGED hot_data_planes,
           (~promoted /\ ~promoted') \/ UNCHANGED <<promoted, warm_dict_strings>>
    PROVE  PlanesHoldRows'
<1>1. Promoted' = Promoted
  BY DEF Promoted, PromotedRows
<1>2. PlacesOf(Ones)' = PlacesOf(Ones)
  BY DEF PlacesOf
<1>3. hot_data_planes = PlacesOf(Ones) \cup Promoted
  BY ByPlaces
<1>4. hot_data_planes' = PlacesOf(Ones)' \cup Promoted'
  BY <1>1, <1>2, <1>3
<1> QED
  BY <1>4, ByPlaces

\* A line that is parsed lies beyond the blocks that are written.
LEMMA PlanesIngestRow == IInv /\ PInv /\ IngestRow => PInv'
<1> SUFFICES ASSUME IInv, PInv, IngestRow PROVE PInv'
  OBVIOUS
<1> DEFINE doc == raw_chunk_buffer[Len(rows) + 1]
<1>1. /\ rows \in Seq(Doc) /\ raw_chunk_buffer \in Seq(Doc) /\ Len(rows) \in Nat
      /\ block_idx \in Nat /\ kBlockRows \in Nat /\ block_idx * kBlockRows \in Nat
      /\ IngestedLines \in Nat /\ IngestedLines <= Len(raw_chunk_buffer)
  <2>1. kBlockRows \in Nat /\ block_idx \in Nat
    BY PlannerAssumption DEF IInv, TypeOK
  <2> QED
    BY <2>1, Product, Sizes DEF IInv, TypeOK, IngestedLines
<1>2. /\ stage = "ingesting" /\ Len(rows) < IngestedLines /\ rows' = Append(rows, doc)
      /\ UNCHANGED <<stage, raw_chunk_buffer, hot_data_planes, block_idx, promoted>>
  BY DEF IngestRow, planes
<1>3. doc \in Doc
  BY <1>1, <1>2
<1>4. block_idx * kBlockRows <= Len(rows) /\ ~promoted
  BY <1>1, <1>2 DEF PInv, InOrder
<1> HIDE DEF doc
<1>5. rows' \in Seq(Doc) /\ Len(rows') = Len(rows) + 1 /\ \A i \in 1..Len(rows) : rows'[i] = rows[i]
  BY <1>1, <1>2, <1>3
<1>6. WrittenRows' = WrittenRows /\ WrittenRows \subseteq 1..Len(rows)
  <2>1. DOMAIN rows = 1..Len(rows) /\ DOMAIN rows' = 1..Len(rows) + 1
    BY <1>1, <1>5
  <2>2. \A i \in 1..Len(rows) + 1 : i <= block_idx * kBlockRows => i \in 1..Len(rows)
    BY <1>1, <1>4
  <2> QED
    BY <1>1, <1>2, <2>1, <2>2 DEF WrittenRows
<1>7. Ones' = Ones
  <2>1. \A v \in {StatusSlot, LatencySlot} \X (0..kWordBits - 1) \X WrittenRows :
           v[3] \in WrittenRows /\ rows'[v[3]] = rows[v[3]]
    BY <1>5, <1>6
  <2>2. \A v \in {StatusSlot, LatencySlot} \X (0..kWordBits - 1) \X WrittenRows : IsOne(v)' <=> IsOne(v)
    BY <2>1 DEF IsOne
  <2> QED
    BY <1>6, <2>2 DEF Ones
<1>8. PlanesHoldRows'
  BY <1>2, <1>4, <1>7, PlanesUntouched DEF PInv
<1>9. InOrder'
  BY <1>1, <1>2, <1>4, <1>5 DEF InOrder
<1>10. WarmCovered'
  <2>1. CASE TraceOf(doc) = Missing
    BY <2>1 DEF IngestRow, PInv, WarmCovered, doc
  <2>2. CASE TraceOf(doc) # Missing
    <3>1. TraceOf(doc) \in Strings
      BY <1>3, <2>2, ExtractTypes
    <3>2. /\ warm_dict_strings' = Append(warm_dict_strings, TraceOf(doc))
          /\ string_bloom' = string_bloom \cup BitsOf(TraceOf(doc))
      BY <2>2 DEF IngestRow, doc
    <3>3. warm_dict_strings \in Seq(Strings)
      BY DEF IInv, TypeOK
    <3> DEFINE n == Len(warm_dict_strings)
    <3>4. /\ n \in Nat /\ DOMAIN warm_dict_strings' = 1..n + 1 /\ DOMAIN warm_dict_strings = 1..n
          /\ warm_dict_strings'[n + 1] = TraceOf(doc)
          /\ \A k \in 1..n : warm_dict_strings'[k] = warm_dict_strings[k]
      BY <3>1, <3>2, <3>3
    <3> HIDE DEF n
    <3>5. \A k \in 1..n + 1 : k = n + 1 \/ k \in 1..n
      BY <3>4
    <3> QED
      BY <3>1, <3>2, <3>4, <3>5 DEF PInv, WarmCovered
  <2> QED
    BY <2>1, <2>2
<1> QED
  BY <1>8, <1>9, <1>10 DEF PInv

\* Writing a block adds the bits of its rows, and touches no other.
LEMMA PlanesWriteBlock == IInv /\ PInv /\ WriteBlock => PInv'
<1> SUFFICES ASSUME IInv, PInv, WriteBlock PROVE PInv'
  OBVIOUS
<1> DEFINE base == block_idx * kBlockRows
           slots == {StatusSlot, LatencySlot}
           word == slots \X (0..kWordBits - 1) \X (0..kBlockRows - 1)
           ones == {w \in word : base + w[3] + 1 <= Len(rows)
                                 /\ BitOf(ValueOf(rows[base + w[3] + 1], w[1]), w[2]) = 1}
           At(w) == WordBit(w[1], w[2], block_idx, w[3])
           In(w) == <<w[1], w[2], base + w[3] + 1>>
<1>1. /\ rows \in Seq(Doc) /\ Len(rows) \in Nat /\ DOMAIN rows = 1..Len(rows) /\ Len(rows) <= kRows
      /\ block_idx \in Nat /\ kBlockRows \in Nat /\ kBlocks \in Nat /\ kWordBits \in Nat
      /\ base \in Nat /\ kRows \in Nat
  <2>1. kBlockRows \in Nat /\ block_idx \in Nat /\ kBlocks \in Nat /\ kWordBits \in Nat
    BY PlannerAssumption DEF IInv, TypeOK
  <2> QED
    BY <2>1, Product, Sizes DEF IInv, TypeOK
<1>2. /\ stage = "ingesting" /\ block_idx' = block_idx + 1
      /\ UNCHANGED <<stage, raw_chunk_buffer, rows, warm_dict_strings, string_bloom, promoted>>
      /\ hot_data_planes' = (hot_data_planes \ {At(w) : w \in word}) \cup {At(w) : w \in ones}
  BY DEF WriteBlock, metadata
<1>3. (block_idx + 1) * kBlockRows = base + kBlockRows /\ block_idx' * kBlockRows = base + kBlockRows
  BY ONLY <1>1, <1>2
<1>4. base + kBlockRows <= kRows
  <2>1. BlockParsed
    BY DEF WriteBlock
  <2>2. CASE Len(rows) = (block_idx + 1) * kBlockRows
    BY <1>1, <1>3, <2>2
  <2>3. CASE base < Len(rows)
    <3>1. block_idx < kBlocks
      <4> SUFFICES ASSUME ~(block_idx < kBlocks) PROVE FALSE
        OBVIOUS
      <4>1. CASE block_idx = kBlocks
        BY <1>1, <2>3, <4>1 DEF kRows
      <4>2. CASE kBlocks < block_idx
        <5>1. kBlocks * kBlockRows + kBlockRows <= base
          BY <1>1, <4>2, Multiples
        <5> HIDE DEF base
        <5> QED
          BY <1>1, <2>3, <5>1 DEF kRows
      <4> QED
        BY <1>1, <4>1, <4>2
    <3> QED
      BY <1>1, <3>1, Multiples DEF kRows
  <2> QED
    BY <1>1, <2>1, <2>2, <2>3 DEF BlockParsed
<1> HIDE DEF base
<1>5. \A w \in word : /\ w[1] \in slots /\ w[1] \in Nat /\ w[2] \in 0..kWordBits - 1 /\ w[2] \in Nat
                      /\ w[3] \in Nat /\ w[3] < kBlockRows /\ base + w[3] \in 0..kRows - 1
  BY <1>1, <1>4 DEF StatusSlot, LatencySlot
<1>6. \A w \in word : At(w) = Place(w[1], w[2], base + w[3])
  <2> SUFFICES ASSUME NEW w \in word PROVE At(w) = Place(w[1], w[2], base + w[3])
    OBVIOUS
  <2>1. w[1] \in Nat /\ w[2] \in Nat /\ w[3] \in Nat /\ block_idx \in Nat
    BY <1>1, <1>5
  <2>2. WordBit(w[1], w[2], block_idx, w[3]) = Place(w[1], w[2], block_idx * kBlockRows + w[3])
    BY ONLY <2>1, AddressesAgree
  <2> QED
    BY <2>2 DEF base
<1>7. \A v \in Ones : /\ v[1] \in Nat /\ v[2] \in 0..kWordBits - 1 /\ v[2] \in Nat
                      /\ v[3] \in 1..Len(rows) /\ v[3] <= base
                      /\ v[3] - 1 \in 0..kRows - 1 /\ v[3] - 1 \in Nat
  BY <1>1 DEF Ones, WrittenRows, base, StatusSlot, LatencySlot
<1>8. \A v \in Ones : ByteBit(v[1], v[2], v[3] - 1) = Place(v[1], v[2], v[3] - 1)
  BY <1>7, AddressesAgree
<1>9. ASSUME NEW v \in Ones, NEW w \in word PROVE At(w) # ByteBit(v[1], v[2], v[3] - 1)
  <2> SUFFICES ASSUME Place(w[1], w[2], base + w[3]) = Place(v[1], v[2], v[3] - 1) PROVE FALSE
    BY <1>6, <1>8
  <2>1. base + w[3] = v[3] - 1
    <3>1. /\ w[1] \in Nat /\ w[2] \in 0..kWordBits - 1 /\ base + w[3] \in 0..kRows - 1
          /\ v[1] \in Nat /\ v[2] \in 0..kWordBits - 1 /\ v[3] - 1 \in 0..kRows - 1
          /\ Place(w[1], w[2], base + w[3]) = Place(v[1], v[2], v[3] - 1)
      BY <1>5, <1>7
    <3> QED
      BY ONLY <3>1, PlacesApart
  <2>2. base \in Nat /\ w[3] \in Nat /\ v[3] \in Nat /\ v[3] <= base
    BY <1>1, <1>5, <1>7
  <2> QED
    BY ONLY <2>1, <2>2
<1>o. \A v : v \in Ones' <=> v \in slots \X (0..kWordBits - 1) \X WrittenRows' /\ IsOne(v)
  BY <1>2 DEF Ones, IsOne
<1>10. ASSUME NEW w \in ones PROVE In(w) \in Ones' /\ At(w) = ByteBit(In(w)[1], In(w)[2], In(w)[3] - 1)
  <2>1. w \in word /\ base + w[3] + 1 <= Len(rows) /\ BitOf(ValueOf(rows[base + w[3] + 1], w[1]), w[2]) = 1
    OBVIOUS
  <2>2. base + w[3] + 1 \in WrittenRows'
    <3>1. w[3] \in Nat /\ w[3] < kBlockRows
      BY <1>5, <2>1
    <3>2. base + w[3] + 1 \in 1..Len(rows) /\ base + w[3] + 1 <= base + kBlockRows
      BY ONLY <1>1, <2>1, <3>1
    <3> QED
      BY <1>1, <1>2, <1>3, <3>2 DEF WrittenRows
  <2>3. In(w) \in slots \X (0..kWordBits - 1) \X WrittenRows' /\ IsOne(In(w))
    BY <1>5, <2>1, <2>2 DEF IsOne
  <2>4. base + w[3] + 1 - 1 = base + w[3] /\ base + w[3] \in Nat
    BY <1>1, <1>5, <2>1
  <2>5. ByteBit(w[1], w[2], base + w[3]) = Place(w[1], w[2], base + w[3])
    BY <1>5, <2>1, <2>4, AddressesAgree
  <2> QED
    BY <1>6, <1>o, <2>1, <2>3, <2>4, <2>5
<1>11. Ones \subseteq Ones'
  <2> SUFFICES ASSUME NEW v \in Ones PROVE v \in Ones'
    OBVIOUS
  <2>1. v \in slots \X (0..kWordBits - 1) \X WrittenRows /\ IsOne(v)
    BY DEF Ones
  <2>2. WrittenRows \subseteq WrittenRows'
    BY <1>1, <1>2, <1>3 DEF WrittenRows, base
  <2> QED
    BY <1>2, <2>1, <2>2 DEF Ones, IsOne
<1>12. ASSUME NEW v \in Ones', v \notin Ones PROVE \E w \in ones : In(w) = v
  <2>1. v \in slots \X (0..kWordBits - 1) \X WrittenRows' /\ IsOne(v)
    BY <1>2 DEF Ones, IsOne
  <2>2. v[3] \in 1..Len(rows) /\ v[3] <= base + kBlockRows
    BY <1>1, <1>2, <1>3, <2>1 DEF WrittenRows
  <2>3. ~(v[3] <= base)
    <3> SUFFICES ASSUME v[3] <= base PROVE FALSE
      OBVIOUS
    <3>1. v[3] \in WrittenRows
      BY <1>1, <2>2 DEF WrittenRows, base
    <3>2. v \in slots \X (0..kWordBits - 1) \X WrittenRows
      BY <2>1, <3>1
    <3> QED
      BY <1>12, <2>1, <3>2 DEF Ones
  <2> DEFINE i == v[3] - 1 - base
             w == <<v[1], v[2], i>>
  <2>3a. i \in 0..kBlockRows - 1 /\ base + i + 1 = v[3]
    BY <1>1, <2>2, <2>3
  <2> HIDE DEF i
  <2>4. w \in word /\ w[1] = v[1] /\ w[2] = v[2] /\ w[3] = i
    BY <2>1, <2>3a
  <2>5. w \in ones
    BY <2>1, <2>2, <2>3a, <2>4 DEF IsOne
  <2>6. In(w) = v
    BY <2>1, <2>3a, <2>4
  <2> QED
    BY <2>5, <2>6
<1>13. hot_data_planes = PlacesOf(Ones) \cup Promoted /\ Promoted = {} /\ Promoted' = {}
  BY <1>2, ByPlaces DEF PInv, InOrder, Promoted
<1> HIDE DEF word, ones, At, In
<1>14. hot_data_planes' = PlacesOf(Ones) \cup {At(w) : w \in ones}
  <2>1. PlacesOf(Ones) \cap {At(w) : w \in word} = {}
    BY <1>9 DEF PlacesOf
  <2> QED
    BY <1>2, <1>13, <2>1
<1>15. PlacesOf(Ones)' = PlacesOf(Ones) \cup {At(w) : w \in ones}
  BY <1>10, <1>11, <1>12 DEF PlacesOf
<1>16. PlanesHoldRows'
  BY <1>13, <1>14, <1>15, ByPlaces
<1>17. InOrder'
  <2>1. ~promoted' /\ stage' = "ingesting"
    BY <1>2 DEF PInv, InOrder
  <2>2. BlockParsed /\ IngestedLines' = IngestedLines /\ Len(rows)' = Len(rows)
    BY <1>2 DEF WriteBlock, IngestedLines
  <2>3. block_idx' * kBlockRows <= Len(rows)' \/ Len(rows)' = IngestedLines'
    <3>1. Len(rows) = (block_idx + 1) * kBlockRows \/ Len(rows) = IngestedLines
      BY <2>2 DEF BlockParsed
    <3>2. CASE Len(rows) = (block_idx + 1) * kBlockRows
      <4>1. block_idx' * kBlockRows = Len(rows)
        BY ONLY <1>3, <3>2
      <4>2. block_idx' * kBlockRows <= Len(rows)
        BY ONLY <1>1, <4>1
      <4> QED
        BY <2>2, <4>2
    <3> QED
      BY <2>2, <3>1, <3>2
  <2> QED
    BY <2>1, <2>3 DEF InOrder
<1>18. WarmCovered'
  BY <1>2 DEF PInv, WarmCovered
<1> QED
  BY <1>16, <1>17, <1>18 DEF PInv

\* Every warm string is in the filter, so that a promotion writes a 1 for each.
LEMMA PlanesPromote == IInv /\ PInv /\ Promote => PInv'
<1> SUFFICES ASSUME IInv, PInv, Promote PROVE PInv'
  OBVIOUS
<1>1. warm_dict_strings \in Seq(Strings) /\ kRows \in Nat
  BY Sizes DEF IInv, TypeOK
<1>2. \A j \in PromotedRows : j + 1 \in DOMAIN warm_dict_strings
  BY <1>1 DEF PromotedRows
<1>3. \A j \in PromotedRows : contains(string_bloom, warm_dict_strings[j + 1])
  BY <1>2 DEF PInv, WarmCovered, contains
<1> DEFINE target == {ByteBit(TargetSlot, 0, i) : i \in PromotedRows}
<1>4. hot_data_planes' = hot_data_planes \cup target
  <2>1. {j \in PromotedRows : contains(string_bloom, warm_dict_strings[j + 1])} = PromotedRows
    BY <1>3
  <2> QED
    BY <2>1 DEF Promote
<1>5. UNCHANGED <<stage, rows, block_idx, warm_dict_strings, string_bloom, raw_chunk_buffer>> /\ promoted'
      /\ stage = "done"
  BY DEF Promote
<1>6. PlacesOf(Ones)' = PlacesOf(Ones)
  BY <1>5 DEF PlacesOf, Ones, IsOne, WrittenRows
<1>7. Promoted' = target /\ Promoted \subseteq target
  BY <1>5 DEF Promoted, PromotedRows
<1>8. PlanesHoldRows'
  BY <1>4, <1>6, <1>7, ByPlaces DEF PInv
<1> QED
  BY <1>5, <1>8 DEF PInv, InOrder, WarmCovered

\* Every step keeps the planes.
LEMMA PlanesNext == IInv /\ PInv /\ [Next]_vars => PInv'
<1> SUFFICES ASSUME IInv, PInv, [Next]_vars PROVE PInv'
  OBVIOUS
<1>1. ASSUME UNCHANGED <<rows, block_idx, warm_dict_strings, string_bloom, hot_data_planes, promoted>>, InOrder'
      PROVE  PInv'
  <2>1. Ones' = Ones
    BY <1>1 DEF Ones, IsOne, WrittenRows
  <2>2. PlanesHoldRows'
    BY <1>1, <2>1, PlanesUntouched DEF PInv
  <2> QED
    BY <1>1, <2>2 DEF PInv, WarmCovered
<1>2. ASSUME NEW batch \in Batches, StageRaw(batch) PROVE PInv'
  <2>1. InOrder'
    BY <1>2 DEF StageRaw, planes, PInv, InOrder
  <2> QED
    BY <1>1, <1>2, <2>1 DEF StageRaw, metadata, planes
<1>3. CASE BeginIngest
  <2>1. block_idx = 0 /\ block_idx' = 0 /\ ~promoted /\ promoted' = promoted /\ stage' = "ingesting"
        /\ rows' = rows /\ Len(rows) \in Nat /\ 0 * kBlockRows = 0
    BY <1>3, PlannerAssumption DEF BeginIngest, planes, PInv, InOrder, IInv, TypeOK
  <2>2. InOrder'
    BY <2>1 DEF InOrder
  <2> QED
    BY <1>1, <1>3, <2>2 DEF BeginIngest, metadata, planes
<1>4. CASE FinishIngest
  <2>1. InOrder'
    BY <1>4 DEF FinishIngest, InOrder
  <2> QED
    BY <1>1, <1>4, <2>1 DEF FinishIngest, metadata, planes
<1>5. CASE record_query_access
  <2>1. InOrder'
    BY <1>5 DEF record_query_access, PInv, InOrder, IngestedLines
  <2> QED
    BY <1>1, <1>5, <2>1 DEF record_query_access, metadata
<1>6. CASE UNCHANGED vars
  <2>1. InOrder'
    BY <1>6 DEF vars, planes, PInv, InOrder, IngestedLines
  <2> QED
    BY <1>1, <1>6, <2>1 DEF vars, metadata, planes
<1> QED
  BY <1>2, <1>3, <1>4, <1>5, <1>6, PlanesIngestRow, PlanesWriteBlock, PlanesPromote DEF Next

\* The planes of a new row group are 0.
LEMMA PlanesInit == Init => PInv
<1> SUFFICES ASSUME Init PROVE PInv
  OBVIOUS
<1>1. Ones = {} /\ Promoted = {} /\ hot_data_planes = {}
  BY DEF Init, Ones, WrittenRows, Promoted
<1>2. PlanesHoldRows
  BY <1>1, ByPlaces DEF PlacesOf
<1> QED
  BY <1>2 DEF PInv, InOrder, WarmCovered, Init

\* ingest_chunk and execute_compaction_promotion, which compute addresses in
\* different ways, write every value bit for bit, and into no other block,
\* plane or column, for every size of words, bytes, blocks and groups.
THEOREM PlanesCorrect == Spec => []PlanesHoldRows
<1>1. Spec => []PInv
  BY PlanesInit, PlanesNext, MetadataCorrect, PTL DEF Spec
<1>2. PInv => PlanesHoldRows
  BY DEF PInv
<1> QED
  BY <1>1, <1>2, PTL

-----------------------------------------------------------------------------
(* The presence bits.                                                       *)

BlockBit(r) == PresenceBit(r \div kBlockRows)

\* The bits of a slot are those of the blocks of its rows.
Marked == \A s \in DOMAIN null_maps : null_maps[s] = {BlockBit(r) : r \in RowsOf(s)}

\* The rows of a slot are rows of the group.
LEMMA SlotRows == ASSUME IInv, NEW slot PROVE RowsOf(slot) \subseteq 0..kRows - 1
<1>1. rows \in Seq(Doc) /\ warm_dict_strings \in Seq(Strings) /\ Len(rows) <= kRows /\ kRows \in Nat
  BY Sizes DEF IInv, TypeOK
<1>2. DOMAIN rows = 1..Len(rows) /\ Len(rows) \in Nat
  BY <1>1
<1>3. PromotedRows \subseteq 0..kRows - 1
  BY <1>1 DEF PromotedRows
<1>4. \A i \in DOMAIN rows : i - 1 \in 0..kRows - 1
  BY <1>1, <1>2
<1> QED
  BY <1>3, <1>4 DEF RowsOf

\* A row of the group lies in a block of the group.
LEMMA RowBlock == ASSUME NEW r \in 0..kRows - 1 PROVE r \div kBlockRows \in 0..kBlocks - 1
<1>1. kRows \in Nat /\ kBlocks \in Nat /\ kBlockRows \in Nat \ {0} /\ r \in Nat /\ r < kBlocks * kBlockRows
  BY PlannerAssumption, Sizes DEF kRows
<1>2. r \div kBlockRows \in Nat /\ r \div kBlockRows < kBlocks
  BY <1>1, Division
<1> QED
  BY <1>1, <1>2

\* set_block_presence of the blocks of some rows of the group.
LEMMA BlockBits ==
    ASSUME NEW R \in SUBSET (0..kRows - 1)
    PROVE  PresenceBits({BlockOf(r) : r \in R}) = {BlockBit(r) : r \in R}
<1>1. \A r \in R : BlockOf(r) = r \div kBlockRows /\ BlockOf(r) < kBlocks
  BY RowBlock, PlannerAssumption DEF BlockOf
<1> QED
  BY <1>1 DEF PresenceBits, BlockBit

\* No two blocks share a presence bit.
LEMMA BlockBitsApart ==
    ASSUME NEW b \in Nat, NEW c \in Nat, PresenceBit(b) = PresenceBit(c)
    PROVE  b = c
<1>1. kWordBits \in Nat \ {0}
  BY PlannerAssumption
<1>2. b = kWordBits * (b \div kWordBits) + (b % kWordBits)
      /\ c = kWordBits * (c \div kWordBits) + (c % kWordBits)
  BY ONLY <1>1, b \in Nat, c \in Nat
<1>3. b \div kWordBits = c \div kWordBits /\ b % kWordBits = c % kWordBits
  BY DEF PresenceBit
<1> QED
  BY <1>2, <1>3

\* An ingested row marks its own block, in every slot but the target.
LEMMA MarkedIngestRow == IInv /\ InOrder /\ Marked /\ IngestRow => Marked'
<1> SUFFICES ASSUME IInv, InOrder, Marked, IngestRow PROVE Marked'
  OBVIOUS
<1> DEFINE n == Len(rows)
<1>1. /\ rows \in Seq(Doc) /\ n \in Nat /\ DOMAIN rows = 1..n /\ ~promoted /\ ~promoted'
      /\ DOMAIN rows' = 1..n + 1 /\ n < kRows
      /\ DOMAIN null_maps = {StatusSlot, LatencySlot, TraceSlot, TargetSlot}
      /\ DOMAIN null_maps' = DOMAIN null_maps
  <2>1. rows \in Seq(Doc) /\ raw_chunk_buffer \in Seq(Doc) /\ n \in Nat /\ n < IngestedLines
        /\ rows' = Append(rows, raw_chunk_buffer[n + 1]) /\ kRows \in Nat
    BY Sizes DEF IInv, TypeOK, IngestRow
  <2>2. IngestedLines \in Nat /\ IngestedLines <= kRows /\ IngestedLines <= Len(raw_chunk_buffer)
    BY <2>1 DEF IngestedLines
  <2>3. DOMAIN rows' = 1..n + 1 /\ n < kRows
    <3>1. raw_chunk_buffer[n + 1] \in Doc
      BY <2>1, <2>2
    <3> QED
      BY ONLY <2>1, <2>2, <3>1
  <2>4. ~promoted /\ ~promoted'
    BY DEF IngestRow, planes, InOrder
  <2> QED
    BY <2>1, <2>3, <2>4 DEF IInv, TypeOK, IngestRow
<1>2. {i - 1 : i \in DOMAIN rows'} = {i - 1 : i \in DOMAIN rows} \cup {n}
  <2>1. \A i \in 1..n + 1 : i \in 1..n \/ i = n + 1
    BY <1>1
  <2>2. n + 1 \in 1..n + 1 /\ (n + 1) - 1 = n /\ \A i \in 1..n : i \in 1..n + 1
    BY <1>1
  <2> HIDE DEF n
  <2>3. {i - 1 : i \in 1..n + 1} = {i - 1 : i \in 1..n} \cup {n}
    <3>1. ASSUME NEW i \in 1..n + 1 PROVE i - 1 \in {j - 1 : j \in 1..n} \cup {n}
      <4>1. CASE i \in 1..n
        BY <4>1
      <4>2. CASE i = n + 1
        BY <2>2, <4>2
      <4> QED
        BY <2>1, <4>1, <4>2
    <3>2. ASSUME NEW i \in 1..n PROVE i - 1 \in {j - 1 : j \in 1..n + 1}
      BY <2>2, <3>2
    <3>3. n \in {j - 1 : j \in 1..n + 1}
      BY <2>2
    <3>4. {i - 1 : i \in 1..n + 1} \subseteq {i - 1 : i \in 1..n} \cup {n}
      BY ONLY <3>1
    <3> QED
      BY ONLY <3>2, <3>3, <3>4
  <2> QED
    BY <1>1, <2>3
<1>3. PresenceBits({BlockOf(n)}) = {BlockBit(n)}
  <2>1. {n} \in SUBSET (0..kRows - 1)
    BY <1>1, Sizes
  <2>2. {BlockOf(r) : r \in {n}} = {BlockOf(n)} /\ {BlockBit(r) : r \in {n}} = {BlockBit(n)}
    OBVIOUS
  <2> HIDE DEF n
  <2> QED
    BY <2>1, <2>2, BlockBits
<1>4. \A s \in DOMAIN null_maps :
        null_maps'[s] = IF s = TargetSlot THEN null_maps[s] ELSE null_maps[s] \cup {BlockBit(n)}
  BY <1>3 DEF IngestRow
<1>5. \A s : RowsOf(s)' = IF s = TargetSlot THEN RowsOf(s) ELSE RowsOf(s) \cup {n}
  BY <1>1, <1>2 DEF RowsOf
<1> HIDE DEF n
<1>6. ASSUME NEW s \in DOMAIN null_maps PROVE null_maps'[s] = {BlockBit(r) : r \in RowsOf(s)'}
  BY <1>4, <1>5, <1>6 DEF Marked
<1> QED
  BY <1>1, <1>6 DEF Marked, BlockBit, PresenceBit

\* A promotion marks the blocks of its rows, in the target slot.
LEMMA MarkedPromote == IInv /\ Marked /\ Promote => Marked'
<1> SUFFICES ASSUME IInv, Marked, Promote PROVE Marked'
  OBVIOUS
<1>1. UNCHANGED <<rows, warm_dict_strings>> /\ promoted' = TRUE
  BY DEF Promote
<1>2. PromotedRows' = PromotedRows /\ RowsOf(TargetSlot)' = PromotedRows
      /\ RowsOf(TargetSlot) \subseteq PromotedRows
      /\ \A s : s # TargetSlot => RowsOf(s)' = RowsOf(s)
  BY <1>1 DEF PromotedRows, RowsOf
<1>3. PresenceBits({BlockOf(i) : i \in PromotedRows}) = {BlockBit(i) : i \in PromotedRows}
  <2>1. PromotedRows \in SUBSET (0..kRows - 1)
    <3>1. warm_dict_strings \in Seq(Strings) /\ kRows \in Nat
      BY Sizes DEF IInv, TypeOK
    <3> QED
      BY <3>1 DEF PromotedRows
  <2> QED
    BY <2>1, BlockBits
<1>4. /\ DOMAIN null_maps' = DOMAIN null_maps
      /\ TargetSlot \in DOMAIN null_maps
      /\ null_maps'[TargetSlot] = null_maps[TargetSlot] \cup {BlockBit(i) : i \in PromotedRows}
      /\ \A s \in DOMAIN null_maps : s # TargetSlot => null_maps'[s] = null_maps[s]
  <2>1. null_maps' = [null_maps EXCEPT ![TargetSlot] =
                        null_maps[TargetSlot] \cup {BlockBit(i) : i \in PromotedRows}]
    BY <1>3 DEF Promote
  <2> QED
    BY <2>1 DEF IInv, TypeOK
<1>5. ASSUME NEW s \in DOMAIN null_maps PROVE null_maps'[s] = {BlockBit(r) : r \in RowsOf(s)'}
  BY <1>2, <1>4, <1>5 DEF Marked
<1> QED
  BY <1>4, <1>5 DEF Marked, BlockBit, PresenceBit

\* Every step keeps the bits of a slot those of its blocks.
LEMMA MarkedNext == IInv /\ InOrder /\ Marked /\ [Next]_vars => Marked'
<1> SUFFICES ASSUME IInv, InOrder, Marked, [Next]_vars PROVE Marked'
  OBVIOUS
<1>1. ASSUME UNCHANGED <<rows, warm_dict_strings, null_maps, promoted>> PROVE Marked'
  BY <1>1 DEF Marked, RowsOf, PromotedRows
<1>2. \/ UNCHANGED <<rows, warm_dict_strings, null_maps, promoted>> \/ IngestRow \/ Promote
  BY DEF Next, StageRaw, BeginIngest, WriteBlock, FinishIngest, record_query_access, vars, metadata,
         planes
<1> QED
  BY <1>1, <1>2, MarkedIngestRow, MarkedPromote

\* The bits of a slot are those of its blocks, and the planes hold nothing but
\* values of its rows: no block is marked without a row, and none with a 1 in
\* a plane is left out.
LEMMA MarkedMeansPresent == IInv /\ PInv /\ Marked => BlocksPresent
<1> SUFFICES ASSUME IInv, PInv, Marked PROVE BlocksPresent
  OBVIOUS
<1>1. ASSUME NEW s \in DOMAIN null_maps, NEW r \in RowsOf(s)
      PROVE  check_block_presence(s, r \div kBlockRows)
  <2>1. r \in 0..kRows - 1
    BY <1>1, SlotRows
  <2>2. r \div kBlockRows \in 0..kBlocks - 1
    BY <2>1, RowBlock
  <2>3. r \div kBlockRows < kBlocks
    BY <2>2, PlannerAssumption
  <2>4. PresenceBit(r \div kBlockRows) \in null_maps[s]
    BY <1>1 DEF Marked, BlockBit
  <2> QED
    BY <2>3, <2>4 DEF check_block_presence
<1>2. ASSUME NEW s \in DOMAIN null_maps, NEW b \in 0..kBlocks - 1, check_block_presence(s, b)
      PROVE  \E r \in RowsOf(s) : r \div kBlockRows = b
  <2>1. PICK r \in RowsOf(s) : PresenceBit(b) = PresenceBit(r \div kBlockRows)
    BY <1>2 DEF check_block_presence, Marked, BlockBit
  <2>2. r \in 0..kRows - 1
    BY SlotRows
  <2>3. r \div kBlockRows \in Nat /\ b \in Nat
    BY <2>2, RowBlock, PlannerAssumption
  <2> QED
    BY <2>1, <2>3, BlockBitsApart
<1>3. ASSUME NEW s \in {StatusSlot, LatencySlot, TargetSlot}, NEW bit \in 0..kWordBits - 1,
             NEW r \in 0..kRows - 1, ByteBit(s, bit, r) \in hot_data_planes
      PROVE  r \in RowsOf(s)
  <2>0. /\ kWordBits \in Nat \ {0} /\ 0 \in 0..kWordBits - 1 /\ s \in Nat /\ TargetSlot \in Nat
        /\ bit \in Nat /\ r \in Nat /\ TargetSlot \notin {StatusSlot, LatencySlot}
    BY PlannerAssumption DEF StatusSlot, LatencySlot
  <2>1. ByteBit(s, bit, r) = Place(s, bit, r)
    BY <2>0, AddressesAgree
  <2>2. ByteBit(s, bit, r) \in PlacesOf(Ones) \cup Promoted
    BY <1>3, ByPlaces DEF PInv
  <2>3. CASE ByteBit(s, bit, r) \in PlacesOf(Ones)
    <3>1. PICK w \in Ones : ByteBit(s, bit, r) = ByteBit(w[1], w[2], w[3] - 1)
      BY <2>3 DEF PlacesOf
    <3>2. w[1] \in {StatusSlot, LatencySlot} /\ w[2] \in 0..kWordBits - 1 /\ w[3] \in DOMAIN rows
      BY DEF Ones, WrittenRows
    <3>3. w[1] \in Nat /\ w[2] \in Nat /\ w[1] # TargetSlot
      BY <2>0, <3>2 DEF StatusSlot, LatencySlot
    <3>4. w[3] - 1 \in RowsOf(w[1]) /\ w[3] - 1 \in 0..kRows - 1
      BY <3>2, <3>3, SlotRows DEF RowsOf
    <3>5. w[3] - 1 \in Nat
      BY <3>4
    <3>6. Place(s, bit, r) = Place(w[1], w[2], w[3] - 1)
      BY <2>1, <3>1, <3>3, <3>5, AddressesAgree
    <3> DEFINE t == w[1]
               b == w[2]
               q == w[3] - 1
    <3>7. /\ s \in Nat /\ t \in Nat /\ bit \in 0..kWordBits - 1 /\ b \in 0..kWordBits - 1
          /\ r \in 0..kRows - 1 /\ q \in 0..kRows - 1 /\ Place(s, bit, r) = Place(t, b, q)
      BY <2>0, <3>2, <3>3, <3>4, <3>6
    <3> HIDE DEF t, b, q
    <3>8. s = t /\ r = q
      BY ONLY <3>7, PlacesApart
    <3> QED
      BY <3>4, <3>8 DEF t, q
  <2>4. CASE ByteBit(s, bit, r) \in Promoted
    <3>1. PICK i \in PromotedRows : promoted /\ ByteBit(s, bit, r) = ByteBit(TargetSlot, 0, i)
      BY <2>4 DEF Promoted
    <3>2. i \in RowsOf(TargetSlot) /\ i \in 0..kRows - 1
      BY <3>1, SlotRows DEF RowsOf
    <3>3. i \in Nat
      BY <3>2
    <3>4. Place(s, bit, r) = Place(TargetSlot, 0, i)
      BY <2>0, <2>1, <3>1, <3>3, AddressesAgree
    <3>5. s = TargetSlot /\ r = i
      BY <2>0, <3>2, <3>4, PlacesApart
    <3> QED
      BY <3>2, <3>5
  <2> QED
    BY <2>2, <2>3, <2>4
<1>4. {StatusSlot, LatencySlot, TargetSlot} \subseteq DOMAIN null_maps
  BY DEF IInv, TypeOK
<1>5. \A s \in DOMAIN null_maps : \A b \in 0..kBlocks - 1 :
        check_block_presence(s, b) <=> \E r \in RowsOf(s) : r \div kBlockRows = b
  BY <1>1, <1>2
<1>6. \A s \in {StatusSlot, LatencySlot, TargetSlot} : \A bit \in 0..kWordBits - 1 :
        \A r \in 0..kRows - 1 :
          ByteBit(s, bit, r) \in hot_data_planes => check_block_presence(s, r \div kBlockRows)
  BY <1>1, <1>3, <1>4
<1> QED
  BY <1>5, <1>6 DEF BlocksPresent

\* In every slot, that of a promotion included, exactly the blocks with rows
\* are marked present, and with them every block that has a 1 in a plane, for
\* every batch and every size of words, blocks and groups.
THEOREM PresenceCorrect == Spec => []BlocksPresent
<1>1. Init => Marked
  BY DEF Init, Marked, RowsOf
<1>2. IInv /\ PInv /\ Marked /\ [Next]_vars => Marked'
  BY MarkedNext DEF PInv
<1>3. Spec => []PInv
  BY PlanesInit, PlanesNext, MetadataCorrect, PTL DEF Spec
<1>4. Spec => []Marked
  BY <1>1, <1>2, <1>3, MetadataCorrect, PTL DEF Spec
<1> QED
  BY <1>3, <1>4, MarkedMeansPresent, MetadataCorrect, PTL

-----------------------------------------------------------------------------
(***************************************************************************)
(* The plan cache, for every capacity and every set of hashes: list and    *)
(* map agree, eviction takes the least recently used plan, and no lookup   *)
(* finds a plan that was replaced.                                         *)
(***************************************************************************)

PlanEntry == [subset_hash : Hashes, func : Funcs]

CacheTypes ==
    /\ lru_list \in Seq(PlanEntry)
    /\ recency \in Seq(Hashes)
    /\ latest \in [ToSet(recency) -> Funcs]

\* The list is the beginning of the order of use, as long as there is room.
Aligned ==
    /\ Len(lru_list) = IF Len(recency) < capacity THEN Len(recency) ELSE capacity
    /\ \A i \in 1..Len(lru_list) : lru_list[i].subset_hash = recency[i]

Distinct == \A i, j \in 1..Len(recency) : recency[i] = recency[j] => i = j

FirstOf(s, n) == {s[i] : i \in 1..n}

InMap == cache_map = FirstOf(recency, Len(lru_list))

Current ==
    \A i \in 1..Len(lru_list) : lru_list[i].func = latest[lru_list[i].subset_hash]

CacheInv == CacheTypes /\ Aligned /\ Distinct /\ InMap /\ Current

\* From the second on, t is s with its k-th element gone from its place.
Shifted(s, t, n, k) == \A i \in 2..n : t[i] = IF i <= k THEN s[i - 1] ELSE s[i]

-----------------------------------------------------------------------------
(* Sequences.                                                               *)

\* push_front.
LEMMA PushFront ==
    ASSUME NEW S, NEW s \in Seq(S), NEW x \in S
    PROVE  /\ <<x>> \o s \in Seq(S) /\ Len(<<x>> \o s) = Len(s) + 1
           /\ (<<x>> \o s)[1] = x
           /\ \A i \in 2..Len(s) + 1 : (<<x>> \o s)[i] = s[i - 1]
<1>1. <<x>> \in Seq(S) /\ Len(<<x>>) = 1 /\ <<x>>[1] = x /\ Len(s) \in Nat
  OBVIOUS
<1> QED
  BY <1>1, ConcatProperties

\* erase.
LEMMA Removed ==
    ASSUME NEW S, NEW s \in Seq(S), NEW k \in 1..Len(s)
    PROVE  /\ RemoveAt(s, k) \in Seq(S) /\ Len(RemoveAt(s, k)) = Len(s) - 1
           /\ \A i \in 1..Len(s) - 1 : RemoveAt(s, k)[i] = IF i < k THEN s[i] ELSE s[i + 1]
<1> DEFINE a == SubSeq(s, 1, k - 1)
           b == SubSeq(s, k + 1, Len(s))
<1>0. Len(s) \in Nat /\ k \in Nat /\ k >= 1 /\ k <= Len(s) /\ \A i \in 1..Len(s) : s[i] \in S
  BY ElementOfSeq, LenProperties
<1>1. /\ a \in Seq(S) /\ Len(a) = k - 1
      /\ \A i \in 1..k - 1 : a[i] = s[i]
  BY <1>0, SubSeqProperties
<1>2. /\ b \in Seq(S) /\ Len(b) = Len(s) - k
      /\ \A i \in 1..Len(s) - k : b[i] = s[k + i]
  BY <1>0, SubSeqProperties
<1> HIDE DEF a, b
<1>3. /\ a \o b \in Seq(S) /\ Len(a \o b) = Len(s) - 1
      /\ \A i \in 1..Len(s) - 1 : (a \o b)[i] = IF i <= k - 1 THEN a[i] ELSE b[i - (k - 1)]
  BY <1>0, <1>1, <1>2, ConcatProperties
<1>4. \A i \in 1..Len(s) - 1 : (a \o b)[i] = IF i < k THEN s[i] ELSE s[i + 1]
  <2> SUFFICES ASSUME NEW i \in 1..Len(s) - 1
               PROVE  (a \o b)[i] = IF i < k THEN s[i] ELSE s[i + 1]
    OBVIOUS
  <2>1. CASE i < k
    BY ONLY <1>0, <1>1, <1>3, <2>1, i \in 1..Len(s) - 1
  <2>2. CASE i >= k
    <3>1. i - (k - 1) \in 1..Len(s) - k /\ k + (i - (k - 1)) = i + 1 /\ ~(i <= k - 1)
      BY <1>0, <2>2
    <3> QED
      BY ONLY <1>0, <1>2, <1>3, <2>2, <3>1, i \in 1..Len(s) - 1
  <2>3. i < k \/ i >= k
    BY ONLY <1>0, i \in 1..Len(s) - 1
  <2> QED
    BY ONLY <2>1, <2>2, <2>3
<1> QED
  BY <1>3, <1>4 DEF RemoveAt, a, b

\* splice to the front (with a new value, perhaps).
LEMMA Spliced ==
    ASSUME NEW S, NEW s \in Seq(S), NEW k \in 1..Len(s), NEW x \in S
    PROVE  /\ <<x>> \o RemoveAt(s, k) \in Seq(S) /\ Len(<<x>> \o RemoveAt(s, k)) = Len(s)
           /\ (<<x>> \o RemoveAt(s, k))[1] = x
           /\ Shifted(s, <<x>> \o RemoveAt(s, k), Len(s), k)
<1> DEFINE r == RemoveAt(s, k)
<1>1. /\ r \in Seq(S) /\ Len(r) = Len(s) - 1 /\ Len(s) \in Nat
      /\ \A i \in 1..Len(s) - 1 : r[i] = IF i < k THEN s[i] ELSE s[i + 1]
  <2>1. Len(s) \in Nat
    BY LenProperties
  <2>2. /\ r \in Seq(S) /\ Len(r) = Len(s) - 1
        /\ \A i \in 1..Len(s) - 1 : r[i] = IF i < k THEN s[i] ELSE s[i + 1]
    BY Removed, Zenon
  <2> QED
    BY <2>1, <2>2
<1> HIDE DEF r
<1>2. /\ <<x>> \o r \in Seq(S) /\ Len(<<x>> \o r) = Len(r) + 1
      /\ (<<x>> \o r)[1] = x
      /\ \A i \in 2..Len(r) + 1 : (<<x>> \o r)[i] = r[i - 1]
  BY <1>1, PushFront
<1>3. \A i \in 2..Len(s) : (<<x>> \o r)[i] = IF i <= k THEN s[i - 1] ELSE s[i]
  BY ONLY <1>1, <1>2, k \in 1..Len(s)
<1> QED
  BY ONLY <1>1, <1>2, <1>3 DEF r, Shifted

\* Moving one of the first n to the front leaves the set of the first n.
LEMMA SameElements ==
    ASSUME NEW s, NEW t, NEW n \in Nat, NEW k \in 1..n, t[1] = s[k], Shifted(s, t, n, k)
    PROVE  FirstOf(t, n) = FirstOf(s, n)
<1>1. \A i \in 1..n : \E j \in 1..n : t[i] = s[j]
  <2> SUFFICES ASSUME NEW i \in 1..n PROVE \E j \in 1..n : t[i] = s[j]
    OBVIOUS
  <2>1. i = 1 \/ (i \in 2..n /\ i - 1 \in 1..n)
    OBVIOUS
  <2> QED
    BY <2>1 DEF Shifted
<1>2. \A j \in 1..n : \E i \in 1..n : t[i] = s[j]
  <2> SUFFICES ASSUME NEW j \in 1..n PROVE \E i \in 1..n : t[i] = s[j]
    OBVIOUS
  <2>1. CASE j = k
    BY <2>1
  <2>2. CASE j < k
    <3>1. j + 1 \in 2..n /\ j + 1 <= k /\ j + 1 - 1 = j
      BY <2>2
    <3> QED
      BY <3>1 DEF Shifted
  <2>3. CASE j > k
    <3>1. j \in 2..n /\ ~(j <= k)
      BY <2>3
    <3> QED
      BY <3>1 DEF Shifted
  <2> QED
    BY <2>1, <2>2, <2>3
<1> QED
  BY ONLY <1>1, <1>2 DEF FirstOf

-----------------------------------------------------------------------------
(* The operators of the model.                                              *)

\* Where an iterator points.
LEMMA NodePoints ==
    ASSUME CacheInv, NEW h \in cache_map
    PROVE  Node(h) \in 1..Len(lru_list) /\ lru_list[Node(h)].subset_hash = h
<1>1. \E i \in DOMAIN lru_list : lru_list[i].subset_hash = h
  BY LenProperties DEF CacheInv, CacheTypes, Aligned, InMap, FirstOf
<1>2. DOMAIN lru_list = 1..Len(lru_list)
  BY LenProperties DEF CacheInv, CacheTypes
<1> QED
  BY <1>1, <1>2 DEF Node

\* cache_map.size() counts the list.
LEMMA MapSize ==
    ASSUME CacheInv
    PROVE  Cardinality(cache_map) = Len(lru_list)
<1> DEFINE n == Len(lru_list)
           f == [i \in 1..n |-> lru_list[i].subset_hash]
<1>0. n \in Nat /\ Len(recency) \in Nat /\ n <= Len(recency)
  BY LenProperties, CapacityAssumption DEF CacheInv, CacheTypes, Aligned
<1>1. f \in Bijection(1..n, cache_map)
  <2>1. \A i, j \in 1..n : f[i] = f[j] => i = j
    BY <1>0 DEF CacheInv, Aligned, Distinct
  <2>2. cache_map = {f[i] : i \in 1..n}
    BY DEF CacheInv, Aligned, InMap, FirstOf
  <2> QED
    BY <2>1, <2>2 DEF Bijection, Injection, Surjection, IsInjective
<1>2. IsFiniteSet(1..n) /\ Cardinality(1..n) = n
  <2>1. 1 \in Int /\ n \in Int /\ (IF 1 > n THEN 0 ELSE n - 1 + 1) = n
    BY <1>0
  <2> HIDE DEF n
  <2> QED
    BY ONLY <2>1, FS_Interval
<1> QED
  BY <1>1, <1>2, FS_Bijection DEF ExistsBijection

\* The order of use after a use of h.
LEMMA Used ==
    ASSUME CacheInv, NEW h \in Hashes, Use(h)
    PROVE  /\ recency' \in Seq(Hashes) /\ ToSet(recency') = ToSet(recency) \cup {h}
           /\ Distinct'
           /\ recency'[1] = h
           /\ \/ \E k \in 1..Len(recency) :
                   /\ recency[k] = h /\ Len(recency') = Len(recency)
                   /\ Shifted(recency, recency', Len(recency), k)
              \/ /\ \A i \in 1..Len(recency) : recency[i] # h
                 /\ Len(recency') = Len(recency) + 1
                 /\ \A i \in 2..Len(recency) + 1 : recency'[i] = recency[i - 1]
<1>0. /\ recency \in Seq(Hashes) /\ Len(recency) \in Nat /\ DOMAIN recency = 1..Len(recency)
      /\ ToSet(recency) = {recency[i] : i \in 1..Len(recency)} /\ Distinct
      /\ recency' \in Seq(Hashes) => ToSet(recency') = {recency'[i] : i \in 1..Len(recency')}
  BY LenProperties DEF CacheInv, CacheTypes, ToSet
<1>1. CASE h \in ToSet(recency)
  <2> DEFINE k == CHOOSE i \in DOMAIN recency : recency[i] = h
  <2>1. k \in 1..Len(recency) /\ recency[k] = h
    BY <1>0, <1>1
  <2>2. recency' = <<h>> \o RemoveAt(recency, k)
    BY <1>1 DEF Use
  <2> HIDE DEF k
  <2>3. /\ recency' \in Seq(Hashes) /\ Len(recency') = Len(recency) /\ recency'[1] = h
        /\ Shifted(recency, recency', Len(recency), k)
    <3> DEFINE t == <<h>> \o RemoveAt(recency, k)
    <3>1. /\ t \in Seq(Hashes) /\ Len(t) = Len(recency) /\ t[1] = h
          /\ Shifted(recency, t, Len(recency), k)
      <4>1. recency \in Seq(Hashes) /\ k \in 1..Len(recency) /\ h \in Hashes
        BY <1>0, <2>1
      <4> QED
        BY ONLY <4>1, Spliced
    <3> QED
      BY ONLY <2>2, <3>1
  <2>4. ToSet(recency') = ToSet(recency) \cup {h}
    <3>1. FirstOf(recency', Len(recency)) = FirstOf(recency, Len(recency))
      <4>1. /\ Len(recency) \in Nat /\ k \in 1..Len(recency) /\ recency'[1] = recency[k]
            /\ Shifted(recency, recency', Len(recency), k)
        BY <1>0, <2>1, <2>3
      <4> QED
        BY ONLY <4>1, SameElements
    <3>2. ToSet(recency') = ToSet(recency)
      BY <1>0, <2>3, <3>1 DEF FirstOf
    <3> QED
      BY <1>1, <3>2
  <2>5. Distinct'
    <3> SUFFICES ASSUME NEW i \in 1..Len(recency), NEW j \in 1..Len(recency),
                        recency'[i] = recency'[j]
                 PROVE  i = j
      BY <2>3 DEF Distinct
    <3> DEFINE at(x) == IF x = 1 THEN k ELSE IF x <= k THEN x - 1 ELSE x
    <3>1. \A x \in 1..Len(recency) : at(x) \in 1..Len(recency) /\ recency'[x] = recency[at(x)]
      BY ONLY <1>0, <2>1, <2>3 DEF Shifted
    <3>2. at(i) = at(j)
      BY <1>0, <3>1 DEF Distinct
    <3> QED
      BY ONLY <1>0, <2>1, <3>2, i \in 1..Len(recency), j \in 1..Len(recency)
  <2> QED
    BY ONLY <2>1, <2>3, <2>4, <2>5
<1>2. CASE h \notin ToSet(recency)
  <2>1. recency' = <<h>> \o recency
    BY <1>2 DEF Use
  <2>2. /\ recency' \in Seq(Hashes) /\ Len(recency') = Len(recency) + 1 /\ recency'[1] = h
        /\ \A i \in 2..Len(recency) + 1 : recency'[i] = recency[i - 1]
    BY <1>0, <2>1, PushFront
  <2>3. \A i \in 1..Len(recency) : recency[i] # h
    BY <1>0, <1>2
  <2>4. \A i \in 1..Len(recency) : i + 1 \in 2..Len(recency) + 1 /\ recency'[i + 1] = recency[i]
    BY ONLY <1>0, <2>2
  <2>5. ToSet(recency') = ToSet(recency) \cup {h}
    <3>1. \A i \in 1..Len(recency) + 1 : i = 1 \/ (i - 1 \in 1..Len(recency) /\ i \in 2..Len(recency) + 1)
      BY <1>0
    <3> QED
      BY ONLY <1>0, <2>2, <2>4, <3>1
  <2>6. Distinct'
    <3> SUFFICES ASSUME NEW i \in 1..Len(recency) + 1, NEW j \in 1..Len(recency) + 1,
                        recency'[i] = recency'[j]
                 PROVE  i = j
      BY <2>2 DEF Distinct
    <3> QED
      BY ONLY <1>0, <2>2, <2>3, i \in 1..Len(recency) + 1, j \in 1..Len(recency) + 1,
              recency'[i] = recency'[j] DEF Distinct
  <2> QED
    BY ONLY <2>2, <2>3, <2>5, <2>6
<1> QED
  BY <1>1, <1>2

-----------------------------------------------------------------------------
(* The steps.                                                               *)

\* The cache is empty at the start.
LEMMA CacheInitEstablishes == CacheInit => CacheInv
<1> SUFFICES ASSUME CacheInit PROVE CacheInv
  OBVIOUS
<1>1. lru_list = <<>> /\ recency = <<>> /\ cache_map = {} /\ DOMAIN latest = {}
      /\ latest = [h \in {} |-> {}]
  BY DEF CacheInit
<1>2. Len(lru_list) = 0 /\ Len(recency) = 0 /\ ToSet(recency) = {} /\ capacity > 0
  BY <1>1, CapacityAssumption DEF ToSet
<1>3. CacheTypes
  BY <1>1, <1>2 DEF CacheTypes
<1> QED
  BY <1>1, <1>2, <1>3 DEF CacheInv, Aligned, Distinct, InMap, FirstOf, Current

\* A plan that is there is used: it moves to the front in the list and in the
\* order of use alike.
LEMMA KnownPreserves ==
    ASSUME CacheInv, NEW h \in Hashes, h \in cache_map, Use(h), cache_map' = cache_map,
           NEW e \in PlanEntry, e.subset_hash = h,
           lru_list' = <<e>> \o RemoveAt(lru_list, Node(h)),
           latest' \in [ToSet(recency) -> Funcs], latest'[h] = e.func,
           \A g \in ToSet(recency) \ {h} : latest'[g] = latest[g]
    PROVE  CacheInv'
<1> DEFINE k == Node(h)
           n == Len(lru_list)
           m == Len(recency)
<1>0. /\ lru_list \in Seq(PlanEntry) /\ recency \in Seq(Hashes)
      /\ n \in Nat /\ m \in Nat /\ n <= m /\ n <= capacity /\ capacity \in Nat
      /\ \A i \in 1..n : lru_list[i].subset_hash = recency[i]
  BY LenProperties, CapacityAssumption DEF CacheInv, CacheTypes, Aligned
<1>1. k \in 1..n /\ lru_list[k].subset_hash = h /\ recency[k] = h
  BY <1>0, NodePoints
<1> HIDE DEF k
<1>2. /\ lru_list' \in Seq(PlanEntry) /\ Len(lru_list') = n /\ lru_list'[1] = e
      /\ Shifted(lru_list, lru_list', n, k)
  <2>1. lru_list \in Seq(PlanEntry) /\ k \in 1..Len(lru_list) /\ e \in PlanEntry
    BY <1>0, <1>1
  <2>2. lru_list' = <<e>> \o RemoveAt(lru_list, k)
    BY DEF k
  <2> QED
    BY ONLY <2>1, <2>2, Spliced
<1>3. /\ recency' \in Seq(Hashes) /\ ToSet(recency') = ToSet(recency) \cup {h}
      /\ Distinct' /\ recency'[1] = h
  BY Used
<1>4. Len(recency') = m /\ Shifted(recency, recency', m, k)
  <2>1. \/ \E j \in 1..m : /\ recency[j] = h /\ Len(recency') = m
                           /\ Shifted(recency, recency', m, j)
        \/ \A i \in 1..m : recency[i] # h
    BY Used
  <2>2. k \in 1..m
    BY <1>0, <1>1
  <2>3. PICK j \in 1..m : /\ recency[j] = h /\ Len(recency') = m
                          /\ Shifted(recency, recency', m, j)
    BY <1>1, <2>1, <2>2
  <2>4. j = k
    BY <1>1, <2>2, <2>3 DEF CacheInv, Distinct
  <2> HIDE DEF m, k
  <2> QED
    BY ONLY <2>3, <2>4
<1>5. h \in ToSet(recency) /\ \A i \in 1..n : recency[i] \in ToSet(recency)
  BY <1>0, <1>1, LenProperties DEF ToSet
<1>6. CacheTypes'
  BY <1>2, <1>3, <1>5 DEF CacheTypes
<1>7. \A i \in 1..n : lru_list'[i].subset_hash = recency'[i]
  <2> SUFFICES ASSUME NEW i \in 1..n PROVE lru_list'[i].subset_hash = recency'[i]
    OBVIOUS
  <2>1. CASE i = 1
    BY <1>2, <1>3, <2>1
  <2>2. CASE i \in 2..n
    <3>1. i - 1 \in 1..n /\ i \in 2..m
      BY <1>0, <2>2
    <3> QED
      BY ONLY <1>0, <1>2, <1>4, <2>2, <3>1 DEF Shifted
  <2>3. i = 1 \/ i \in 2..n
    BY ONLY <1>0, i \in 1..n
  <2> QED
    BY <2>1, <2>2, <2>3
<1>8. Aligned'
  BY <1>2, <1>4, <1>7 DEF CacheInv, Aligned
<1>9. InMap'
  <2>1. n \in Nat /\ k \in 1..n /\ recency'[1] = recency[k] /\ Shifted(recency, recency', n, k)
    BY <1>0, <1>1, <1>3, <1>4 DEF Shifted
  <2>2. FirstOf(recency', n) = FirstOf(recency, n)
    BY ONLY <2>1, SameElements
  <2> QED
    BY <1>2, <2>2 DEF CacheInv, InMap
<1>10. Current'
  <2> SUFFICES ASSUME NEW i \in 1..n
               PROVE  lru_list'[i].func = latest'[lru_list'[i].subset_hash]
    BY <1>2 DEF Current
  <2>1. CASE i = 1
    BY <1>2, <2>1
  <2>2. CASE i \in 2..n
    <3>1. PICK j \in 1..n : j # k /\ lru_list'[i] = lru_list[j]
      <4>1. i - 1 \in 1..n /\ i \in 1..n
        BY <1>0, <2>2
      <4>2. CASE i <= k
        BY <1>0, <1>1, <1>2, <2>2, <4>1, <4>2, SMTT(30) DEF Shifted
      <4>3. CASE ~(i <= k)
        BY <1>0, <1>1, <1>2, <2>2, <4>1, <4>3, SMTT(30) DEF Shifted
      <4> QED
        BY <4>2, <4>3
    <3>2. lru_list[j].subset_hash = recency[j] /\ recency[j] # h
      BY <1>0, <1>1, <3>1, SMTT(30) DEF CacheInv, Distinct
    <3>3. lru_list[j].func = latest[lru_list[j].subset_hash]
      BY <3>1 DEF CacheInv, Current
    <3> QED
      BY <1>5, <3>1, <3>2, <3>3
  <2>3. i = 1 \/ i \in 2..n
    BY ONLY <1>0, i \in 1..n
  <2> QED
    BY <2>1, <2>2, <2>3
<1> QED
  BY <1>3, <1>6, <1>8, <1>9, <1>10 DEF CacheInv

\* The head room: what the list and the map keep.
LEMMA Kept ==
    ASSUME CacheInv
    PROVE  LET n == IF Len(lru_list) = capacity THEN capacity - 1 ELSE Len(lru_list)
           IN  /\ n \in Nat /\ n + 1 <= capacity /\ n <= Len(lru_list)
               /\ KeptList \in Seq(PlanEntry) /\ Len(KeptList) = n
               /\ \A i \in 1..n : KeptList[i] = lru_list[i]
               /\ KeptMap = FirstOf(recency, n)
<1> DEFINE n == IF Len(lru_list) = capacity THEN capacity - 1 ELSE Len(lru_list)
<1>0. /\ lru_list \in Seq(PlanEntry) /\ Len(lru_list) \in Nat /\ Len(recency) \in Nat
      /\ Len(lru_list) <= capacity /\ Len(lru_list) <= Len(recency) /\ capacity \in Nat \ {0}
      /\ \A i \in 1..Len(lru_list) : lru_list[i] \in PlanEntry
  BY LenProperties, ElementOfSeq, CapacityAssumption DEF CacheInv, CacheTypes, Aligned
<1>1. n \in Nat /\ n + 1 <= capacity /\ n <= Len(lru_list)
  BY <1>0
<1>2. Full <=> Len(lru_list) = capacity
  BY <1>0, MapSize DEF Full
<1>3. CASE Len(lru_list) = capacity
  <2>1. KeptList = SubSeq(lru_list, 1, n)
    BY <1>2, <1>3 DEF KeptList, Front
  <2>2. KeptList \in Seq(PlanEntry) /\ Len(KeptList) = n /\ \A i \in 1..n : KeptList[i] = lru_list[i]
    <3>1. /\ 1 \in Int /\ n \in Int /\ \A i \in 1..n : lru_list[i] \in PlanEntry
          /\ (IF 1 <= n THEN n - 1 + 1 ELSE 0) = n /\ n - 1 + 1 = n
          /\ \A i \in 1..n : 1 + i - 1 = i
      BY <1>0, <1>1
    <3> HIDE DEF n
    <3> QED
      BY ONLY <2>1, <3>1, SubSeqProperties
  <2>3. KeptMap = cache_map \ {recency[n + 1]}
    BY <1>0, <1>2, <1>3 DEF KeptMap, Last, CacheInv, Aligned
  <2>4. cache_map = FirstOf(recency, n + 1)
    BY <1>0, <1>3 DEF CacheInv, InMap
  <2>5. FirstOf(recency, n + 1) \ {recency[n + 1]} = FirstOf(recency, n)
    <3>1. \A i \in 1..n + 1 : i \in 1..n \/ i = n + 1
      BY <1>1
    <3>2. \A i \in 1..n : i \in 1..n + 1 /\ recency[i] # recency[n + 1]
      BY <1>0, <1>1, <1>3 DEF CacheInv, Distinct
    <3> HIDE DEF n
    <3> QED
      BY <3>1, <3>2 DEF FirstOf
  <2> QED
    BY <1>1, <2>2, <2>3, <2>4, <2>5
<1>4. CASE Len(lru_list) # capacity
  BY <1>0, <1>1, <1>2, <1>4 DEF KeptList, KeptMap, CacheInv, InMap
<1> QED
  BY <1>3, <1>4

\* A new plan goes to the front, and the least recently used one goes if
\* there is no room.
LEMMA NewPreserves ==
    ASSUME CacheInv, NEW h \in Hashes, NEW func \in Funcs, InsertNew(h, func)
    PROVE  CacheInv'
<1> DEFINE n == IF Len(lru_list) = capacity THEN capacity - 1 ELSE Len(lru_list)
           m == Len(recency)
           e == [subset_hash |-> h, func |-> func]
<1>0. /\ Len(lru_list) \in Nat /\ m \in Nat /\ capacity \in Nat \ {0} /\ recency \in Seq(Hashes)
      /\ Len(lru_list) = IF m < capacity THEN m ELSE capacity
      /\ \A i \in 1..Len(lru_list) : lru_list[i].subset_hash = recency[i]
      /\ DOMAIN recency = 1..m
  BY LenProperties, CapacityAssumption DEF CacheInv, CacheTypes, Aligned
<1>1. /\ n \in Nat /\ n + 1 <= capacity /\ n <= Len(lru_list) /\ n <= m
      /\ KeptList \in Seq(PlanEntry) /\ Len(KeptList) = n
      /\ \A i \in 1..n : KeptList[i] = lru_list[i]
      /\ KeptMap = FirstOf(recency, n)
  <2>1. /\ n \in Nat /\ n + 1 <= capacity /\ n <= Len(lru_list)
        /\ KeptList \in Seq(PlanEntry) /\ Len(KeptList) = n
        /\ \A i \in 1..n : KeptList[i] = lru_list[i]
        /\ KeptMap = FirstOf(recency, n)
    BY Kept, Zenon
  <2> HIDE DEF n
  <2>2. n <= m
    BY <1>0, <2>1
  <2> QED
    BY <2>1, <2>2
<1>2. e \in PlanEntry /\ e.subset_hash = h /\ e.func = func
  BY DEF PlanEntry
<1>3. /\ lru_list' \in Seq(PlanEntry) /\ Len(lru_list') = n + 1 /\ lru_list'[1] = e
      /\ \A i \in 2..n + 1 : lru_list'[i] = KeptList[i - 1]
  <2>1. lru_list' = <<e>> \o KeptList
    BY DEF InsertNew
  <2>2. KeptList \in Seq(PlanEntry) /\ e \in PlanEntry /\ Len(KeptList) = n
    BY <1>1, <1>2
  <2> HIDE DEF e, n
  <2> QED
    BY ONLY <2>1, <2>2, PushFront
<1>4. /\ recency' \in Seq(Hashes) /\ ToSet(recency') = ToSet(recency) \cup {h}
      /\ Distinct' /\ recency'[1] = h
  BY Used DEF InsertNew
<1>5. \A i \in 1..Len(lru_list) : recency[i] # h
  BY <1>0 DEF InsertNew, CacheInv, InMap, FirstOf
<1>6. /\ n + 1 = IF Len(recency') < capacity THEN Len(recency') ELSE capacity
      /\ \A i \in 2..n + 1 : recency'[i] = recency[i - 1]
  <2>1. \/ \E k \in 1..m : /\ recency[k] = h /\ Len(recency') = m
                           /\ Shifted(recency, recency', m, k)
        \/ Len(recency') = m + 1 /\ \A i \in 2..m + 1 : recency'[i] = recency[i - 1]
    BY Used DEF InsertNew
  <2>2. ASSUME NEW k \in 1..m, recency[k] = h, Len(recency') = m, Shifted(recency, recency', m, k)
        PROVE  /\ n + 1 = IF Len(recency') < capacity THEN Len(recency') ELSE capacity
               /\ \A i \in 2..n + 1 : recency'[i] = recency[i - 1]
    <3>1. k > Len(lru_list)
      BY <1>0, <1>5, <2>2
    <3>2. Len(lru_list) = capacity /\ n + 1 = capacity /\ capacity < k /\ ~(m < capacity)
      <4> DEFINE l == Len(lru_list)
      <4>1. /\ l \in Nat /\ m \in Nat /\ capacity \in Nat /\ k \in 1..m /\ k > l
            /\ l = IF m < capacity THEN m ELSE capacity
        BY <1>0, <3>1
      <4> HIDE DEF l, m
      <4>2. l = capacity /\ capacity < k /\ ~(m < capacity)
        BY ONLY <4>1
      <4> QED
        BY <1>0, <4>2 DEF l
    <3>3. \A i \in 2..n + 1 : i \in 2..m /\ i <= k
      BY <1>0, <3>2
    <3> QED
      BY ONLY <2>2, <3>2, <3>3 DEF Shifted
  <2>3. ASSUME Len(recency') = m + 1, \A i \in 2..m + 1 : recency'[i] = recency[i - 1]
        PROVE  /\ n + 1 = IF Len(recency') < capacity THEN Len(recency') ELSE capacity
               /\ \A i \in 2..n + 1 : recency'[i] = recency[i - 1]
    <3>0. /\ m \in Nat /\ capacity \in Nat \ {0} /\ n \in Nat /\ n <= m
          /\ (m < capacity => n = m) /\ (~(m < capacity) => n = capacity - 1)
      <4>1. /\ m \in Nat /\ capacity \in Nat \ {0} /\ n \in Nat /\ n <= m
            /\ Len(lru_list) = IF m < capacity THEN m ELSE capacity
        BY <1>0, <1>1
      <4>2. m < capacity => n = m
        BY ONLY <4>1
      <4>3. ~(m < capacity) => n = capacity - 1
        BY ONLY <4>1
      <4> QED
        BY <4>1, <4>2, <4>3
    <3> HIDE DEF n
    <3>1. n + 1 = IF m + 1 < capacity THEN m + 1 ELSE capacity
      BY ONLY <3>0
    <3>2. \A i \in 2..n + 1 : i \in 2..m + 1
      BY ONLY <3>0
    <3> QED
      BY ONLY <2>3, <3>1, <3>2
  <2> QED
    BY <2>1, <2>2, <2>3
<1>7. /\ latest' = [g \in ToSet(recency) \cup {h} |-> IF g = h THEN func ELSE latest[g]]
      /\ latest \in [ToSet(recency) -> Funcs]
  BY DEF InsertNew, CacheInv, CacheTypes
<1>8. CacheTypes'
  BY <1>3, <1>4, <1>7 DEF CacheTypes
<1> HIDE DEF n
<1>9. \A i \in 2..n + 1 : /\ i - 1 \in 1..n /\ i - 1 \in 1..Len(lru_list)
                          /\ lru_list'[i] = lru_list[i - 1] /\ recency'[i] = recency[i - 1]
  BY ONLY <1>0, <1>1, <1>3, <1>6
<1>10. \A i \in 1..n + 1 : i = 1 \/ i \in 2..n + 1
  BY <1>1
<1>11. Aligned'
  <2>1. ASSUME NEW i \in 1..n + 1 PROVE lru_list'[i].subset_hash = recency'[i]
    <3>1. CASE i = 1
      <4>1. e.subset_hash = h
        OBVIOUS
      <4> HIDE DEF e
      <4> QED
        BY ONLY <1>3, <1>4, <3>1, <4>1
    <3>2. CASE i \in 2..n + 1
      <4>1. i - 1 \in 1..Len(lru_list) /\ lru_list'[i] = lru_list[i - 1]
            /\ recency'[i] = recency[i - 1]
        BY ONLY <1>9, <3>2
      <4>2. lru_list[i - 1].subset_hash = recency[i - 1]
        BY <1>0, <4>1 DEF CacheInv, Aligned
      <4> QED
        BY ONLY <4>1, <4>2
    <3> QED
      BY ONLY <1>10, <2>1, <3>1, <3>2
  <2>2. Len(lru_list') = IF Len(recency') < capacity THEN Len(recency') ELSE capacity
    BY ONLY <1>3, <1>6
  <2>3. \A i \in 1..Len(lru_list') : lru_list'[i].subset_hash = recency'[i]
    BY ONLY <1>3, <2>1
  <2> QED
    BY ONLY <2>2, <2>3 DEF Aligned
<1>12. InMap'
  <2>1. \A i \in 1..n : i + 1 \in 2..n + 1 /\ i + 1 - 1 = i /\ i + 1 \in 1..n + 1
    BY <1>1
  <2>2. 1 \in 1..n + 1
    BY <1>1
  <2>3. FirstOf(recency', n + 1) = FirstOf(recency, n) \cup {h}
    BY ONLY <1>4, <1>9, <1>10, <2>1, <2>2, SMTT(30) DEF FirstOf
  <2> QED
    BY <1>1, <1>3, <2>3 DEF InsertNew, InMap
<1>13. Current'
  <2> SUFFICES ASSUME NEW i \in 1..n + 1
               PROVE  lru_list'[i].func = latest'[lru_list'[i].subset_hash]
    BY <1>3 DEF Current
  <2>1. CASE i = 1
    BY <1>2, <1>3, <1>7, <2>1
  <2>2. CASE i \in 2..n + 1
    <3> DEFINE d == lru_list[i - 1]
    <3>1. i - 1 \in 1..Len(lru_list) /\ lru_list'[i] = d
      BY <1>9, <2>2
    <3>2. d.subset_hash # h /\ d.subset_hash = recency[i - 1]
      BY <1>0, <1>5, <3>1
    <3>3. d.subset_hash \in ToSet(recency)
      BY <1>0, <3>1, <3>2 DEF ToSet
    <3>4. d.func = latest[d.subset_hash]
      BY <3>1 DEF CacheInv, Current
    <3> QED
      BY <1>7, <3>1, <3>2, <3>3, <3>4
  <2> QED
    BY <1>10, <2>1, <2>2
<1> QED
  BY <1>4, <1>8, <1>11, <1>12, <1>13 DEF CacheInv

\* Every call keeps the invariant.
LEMMA CacheNextPreserves == CacheInv /\ [CacheNext]_cacheVars => CacheInv'
<1> SUFFICES ASSUME CacheInv, [CacheNext]_cacheVars PROVE CacheInv'
  OBVIOUS
<1>t. /\ lru_list \in Seq(PlanEntry) /\ latest \in [ToSet(recency) -> Funcs]
      /\ cache_map \subseteq ToSet(recency)
  <2>1. Len(lru_list) \in Nat /\ Len(recency) \in Nat /\ DOMAIN recency = 1..Len(recency)
        /\ Len(lru_list) <= Len(recency)
    BY LenProperties, CapacityAssumption DEF CacheInv, CacheTypes, Aligned
  <2> QED
    BY <2>1 DEF CacheInv, CacheTypes, InMap, FirstOf, ToSet
<1>1. ASSUME NEW h \in Hashes, LookupHit(h) PROVE CacheInv'
  <2> DEFINE e == lru_list[Node(h)]
  <2>1. h \in cache_map /\ Use(h) /\ cache_map' = cache_map /\ latest' = latest
        /\ lru_list' = <<e>> \o RemoveAt(lru_list, Node(h))
    BY <1>1 DEF LookupHit, MoveToFront
  <2>2. Node(h) \in 1..Len(lru_list) /\ e.subset_hash = h
    BY <2>1, NodePoints
  <2>3. e \in PlanEntry
    BY <1>t, <2>2, ElementOfSeq
  <2>4. e.func = latest[h]
    BY <2>2 DEF CacheInv, Current
  <2> HIDE DEF e
  <2> QED
    BY <1>t, <2>1, <2>2, <2>3, <2>4, KnownPreserves
<1>2. ASSUME NEW h \in Hashes, NEW func \in Funcs, InsertKnown(h, func) PROVE CacheInv'
  <2> DEFINE e == [subset_hash |-> h, func |-> func]
  <2>1. h \in cache_map /\ Use(h) /\ cache_map' = cache_map
        /\ latest' = [latest EXCEPT ![h] = func]
        /\ lru_list' = <<e>> \o RemoveAt(lru_list, Node(h))
    BY <1>2 DEF InsertKnown
  <2>2. e \in PlanEntry /\ e.subset_hash = h /\ e.func = func
    BY DEF PlanEntry
  <2>3. /\ latest' \in [ToSet(recency) -> Funcs] /\ latest'[h] = func
        /\ \A g \in ToSet(recency) \ {h} : latest'[g] = latest[g]
    BY <1>t, <2>1
  <2> HIDE DEF e
  <2> QED
    BY <2>1, <2>2, <2>3, KnownPreserves
<1>3. CASE UNCHANGED cacheVars \/ \E h \in Hashes : LookupMiss(h)
  <2>1. UNCHANGED <<lru_list, cache_map, latest, recency>>
    BY <1>3 DEF cacheVars, LookupMiss
  <2> QED
    BY <2>1 DEF CacheInv, CacheTypes, Aligned, Distinct, InMap, Current
<1> QED
  BY <1>1, <1>2, <1>3, NewPreserves DEF CacheNext

-----------------------------------------------------------------------------
\* The invariant that carries the proofs holds after every sequence of calls.
THEOREM CacheInductive == CacheSpec => []CacheInv
BY CacheInitEstablishes, CacheNextPreserves, PTL DEF CacheSpec

\* No dangling iterator, no unreachable node, never more than capacity plans.
THEOREM MapCorrect == CacheSpec => []MapListAgree
<1>1. CacheInv => MapListAgree
  <2> SUFFICES ASSUME CacheInv PROVE MapListAgree
    OBVIOUS
  <2>1. /\ DOMAIN lru_list = 1..Len(lru_list) /\ Len(lru_list) \in Nat /\ Len(recency) \in Nat
        /\ Len(lru_list) <= Len(recency) /\ Len(lru_list) <= capacity
    BY LenProperties, CapacityAssumption DEF CacheInv, CacheTypes, Aligned
  <2>2. Listed = [i \in 1..Len(lru_list) |-> recency[i]]
    BY <2>1 DEF Listed, CacheInv, Aligned
  <2>3. cache_map = ToSet(Listed)
    BY <2>2 DEF ToSet, CacheInv, InMap, FirstOf
  <2>4. IsInjective(Listed)
    BY <2>1, <2>2 DEF CacheInv, Distinct, IsInjective
  <2> QED
    BY <2>1, <2>3, <2>4 DEF MapListAgree
<1> QED
  BY <1>1, CacheInductive, PTL

\* Eviction takes the least recently used plan, whatever came before.
THEOREM EvictionCorrect == CacheSpec => []KeepsMostRecent
<1>1. CacheInv => KeepsMostRecent
  <2> SUFFICES ASSUME CacheInv PROVE KeepsMostRecent
    OBVIOUS
  <2> DEFINE n == Len(lru_list)
  <2>1. /\ DOMAIN lru_list = 1..n /\ n \in Nat /\ Len(recency) \in Nat
        /\ n <= Len(recency)
        /\ \A i \in 1..n : lru_list[i].subset_hash = recency[i] /\ recency[i] \in Hashes
    BY LenProperties, ElementOfSeq, CapacityAssumption DEF CacheInv, CacheTypes, Aligned
  <2>2. Listed = SubSeq(recency, 1, n)
    BY <2>1 DEF Listed
  <2> QED
    BY <2>2 DEF KeepsMostRecent, CacheInv, Aligned
<1> QED
  BY <1>1, CacheInductive, PTL

\* A lookup finds the plan inserted last for its hash.
THEOREM LookupCorrect == CacheSpec => []PlansCurrent
<1>1. CacheInv => PlansCurrent
  <2> SUFFICES ASSUME CacheInv PROVE PlansCurrent
    OBVIOUS
  <2>1. DOMAIN lru_list = 1..Len(lru_list)
    BY LenProperties DEF CacheInv, CacheTypes
  <2> QED
    BY <2>1 DEF CacheInv, Current, PlansCurrent
<1> QED
  BY <1>1, CacheInductive, PTL
=============================================================================
