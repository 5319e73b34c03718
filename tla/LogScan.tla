------------------------------ MODULE LogScan ------------------------------
(***************************************************************************)
(* What a scan of a newline-delimited JSON log computes.  A file is the    *)
(* sequence of documents that simdjson's document stream yields for it; a  *)
(* document carries the two fields every scan of this repository reads.    *)
(* The Ingester pipeline and its abstract specification share these        *)
(* operators.                                                              *)
(***************************************************************************)
EXTENDS Naturals, Sequences, FiniteSets

CONSTANTS
    Files,           \* the files a path may name: each is its document stream
    StatusTargets,   \* the arguments run_query may be called with
    LatencyTargets,
    Malformed,       \* a document for which the stream reports an error
    Missing,         \* a field that is absent or not an unsigned integer
    Unreadable       \* the content of a path that cannot be mapped

FieldValue == {Missing} \cup Nat

Doc == {Malformed} \cup [status : FieldValue, latency : FieldValue]

Row == [status : Nat, latency : Nat]

ASSUME FilesAssumption == Files \subseteq {Unreadable} \cup Seq(Doc)

ASSUME TargetsAssumption == StatusTargets \subseteq Nat /\ LatencyTargets \subseteq Nat

\* get_uint64() with the error branch of the scan loop: no value means 0.
Uint64(v) == IF v = Missing THEN 0 ELSE v

RowOf(doc) == [status |-> Uint64(doc.status), latency |-> Uint64(doc.latency)]

\* The compiled expression And(EQ(status, s), GT(latency, l)).
Matches(row, s, l) == row.status = s /\ row.latency > l

\* The positions among the first n documents of a file that the query selects.
DocHits(file, s, l, n) ==
    {p \in 1..n : file[p] # Malformed /\ Matches(RowOf(file[p]), s, l)}

HitCount(file, s, l) == Cardinality(DocHits(file, s, l, Len(file)))
=============================================================================
