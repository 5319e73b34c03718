--------------------------- MODULE MCQueryPlanner ---------------------------
(* Small instances of the planner. *)
EXTENDS QueryPlanner

\* Hashes of three strings: adding the first two sets the bits of the third.
MCHash == [x |-> [h1 |-> 0, h2 |-> 0], y |-> [h1 |-> 2, h2 |-> 1], z |-> [h1 |-> 2, h2 |-> 0]]

D(st, lat, ms, trace, svc) ==
    [status |-> st, latency |-> lat, latency_ms |-> ms, trace_id |-> trace, service |-> svc]

\* Complete documents, documents with an alternative or a missing field, and
\* a line that is not JSON.
MCDocs ==
    {D(1, 2, Missing, "x", Missing), D(3, Missing, 1, "y", "z"), D(2, 3, 1, Missing, "z"),
     D(0, 0, Missing, Missing, Missing), D(Missing, Missing, Missing, Missing, Missing)}

\* All short batches, and some that fill the last block or overflow the group.
MCBatches ==
    UNION {[1..n -> MCDocs] : n \in 0..3}
    \cup UNION {[1..n -> {D(3, 2, Missing, "x", Missing), D(1, 3, 1, Missing, Missing)}] :
                  n \in 5..7}

Num(op, field) ==
    {[op |-> op, field |-> field, val_u64 |-> v, val_str |-> NoString] : v \in 0..3}
Str(field) ==
    {[op |-> "EQ", field |-> field, val_u64 |-> 0, val_str |-> s] : s \in {"x", "y", "z"}}

UpToTwo(leaves) == {{a, b} : a, b \in leaves}

\* The leaves for which the planner looks at the right metadata.
Supported == UpToTwo(Num("EQ", "status") \cup Num("GT", "status") \cup Num("GT", "latency")
                     \cup Str("trace_id"))
=============================================================================
