------------------------------ MODULE ScanSpec ------------------------------
(***************************************************************************)
(* What Ingester::run_query promises its caller, with no threads, blocks   *)
(* or queue: a query on a readable file is answered, once, with the exact  *)
(* number of matching documents; on no file or an unreadable one it is     *)
(* answered with 0; and when the consumer thread cannot be created the     *)
(* answer is 0 as well (fault tells the two apart, the caller cannot).     *)
(***************************************************************************)
CONSTANTS
    Files, StatusTargets, LatencyTargets,
    NoPath,              \* the empty filepath_
    Unreadable,          \* a path that cannot be mapped
    Expected(_, _, _)    \* the exact answer for a file, a status and a latency

VARIABLES
    path,            \* the file the next query reads
    pending,         \* the query being answered, or <<>>
    answer,          \* the last answer
    fault            \* the last answer was cut short

vars == <<path, pending, answer, fault>>

Init ==
    /\ path = NoPath
    /\ pending = <<>>
    /\ answer = 0
    /\ fault = FALSE

SetPath(p) ==
    /\ pending = <<>>
    /\ path' = p
    /\ UNCHANGED <<pending, answer, fault>>

\* Nothing to scan: answered at once.
Refuse ==
    /\ pending = <<>>
    /\ path \in {NoPath, Unreadable}
    /\ answer' = 0
    /\ fault' = FALSE
    /\ UNCHANGED <<path, pending>>

Ask(s, l) ==
    /\ pending = <<>>
    /\ path \notin {NoPath, Unreadable}
    /\ pending' = <<s, l>>
    /\ fault' = FALSE
    /\ UNCHANGED <<path, answer>>

Fail ==
    /\ pending # <<>>
    /\ fault' = TRUE
    /\ UNCHANGED <<path, pending, answer>>

Answer ==
    /\ pending # <<>>
    /\ answer' = IF fault THEN 0 ELSE Expected(path, pending[1], pending[2])
    /\ pending' = <<>>
    /\ UNCHANGED <<path, fault>>

Next ==
    \/ \E p \in Files \cup {NoPath} : SetPath(p)
    \/ Refuse
    \/ \E s \in StatusTargets, l \in LatencyTargets : Ask(s, l)
    \/ Fail
    \/ Answer

Spec == Init /\ [][Next]_vars
=============================================================================
