----------------------------- MODULE MCIngester -----------------------------
(* Small instances of the Ingester pipeline. *)
EXTENDS Ingester

Hit   == [status |-> 5, latency |-> 2]
Near  == [status |-> 5, latency |-> 1]
NoSts == [status |-> Missing, latency |-> 2]

\* Every stream of up to three documents, and streams long enough to fill
\* the ring while the consumer holds a block and the producer another.
MCFiles ==
    {Unreadable}
    \cup UNION {[1..n -> {Hit, NoSts, Malformed}] : n \in 0..3}
    \cup {<<Hit, Near, Hit, Hit, Malformed, NoSts, Hit, Near, Hit, Hit, Hit>>,
          <<Near, Hit, Near, Near, Hit, Hit, Near, Hit, Hit, NoSts>>}
=============================================================================
