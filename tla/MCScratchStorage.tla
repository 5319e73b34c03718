-------------------------- MODULE MCScratchStorage --------------------------
(* Four URIs, the last two with the same file name and different sizes. *)
EXTENDS ScratchStorage

MCUris == {"u", "v", "w", "x"}
MCKeys == [u |-> "k", v |-> "l", w |-> "m", x |-> "m"]
MCSizes == [u |-> 2, v |-> 2, w |-> 1, x |-> 2]
=============================================================================
