----------------------------- MODULE MCPushPath -----------------------------
(* A batch of two chunks and one with a bad label; a session that            *)
(* tails most lines and one that tails the bad one.                         *)
EXTENDS PushPath

MCBatches == {<<"a", "b", "c">>, <<"d", "x">>}
MCMatching == [s |-> {"a", "c", "d"}, q |-> {"x"}]
=============================================================================
