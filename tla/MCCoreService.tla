---------------------------- MODULE MCCoreService ----------------------------
(* Small instances of the core service. *)
EXTENDS CoreService

CONSTANTS h1, h2
=============================================================================
