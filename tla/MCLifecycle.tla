---------------------------- MODULE MCLifecycle -----------------------------
(* Small instances of Lifecycle for TLC: the last component spawns a task. *)
EXTENDS Lifecycle, TLC

CONSTANTS t1, t2

LastSpawns == NumComponents :> t1
=============================================================================
