----------------------------- MODULE MCConsume ------------------------------
(* Small instances of Consume for TLC.                                     *)
EXTENDS Consume, TLC
=============================================================================
