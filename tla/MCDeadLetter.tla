---------------------------- MODULE MCDeadLetter ----------------------------
(* Small instances of DeadLetter for TLC.                                  *)
EXTENDS DeadLetter, TLC

CallOptions == {{}, {"dry_run"}, {"include_quarantined", "include_archived"}}

Interchangeable == Permutations(Records) \cup Permutations(Calls)
=============================================================================
