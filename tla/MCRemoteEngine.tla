--------------------------- MODULE MCRemoteEngine ---------------------------
(* Small instances of RemoteEngine for TLC, one for each engine.           *)
EXTENDS RemoteEngine

MCMaxEngineFaults == [k \in Kinds |-> IF k = "redis" THEN 1 ELSE 2]
=============================================================================
