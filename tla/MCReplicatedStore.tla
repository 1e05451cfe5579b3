------------------------- MODULE MCReplicatedStore -------------------------
(* Small instances of ReplicatedStore for TLC.                             *)
EXTENDS ReplicatedStore, TLC

Interchangeable == Permutations(Replica)
=============================================================================
