---------------------------- MODULE MCWorkQueue ----------------------------
(* Small instances of WorkQueue for TLC.                                   *)
EXTENDS WorkQueue, TLC

Interchangeable == Permutations(Key) \cup Permutations(Worker)
=============================================================================
