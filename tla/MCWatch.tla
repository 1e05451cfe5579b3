------------------------------ MODULE MCWatch ------------------------------
(* Small instances of Watch for TLC.                                       *)
EXTENDS Watch, TLC

Interchangeable == Permutations(Name) \cup Permutations(Writer)
=============================================================================
