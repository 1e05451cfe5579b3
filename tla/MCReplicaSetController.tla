----------------------- MODULE MCReplicaSetController ----------------------
(***************************************************************************)
(* Instances of ReplicaSetController for TLC.                              *)
(***************************************************************************)
EXTENDS ReplicaSetController
=============================================================================
