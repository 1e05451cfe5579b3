----------------------------- MODULE MCKubelet -----------------------------
(* Small instances of Kubelet for TLC.                                     *)
EXTENDS Kubelet, TLC
=============================================================================
