--------------------------- MODULE MCVMReplicaSet ---------------------------
(***************************************************************************)
(* Instances of VMReplicaSet.                                              *)
(***************************************************************************)
EXTENDS VMReplicaSet, TLC

Symmetry == Permutations(VM)
=============================================================================
