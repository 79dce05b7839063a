----------------------------- MODULE MCInstances -----------------------------
(* Instances with two processes, which may be started again. *)
EXTENDS Instances, TLC

Symmetry == Permutations(Instances)
=============================================================================
