---------------------------- MODULE MCOwnerGate ----------------------------
(* Two processes for TLC. *)
EXTENDS OwnerGate, TLC
CONSTANTS hook, shell
Symmetric == Permutations(Procs)
=============================================================================
