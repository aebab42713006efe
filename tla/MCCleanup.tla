------------------------------- MODULE MCCleanup -------------------------------
(* Instances of Cleanup for TLC. *)
EXTENDS Cleanup, TLC

Symmetry == Permutations(Jobs) \cup Permutations(Slots)
================================================================================
