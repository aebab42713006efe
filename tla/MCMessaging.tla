------------------------------ MODULE MCMessaging ------------------------------
(* Instances of Messaging for TLC. *)
EXTENDS Messaging, TLC

Symmetry == Permutations(Jobs) \cup Permutations(Slots)
================================================================================
