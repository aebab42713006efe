------------------------------- MODULE MCRefund -------------------------------
(* Instances of Refund for TLC. *)
EXTENDS Refund, TLC

Symmetry == Permutations(Jobs) \cup Permutations(Slots) \cup Permutations(Transactions)
================================================================================
