-------------------------------- MODULE MCUsers --------------------------------
(* Instances of Users for TLC. *)
EXTENDS Users, TLC

Symmetry == Permutations(Creators) \cup Permutations(Editors) \cup Permutations(Emails)
            \cup Permutations(Phones)
================================================================================
