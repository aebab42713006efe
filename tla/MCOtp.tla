--------------------------------- MODULE MCOtp ---------------------------------
(* Instances of Otp for TLC. *)
EXTENDS Otp, TLC

Symmetry == Permutations(Verifiers)
================================================================================
