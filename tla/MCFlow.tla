-------------------------------- MODULE MCFlow --------------------------------
(* Instances of Flow for TLC. *)
EXTENDS Flow

\* Each mode before another step, and a flow without steps.
MCPlans == {<<>>, <<"stop", "continue">>, <<"retry", "stop">>}
================================================================================
