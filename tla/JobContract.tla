------------------------------ MODULE JobContract ------------------------------
(***************************************************************************)
(* What whoever enqueues a job can rely on: a job is run only between its  *)
(* submission and its closing, and at most MaxRuns times.  It says nothing *)
(* of which worker runs it, or whether two of them do at once: a processor *)
(* must bear both.  Module JobQueue implements this.                       *)
(***************************************************************************)
EXTENDS Naturals

CONSTANTS Jobs,     \* job ids
          MaxRuns   \* bound of the runs of one job, in Nat

VARIABLES phase,    \* "new", "open" or "closed", for each job
          runs      \* how often a worker began to run each job

contractVars == <<phase, runs>>

ContractInit == phase = [j \in Jobs |-> "new"] /\ runs = [j \in Jobs |-> 0]

Submit(j) ==
    /\ phase[j] = "new"
    /\ phase' = [phase EXCEPT ![j] = "open"]
    /\ UNCHANGED runs

Run(j) ==
    /\ phase[j] = "open" /\ runs[j] < MaxRuns
    /\ runs' = [runs EXCEPT ![j] = @ + 1]
    /\ UNCHANGED phase

Close(j) ==
    /\ phase[j] = "open"
    /\ phase' = [phase EXCEPT ![j] = "closed"]
    /\ UNCHANGED runs

ContractNext == \E j \in Jobs : Submit(j) \/ Run(j) \/ Close(j)

ContractSpec == ContractInit /\ [][ContractNext]_contractVars
================================================================================
