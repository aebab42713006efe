------------------------------- MODULE JobQueue -------------------------------
(***************************************************************************)
(* A BullMQ queue as this program configures it (queue/processor.ts), the  *)
(* worker process with its concurrent slots (queue/worker.ts) and the dead *)
(* letter queue its 'failed' handler fills.                                *)
(*                                                                         *)
(* What a processor does between Take and Complete or FailRun is the       *)
(* business of the module that extends this one; here it may end any way   *)
(* at any time.  BullMQ itself is not part of the repository: its side of  *)
(* Take, FailStalled and StallFound is what the options given to it ask.   *)
(***************************************************************************)
EXTENDS Integers, FiniteSets

CONSTANTS Jobs,         \* job ids
          Slots,        \* the QUEUE_CONCURRENCY slots of the worker process
          None,         \* no job, no slot
          MaxAttempts,  \* opts.attempts
          MaxStalls,    \* maxStalledCount
          LocksLapse,   \* a running job may lose its 30 s lock
          MaxCrashes    \* bound of the ends of the process, for model checking

ASSUME QueueAssumption ==
    /\ None \notin Jobs \cup Slots /\ IsFiniteSet(Slots)
    /\ MaxAttempts \in Nat \ {0}
    /\ MaxStalls \in Nat
    /\ LocksLapse \in BOOLEAN
    /\ MaxCrashes \in Nat

VARIABLES
    state,    \* of each job in Redis; "waiting" includes the backoff delay
    made,     \* job.attemptsMade
    stalls,   \* how often the job was found stalled
    owner,    \* the slot that holds the job's lock
    work,     \* the job each slot is running
    runs,     \* history: how often each job was handed to its processor
    leaving,  \* jobs whose 'failed' handler awaits dlq.add
    dlq,      \* jobs in the dead letter queue
    process,  \* the worker process: "up", or "stopping" after SIGTERM
    crashes   \* how often the process ended

life      == <<process, crashes>>
queueVars == <<state, made, stalls, owner, work, runs, leaving, dlq, life>>

QueueInit ==
    /\ state = [j \in Jobs |-> "unknown"]
    /\ made = [j \in Jobs |-> 0]
    /\ stalls = [j \in Jobs |-> 0]
    /\ owner = [j \in Jobs |-> None]
    /\ work = [w \in Slots |-> None]
    /\ runs = [j \in Jobs |-> 0]
    /\ leaving = {} /\ dlq = {}
    /\ process = "up" /\ crashes = 0
--------------------------------------------------------------------------------
\* queue.add of enqueueJob.
AddJobQueued(j) ==
    /\ state[j] = "unknown"
    /\ state' = [state EXCEPT ![j] = "queued"]
    /\ UNCHANGED <<made, stalls, owner, work, runs, leaving, dlq, life>>
AddJob(j) ==
    /\ state[j] = "unknown"
    /\ state' = [state EXCEPT ![j] = "waiting"]
    /\ UNCHANGED <<made, stalls, owner, work, runs, leaving, dlq, life>>

\* A free slot gets a waiting job and its lock.
Take(w, j) ==
    /\ work[w] = None /\ process = "up"
    /\ state[j] = "waiting" /\ stalls[j] <= MaxStalls
    /\ state' = [state EXCEPT ![j] = "active"]
    /\ owner' = [owner EXCEPT ![j] = w]
    /\ work' = [work EXCEPT ![w] = j]
    /\ runs' = [runs EXCEPT ![j] = @ + 1]
    /\ UNCHANGED <<made, stalls, leaving, dlq, life>>

\* The 'failed' handler of startWorkers, run after each failure with the
\* attempts counted so far: it awaits dlq.add once they are used up.
FailedEventEager(j, attemptsMade) ==
    leaving' = IF attemptsMade + 1 >= MaxAttempts THEN leaving \cup {j} ELSE leaving
FailedEvent(j, attemptsMade) ==
    leaving' = IF attemptsMade >= MaxAttempts THEN leaving \cup {j} ELSE leaving

\* A job that stalled too often is failed by the slot that gets it, without
\* being run: 'job stalled more than allowable limit'.
FailStalled(w, j) ==
    /\ work[w] = None /\ process = "up"
    /\ state[j] = "waiting" /\ stalls[j] > MaxStalls
    /\ state' = [state EXCEPT ![j] = "failed"]
    /\ made' = [made EXCEPT ![j] = @ + 1]
    /\ FailedEvent(j, made[j] + 1)
    /\ UNCHANGED <<stalls, owner, work, runs, dlq, life>>

\* A slot is done with its job.  Only the holder of the lock may move the job.
Free(w) == work' = [work EXCEPT ![w] = None]
HoldsAnyway(w) == TRUE
HoldsLock(w) == owner[work[w]] = w
Unlock(j) == owner' = [owner EXCEPT ![j] = None]

\* The processor returned.
Complete(w) ==
    /\ work[w] # None
    /\ Free(w)
    /\ IF HoldsLock(w)
       THEN state' = [state EXCEPT ![work[w]] = "completed"] /\ Unlock(work[w])
       ELSE UNCHANGED <<state, owner>>
    /\ UNCHANGED <<made, stalls, runs, leaving, dlq, life>>

\* The processor threw: back to waiting, or failed for good.
FailRun(w) ==
    /\ work[w] # None
    /\ Free(w)
    /\ LET j == work[w] IN
       IF HoldsLock(w)
       THEN /\ made' = [made EXCEPT ![j] = @ + 1]
            /\ state' = [state EXCEPT
                 ![j] = IF made[j] + 1 >= MaxAttempts THEN "failed" ELSE "waiting"]
            /\ Unlock(j)
            /\ FailedEvent(j, made[j] + 1)
       ELSE UNCHANGED <<state, made, owner, leaving>>
    /\ UNCHANGED <<stalls, runs, dlq, life>>

\* The lock of an active job has run out, because nobody runs it any more or
\* because its slot could not renew it; the run of that slot goes on.
OrphanedIfUnlocked(j) == state[j] = "active" /\ owner[j] = None
Orphaned(j) == state[j] = "active" /\ work[owner[j]] # j

StallFound(j) ==
    /\ state[j] = "active"
    /\ Orphaned(j) \/ LocksLapse
    /\ state' = [state EXCEPT ![j] = "waiting"]
    /\ stalls' = [stalls EXCEPT ![j] = @ + 1]
    /\ Unlock(j)
    /\ UNCHANGED <<made, work, runs, leaving, dlq, life>>

\* dlq.add is answered.  An error is logged, and that is all.
DlqAdded(j) ==
    /\ j \in leaving
    /\ leaving' = leaving \ {j}
    /\ \/ dlq' = dlq \cup {j}
       \/ UNCHANGED dlq
    /\ UNCHANGED <<state, made, stalls, owner, work, runs, life>>

\* SIGTERM: stopWorkers closes this queue's worker when its turn has come; it
\* takes no more jobs and lets its runs end.
StopWorkers ==
    /\ process = "up" /\ crashes < MaxCrashes
    /\ process' = "stopping"
    /\ UNCHANGED <<state, made, stalls, owner, work, runs, leaving, dlq, crashes>>

\* The process ends and pm2 starts it again.  The jobs stay in Redis as they
\* are; a 'failed' handler that still waits is cut off.
EndProcess ==
    /\ process' = "up" /\ crashes' = crashes + 1
    /\ work' = [w \in Slots |-> None]
    /\ leaving' = {}
    /\ UNCHANGED <<state, made, stalls, owner, runs, dlq>>

\* process.exit(0) after stopWorkers, when no job runs any more.
ExitIdle == process = "stopping" /\ (\A w \in Slots : work[w] = None) /\ EndProcess

\* The process dies at any time: a crash, or pm2's kill after kill_timeout.
Crash == crashes < MaxCrashes /\ EndProcess

Pick(j) == \E w \in Slots : Take(w, j) \/ FailStalled(w, j)

QueueNext ==
    \/ \E j \in Jobs : AddJob(j) \/ Pick(j) \/ StallFound(j) \/ DlqAdded(j)
    \/ \E w \in Slots : Complete(w) \/ FailRun(w)
    \/ StopWorkers \/ ExitIdle \/ Crash

\* pm2 restarts the worker, whose slots take jobs and end runs; the stalled
\* checker of BullMQ finds what nobody runs.  MaxCrashes makes the crashes stop:
\* a worker that always dies before it takes a job never settles one.
QueueFairness ==
    /\ \A j \in Jobs : /\ WF_queueVars(Pick(j))
                       /\ WF_queueVars(Orphaned(j) /\ StallFound(j))
    /\ \A w \in Slots : WF_queueVars(Complete(w) \/ FailRun(w))
    /\ WF_queueVars(ExitIdle)

QueueSpec == QueueInit /\ [][QueueNext]_queueVars
FairQueueSpec == QueueSpec /\ QueueFairness
--------------------------------------------------------------------------------
(* Properties *)

States == {"unknown", "waiting", "active", "completed", "failed"}
Settled(j) == state[j] \in {"completed", "failed"}

\* Every variable holds a value of its type.
QueueTypeOK ==
    /\ state \in [Jobs -> States]
    /\ made \in [Jobs -> Nat] /\ stalls \in [Jobs -> Nat] /\ runs \in [Jobs -> Nat]
    /\ owner \in [Jobs -> Slots \cup {None}]
    /\ work \in [Slots -> Jobs \cup {None}]
    /\ leaving \subseteq Jobs /\ dlq \subseteq Jobs
    /\ process \in {"up", "stopping"} /\ crashes \in Nat

\* A job reaches the dead letter queue only when it has failed and used up its
\* attempts (worker.ts, the condition of the 'failed' handler).
DlqIsExhausted ==
    \A j \in leaving \cup dlq : state[j] = "failed" /\ made[j] >= MaxAttempts

\* A job is run at most MaxAttempts + MaxStalls times, never again once it is
\* settled: retries, crashes, lapsed locks and late answers of a slot that lost
\* its lock all counted.
phase == [j \in Jobs |-> IF state[j] = "unknown" THEN "new"
                         ELSE IF Settled(j) THEN "closed" ELSE "open"]
Contract == INSTANCE JobContract WITH MaxRuns <- MaxAttempts + MaxStalls
KeepsContract == Contract!ContractSpec

\* Every job that is added is settled in the end, by its processor or because
\* its attempts or stalls are used up.
EveryJobSettles == \A j \in Jobs : state[j] = "waiting" ~> Settled(j)
================================================================================
