----------------------------- MODULE JobQueueProofs -----------------------------
(***************************************************************************)
(* Theorems about JobQueue, for every number of jobs, slots, attempts,     *)
(* stalls and crashes.                                                     *)
(*                                                                         *)
(* That a job is run a bounded number of times needs three facts about     *)
(* each job: every run ended was counted as an attempt or as a stall       *)
(* (RunsCounted), only the holder of the lock of an active job moves it    *)
(* (LockInv), and a job in the dead letter queue stays failed.             *)
(***************************************************************************)
EXTENDS JobQueue, TLAPS

Open(j) == state[j] \in {"unknown", "waiting", "active"}

\* Runs begun = attempts counted + stalls found + the run of the lock holder.
RunsCounted ==
    \A j \in Jobs :
        /\ Open(j) => made[j] < MaxAttempts
        /\ state[j] = "active" => stalls[j] <= MaxStalls
        /\ state[j] = "active" => runs[j] = made[j] + stalls[j] + 1
        /\ state[j] \in {"unknown", "waiting"} => runs[j] = made[j] + stalls[j]

\* A lock is held on active jobs only.
LockInv == \A j \in Jobs : owner[j] # None => state[j] = "active"

\* A slot runs a job that was taken; two slots that run one job took it twice, and
\* as long as the job was never found stalled its only runner holds the lock; who
\* runs a job that is completed is not the one that completed it.
RunnersInv ==
    /\ \A j \in Jobs : state[j] = "unknown" => runs[j] = 0
    /\ \A w \in Slots : work[w] # None =>
         /\ state[work[w]] # "unknown" /\ runs[work[w]] > 0
         /\ \A v \in Slots \ {w} : work[v] = work[w] => runs[work[w]] > 1
         /\ stalls[work[w]] = 0 => owner[work[w]] = w
         /\ state[work[w]] = "completed" => runs[work[w]] > 1

QueueInv == QueueTypeOK /\ RunsCounted /\ LockInv /\ DlqIsExhausted /\ RunnersInv

LEMMA QueueInvInit == QueueInit => QueueInv
BY QueueAssumption
DEF QueueInit, life, QueueInv, QueueTypeOK, RunsCounted, LockInv, DlqIsExhausted, RunnersInv,
    Open, States
--------------------------------------------------------------------------------
(* One lemma per action *)

LEMMA AddJobKeeps == ASSUME QueueInv, NEW j \in Jobs, AddJob(j) PROVE QueueInv'
<1>1. QueueTypeOK'
  BY DEF QueueInv, QueueTypeOK, life, AddJob, States
<1>2. RunsCounted'
  BY DEF QueueInv, QueueTypeOK, RunsCounted, AddJob, Open
<1>3. LockInv'
  BY DEF QueueInv, QueueTypeOK, LockInv, AddJob
<1>4. DlqIsExhausted'
  BY DEF QueueInv, QueueTypeOK, DlqIsExhausted, AddJob
<1>5. RunnersInv'
  BY QueueAssumption DEF QueueInv, QueueTypeOK, RunsCounted, LockInv, RunnersInv, AddJob
<1>6. QED
  BY <1>1, <1>2, <1>3, <1>4, <1>5 DEF QueueInv

LEMMA TakeKeeps ==
    ASSUME QueueInv, NEW w \in Slots, NEW j \in Jobs, Take(w, j) PROVE QueueInv'
<1>1. QueueTypeOK'
  BY DEF QueueInv, QueueTypeOK, life, Take, States
<1>2. RunsCounted'
  BY DEF QueueInv, QueueTypeOK, RunsCounted, Take, Open
<1>3. LockInv'
  BY DEF QueueInv, QueueTypeOK, LockInv, Take
<1>4. DlqIsExhausted'
  BY DEF QueueInv, QueueTypeOK, DlqIsExhausted, Take
<1>5. RunnersInv'
  BY QueueAssumption DEF QueueInv, QueueTypeOK, RunsCounted, LockInv, RunnersInv, Take
<1>6. QED
  BY <1>1, <1>2, <1>3, <1>4, <1>5 DEF QueueInv

LEMMA FailStalledKeeps ==
    ASSUME QueueInv, NEW w \in Slots, NEW j \in Jobs, FailStalled(w, j) PROVE QueueInv'
<1>1. QueueTypeOK'
  BY DEF QueueInv, QueueTypeOK, life, FailStalled, FailedEvent, States
<1>2. RunsCounted'
  BY DEF QueueInv, QueueTypeOK, RunsCounted, FailStalled, Open
<1>3. LockInv'
  BY DEF QueueInv, QueueTypeOK, LockInv, FailStalled
<1>4. DlqIsExhausted'
  BY DEF QueueInv, QueueTypeOK, DlqIsExhausted, FailStalled, FailedEvent
<1>5. RunnersInv'
  BY QueueAssumption DEF QueueInv, QueueTypeOK, RunsCounted, LockInv, RunnersInv, FailStalled
<1>6. QED
  BY <1>1, <1>2, <1>3, <1>4, <1>5 DEF QueueInv

LEMMA CompleteKeeps == ASSUME QueueInv, NEW w \in Slots, Complete(w) PROVE QueueInv'
<1>1. work[w] \in Jobs
  BY DEF QueueInv, QueueTypeOK, Complete
<1>2. HoldsLock(w) => state[work[w]] = "active"
  BY <1>1, QueueAssumption DEF QueueInv, LockInv, HoldsLock
<1>3. QueueTypeOK'
  BY <1>1 DEF QueueInv, QueueTypeOK, life, Complete, Free, Unlock, States
<1>4. RunsCounted'
  BY <1>1, <1>2 DEF QueueInv, QueueTypeOK, RunsCounted, Complete, Open
<1>5. LockInv'
  BY <1>1, <1>2 DEF QueueInv, QueueTypeOK, LockInv, Complete, Unlock
<1>6. DlqIsExhausted'
  BY <1>1, <1>2 DEF QueueInv, QueueTypeOK, DlqIsExhausted, Complete
<1>7. RunnersInv'
  BY <1>1, <1>2, QueueAssumption DEF QueueInv, QueueTypeOK, LockInv, RunnersInv, HoldsLock, Complete, Free, Unlock
<1>8. QED
  BY <1>3, <1>4, <1>5, <1>6, <1>7 DEF QueueInv

LEMMA FailRunKeeps == ASSUME QueueInv, NEW w \in Slots, FailRun(w) PROVE QueueInv'
<1>1. work[w] \in Jobs
  BY DEF QueueInv, QueueTypeOK, FailRun
<1>2. HoldsLock(w) => state[work[w]] = "active"
  BY <1>1, QueueAssumption DEF QueueInv, LockInv, HoldsLock
<1>3. QueueTypeOK'
  BY <1>1 DEF QueueInv, QueueTypeOK, life, FailRun, FailedEvent, Free, Unlock, States
<1>4. RunsCounted'
  BY <1>1, <1>2, QueueAssumption DEF QueueInv, QueueTypeOK, RunsCounted, FailRun, Open
<1>5. LockInv'
  BY <1>1, <1>2 DEF QueueInv, QueueTypeOK, LockInv, FailRun, Unlock
<1>6. DlqIsExhausted'
  BY <1>1, <1>2, QueueAssumption
  DEF QueueInv, QueueTypeOK, DlqIsExhausted, FailRun, FailedEvent
<1>7. RunnersInv'
  BY <1>1, <1>2, QueueAssumption DEF QueueInv, QueueTypeOK, LockInv, RunnersInv, HoldsLock, FailRun, Free, Unlock
<1>8. QED
  BY <1>3, <1>4, <1>5, <1>6, <1>7 DEF QueueInv

LEMMA StallFoundKeeps == ASSUME QueueInv, NEW j \in Jobs, StallFound(j) PROVE QueueInv'
<1>1. QueueTypeOK'
  BY DEF QueueInv, QueueTypeOK, life, StallFound, Unlock, States
<1>2. RunsCounted'
  BY DEF QueueInv, QueueTypeOK, RunsCounted, StallFound, Open
<1>3. LockInv'
  BY DEF QueueInv, QueueTypeOK, LockInv, StallFound, Unlock
<1>4. DlqIsExhausted'
  BY DEF QueueInv, QueueTypeOK, DlqIsExhausted, StallFound
<1>5. RunnersInv'
  BY QueueAssumption DEF QueueInv, QueueTypeOK, RunsCounted, LockInv, RunnersInv, StallFound, Unlock
<1>6. QED
  BY <1>1, <1>2, <1>3, <1>4, <1>5 DEF QueueInv

LEMMA DlqAddedKeeps == ASSUME QueueInv, NEW j \in Jobs, DlqAdded(j) PROVE QueueInv'
BY DEF QueueInv, QueueTypeOK, RunsCounted, LockInv, DlqIsExhausted, RunnersInv, DlqAdded, life, Open

\* A stop and any end of the process, graceful or not, leave Redis as it is.
LEMMA EndKeeps ==
    ASSUME QueueInv, StopWorkers \/ ExitIdle \/ Crash PROVE QueueInv'
BY DEF QueueInv, QueueTypeOK, RunsCounted, LockInv, DlqIsExhausted, RunnersInv, Open,
       StopWorkers, ExitIdle, Crash, EndProcess

LEMMA QueueInvNext == QueueInv /\ [QueueNext]_queueVars => QueueInv'
<1> SUFFICES ASSUME QueueInv, [QueueNext]_queueVars PROVE QueueInv'
  OBVIOUS
<1>1. CASE UNCHANGED queueVars
  BY <1>1
  DEF queueVars, life, QueueInv, QueueTypeOK, RunsCounted, LockInv, DlqIsExhausted, RunnersInv,
      Open
<1>2. QED
  BY <1>1, AddJobKeeps, TakeKeeps, FailStalledKeeps, CompleteKeeps, FailRunKeeps,
     StallFoundKeeps, DlqAddedKeeps, EndKeeps
  DEF QueueNext, Pick

LEMMA QueueInvariant == QueueSpec => []QueueInv
BY QueueInvInit, QueueInvNext, PTL DEF QueueSpec

\* Every variable of the queue keeps its type.
THEOREM QueueTypeCorrect == QueueSpec => []QueueTypeOK
<1>1. QueueInv => QueueTypeOK
  BY DEF QueueInv
<1>2. QED
  BY <1>1, QueueInvariant, PTL

\* The dead letter queue, and the handlers about to fill it, only hold jobs
\* that failed for good with all their attempts used.
THEOREM OnlyExhaustedJobsLeave == QueueSpec => []DlqIsExhausted
<1>1. QueueInv => DlqIsExhausted
  BY DEF QueueInv
<1>2. QED
  BY <1>1, QueueInvariant, PTL
--------------------------------------------------------------------------------
(* The queue implements JobContract *)

LEMMA ContractStep ==
    ASSUME QueueInv, [QueueNext]_queueVars
    PROVE  [Contract!ContractNext]_Contract!contractVars
<1>1. ASSUME NEW j \in Jobs, AddJob(j)
      PROVE  Contract!Submit(j)
  BY <1>1 DEF AddJob, Contract!Submit, phase, Settled, QueueInv, QueueTypeOK
<1>2. ASSUME NEW w \in Slots, NEW j \in Jobs, Take(w, j)
      PROVE  Contract!Run(j)
  <2>1. runs[j] < MaxAttempts + MaxStalls
    BY <1>2, QueueAssumption DEF Take, QueueInv, QueueTypeOK, RunsCounted, Open
  <2>2. phase[j] = "open" /\ UNCHANGED phase
    BY <1>2 DEF Take, phase, Settled, QueueInv, QueueTypeOK
  <2>3. QED
    BY <1>2, <2>1, <2>2 DEF Take, Contract!Run
<1>3. ASSUME NEW w \in Slots, NEW j \in Jobs, FailStalled(w, j)
      PROVE  Contract!Close(j)
  BY <1>3 DEF FailStalled, Contract!Close, phase, Settled, QueueInv, QueueTypeOK
<1>4. ASSUME NEW w \in Slots, Complete(w) \/ FailRun(w)
      PROVE  Contract!Close(work[w]) \/ UNCHANGED <<phase, runs>>
  <2>1. work[w] \in Jobs /\ UNCHANGED runs
    BY <1>4 DEF QueueInv, QueueTypeOK, Complete, FailRun
  <2>2. CASE ~HoldsLock(w)
    BY <1>4, <2>1, <2>2 DEF Complete, FailRun, phase, Settled
  <2>3. CASE HoldsLock(w)
    <3>1. state[work[w]] = "active"
      BY <2>1, <2>3, QueueAssumption DEF QueueInv, LockInv, HoldsLock
    <3>2. PICK s \in {"completed", "failed", "waiting"} :
            state' = [state EXCEPT ![work[w]] = s]
      BY <1>4, <2>3 DEF Complete, FailRun
    <3>3. QED
      BY <2>1, <3>1, <3>2 DEF phase, Settled, Contract!Close, QueueInv, QueueTypeOK
  <2>4. QED
    BY <2>2, <2>3
<1>5. ASSUME NEW j \in Jobs, StallFound(j)
      PROVE  UNCHANGED <<phase, runs>>
  BY <1>5 DEF StallFound, phase, Settled, QueueInv, QueueTypeOK
<1>6. ASSUME \/ \E j \in Jobs : DlqAdded(j)
             \/ StopWorkers \/ ExitIdle \/ Crash
             \/ UNCHANGED queueVars
      PROVE  UNCHANGED <<phase, runs>>
  BY <1>6 DEF DlqAdded, StopWorkers, ExitIdle, Crash, EndProcess, queueVars, phase, Settled
<1>7. ASSUME NEW w \in Slots, Complete(w) \/ FailRun(w)
      PROVE  work[w] \in Jobs
  BY <1>7 DEF QueueInv, QueueTypeOK, Complete, FailRun
<1>8. QED
  BY <1>1, <1>2, <1>3, <1>4, <1>5, <1>6, <1>7
  DEF QueueNext, Pick, Contract!ContractNext, Contract!contractVars

\* However jobs fail, stall, crash or are run twice at once, a job is run at
\* most MaxAttempts + MaxStalls times and never after it is settled.
THEOREM QueueKeepsContract == QueueSpec => KeepsContract
<1>1. QueueInit => Contract!ContractInit
  BY DEF QueueInit, Contract!ContractInit, phase
<1>2. QueueInv /\ [QueueNext]_queueVars
        => [Contract!ContractNext]_Contract!contractVars
  BY ContractStep
<1>3. QED
  BY <1>1, <1>2, QueueInvariant, PTL DEF QueueSpec, KeepsContract, Contract!ContractSpec
================================================================================
