------------------------------ MODULE FlowProofs ------------------------------
(***************************************************************************)
(* Theorems about Flow, for every number of flows, slots, attempts, stalls *)
(* and crashes and any plans.  Flow drives its queue as JobQueue allows,   *)
(* so JobQueueProofs holds of it.                                          *)
(*                                                                         *)
(* What a completed record says is right because a run changes no record   *)
(* but its own (OwnRecords) and knows what it has passed (RunInv).  That   *)
(* a completed job has one takes a record no run is left to change         *)
(* (CompletedInv): a run whose lock lapsed may end long after the job.     *)
(***************************************************************************)
EXTENDS Flow, JobQueueProofs

LEMMA InitDrives == FlowInit => QueueInit
BY DEF FlowInit

\* Every step of the controller, the runs, BullMQ and the cleanup is a step of the
\* queue or leaves it alone.
LEMMA StepDrives == [FlowNext]_flowVars => [QueueNext]_queueVars
<1> SUFFICES ASSUME [FlowNext]_flowVars PROVE [QueueNext]_queueVars
  OBVIOUS
<1>1. ASSUME NEW j \in Jobs, ExecuteFlow(j) \/ PurgeRecords(j)
      PROVE  AddJob(j) \/ UNCHANGED queueVars
  BY <1>1 DEF ExecuteFlow, PurgeRecords
<1>2. ASSUME NEW w \in Slots, Process(w)
      PROVE  Complete(w) \/ FailRun(w) \/ UNCHANGED queueVars
  BY <1>2 DEF Process, Insert, EndStep, CompleteFlow, RecordFailure, ReturnJob, ThrowJob
<1>3. ASSUME NEW w \in Slots, NEW j \in Jobs, Begin(w, j)
      PROVE  Take(w, j)
  BY <1>3 DEF Begin
<1>4. CASE Redis \/ Shutdown \/ WorkerCrash
  BY <1>4 DEF Redis, Shutdown, WorkerCrash, QueueNext, Pick
<1>5. CASE UNCHANGED flowVars
  BY <1>5 DEF flowVars
<1> QED
  BY <1>1, <1>2, <1>3, <1>4, <1>5 DEF FlowNext, QueueNext, Pick

LEMMA FlowDrivesQueue == FlowSpec => QueueSpec
BY InitDrives, StepDrives, PTL DEF FlowSpec, QueueSpec
--------------------------------------------------------------------------------
(* What is known of records and runs *)

Records == [status : {"running", "completed", "failed"}, results : Seq(Results)]
Places  == {"idle", "insert", "step", "complete", "failing", "return", "throw"}
Going   == {"step", "complete", "return"}

FlowTypes ==
    /\ plan \in [Jobs -> Plans \cup {None}]
    /\ records \in [Jobs -> Seq(Records)]
    /\ at \in [Slots -> Places]
    /\ results \in [Slots -> Seq(Results)]
    /\ mine \in [Slots -> Nat]
    /\ purged \in [Jobs -> SUBSET Nat]
    /\ \A j \in Jobs : purged[j] \subseteq 1 .. Len(records[j])

\* A flow whose job was enqueued has a plan, one without has no record.
PlanInv ==
    \A j \in Jobs : /\ state[j] # "unknown" => plan[j] # None
                    /\ plan[j] = None => records[j] = <<>>

\* A slot is at an await exactly when it runs a job; its record is there.
SlotInv ==
    \A w \in Slots :
        /\ at[w] = "idle" <=> work[w] = None
        /\ work[w] # None => mine[w] <= Len(records[work[w]])
        /\ at[w] \in {"idle", "insert"} => mine[w] = 0 /\ results[w] = <<>>
        /\ at[w] \in Going => mine[w] > 0

\* The steps that a run has behind it, and the record when it returns.
Passed(p, res) == \A i \in 1 .. Len(res) : p[i] = "stop" => res[i] = "success"
RunInv ==
    \A w \in Slots :
        /\ at[w] = "step" => Len(results[w]) < Len(plan[work[w]])
        /\ at[w] \in {"complete", "return"} => Len(results[w]) = Len(plan[work[w]])
        /\ at[w] \in Going => Passed(plan[work[w]], results[w])
        /\ at[w] = "return" => records[work[w]][mine[w]].status = "completed"

\* Two runs of one job have different records.
OwnRecords ==
    \A w \in Slots : \A v \in Slots \ {w} :
        work[w] # None /\ work[w] = work[v] /\ mine[w] > 0 => mine[w] # mine[v]

\* A completed job has a completed record that is not of a run still going on.
Apart(j, k) == \A w \in Slots : work[w] = j => mine[w] # k
CompletedInv ==
    \A j \in Jobs : state[j] = "completed" =>
        \E k \in 1 .. Len(records[j]) : records[j][k].status = "completed" /\ Apart(j, k)

\* A run adds one record at most.
OneRunInv ==
    \A j \in Jobs :
        /\ runs[j] = 0 => records[j] = <<>>
        /\ runs[j] = 1 => Len(records[j]) <= 1
        /\ runs[j] = 1 => \A w \in Slots : work[w] = j /\ at[w] = "insert" => records[j] = <<>>

\* CompletedIsHonest, in terms of Passed.
HonestInv ==
    \A j \in Jobs : \A k \in 1 .. Len(records[j]) :
        records[j][k].status = "completed" =>
            Len(records[j][k].results) = Len(plan[j]) /\ Passed(plan[j], records[j][k].results)

FlowInv == /\ FlowTypes /\ PlanInv /\ SlotInv /\ RunInv /\ OwnRecords
           /\ CompletedInv /\ OneRunInv /\ HonestInv

LEMMA FlowInvInit == FlowInit => FlowInv
<1> SUFFICES ASSUME FlowInit PROVE FlowInv
  OBVIOUS
<1>1. FlowTypes
  BY DEF FlowInit, FlowTypes, Places
<1>2. PlanInv /\ SlotInv /\ RunInv /\ OwnRecords
  BY DEF FlowInit, QueueInit, PlanInv, SlotInv, RunInv, OwnRecords, Going
<1>3. CompletedInv /\ OneRunInv /\ HonestInv
  BY DEF FlowInit, QueueInit, CompletedInv, OneRunInv, HonestInv
<1> QED
  BY <1>1, <1>2, <1>3 DEF FlowInv
--------------------------------------------------------------------------------
(* Steps that change no record *)

LEMMA RunningKnows ==
    ASSUME QueueInv, FlowInv, NEW w \in Slots, work[w] # None
    PROVE  /\ work[w] \in Jobs /\ plan[work[w]] \in Seq(Modes)
           /\ records[work[w]] \in Seq(Records) /\ mine[w] \in 0 .. Len(records[work[w]])
           /\ results[w] \in Seq(Results)
<1>1. work[w] \in Jobs /\ state[work[w]] # "unknown"
  BY DEF QueueInv, QueueTypeOK, RunnersInv
<1>2. plan[work[w]] \in Seq(Modes)
  BY <1>1, FlowAssumption DEF FlowInv, FlowTypes, PlanInv
<1>3. QED
  BY <1>1, <1>2 DEF FlowInv, FlowTypes, SlotInv

LEMMA ExecuteKeeps ==
    ASSUME QueueInv, FlowInv, NEW j \in Jobs, ExecuteFlow(j)
    PROVE  FlowInv'
<1>1. /\ plan[j] = None /\ \E p \in Plans : plan' = [plan EXCEPT ![j] = p]
      /\ records[j] = <<>> /\ state[j] = "unknown" /\ \A w \in Slots : work[w] # j
      /\ UNCHANGED <<records, at, mine, results, purged, work, runs>>
  <2>1. plan[j] = None /\ \E p \in Plans : plan' = [plan EXCEPT ![j] = p]
    BY DEF ExecuteFlow
  <2>2. records[j] = <<>> /\ state[j] = "unknown"
    BY <2>1 DEF FlowInv, PlanInv
  <2>3. \A w \in Slots : work[w] # j
    BY <2>2, QueueAssumption DEF QueueInv, RunnersInv
  <2>4. UNCHANGED <<records, at, mine, results, purged, work, runs>>
    BY DEF ExecuteFlow, AddJob, queueVars
  <2> QED
    BY <2>1, <2>2, <2>3, <2>4
<1>2. state' = state \/ state' = [state EXCEPT ![j] = "waiting"]
  BY DEF ExecuteFlow, AddJob, queueVars
<1>3. FlowTypes'
  BY <1>1 DEF FlowInv, FlowTypes
<1>4. PlanInv'
  BY <1>1, <1>2, FlowAssumption DEF FlowInv, FlowTypes, PlanInv, QueueInv, QueueTypeOK
<1>5. SlotInv' /\ OwnRecords' /\ OneRunInv'
  BY <1>1 DEF FlowInv, SlotInv, OwnRecords, OneRunInv
<1>6. \A w \in Slots : work[w] # None => plan'[work[w]] = plan[work[w]]
  BY <1>1 DEF FlowInv, FlowTypes, QueueInv, QueueTypeOK
<1>7. RunInv'
  BY <1>1, <1>6 DEF FlowInv, RunInv, SlotInv, Going
<1>8. CompletedInv'
  BY <1>1, <1>2 DEF FlowInv, CompletedInv, Apart, QueueInv, QueueTypeOK
<1>9. HonestInv'
  BY <1>1 DEF FlowInv, FlowTypes, HonestInv
<1> QED
  BY <1>3, <1>4, <1>5, <1>7, <1>8, <1>9 DEF FlowInv

\* BullMQ, the 'failed' handler and a shutdown complete no job and touch no run.
LEMMA QueueStepKeeps ==
    ASSUME QueueInv, FlowInv, Redis \/ Shutdown \/ UNCHANGED flowVars
    PROVE  FlowInv'
<1>1. UNCHANGED <<plan, records, at, mine, results, purged, runs>>
  BY DEF Redis, Shutdown, flowVars, flowOnly, queueVars, StallFound, DlqAdded, FailStalled, StopWorkers,
         ExitIdle, EndProcess
<1>2. /\ work' = work
      /\ \A j \in Jobs : state'[j] = state[j] \/ (state[j] \in {"waiting", "active"} /\ state'[j] # "completed")
  BY DEF Redis, Shutdown, flowVars, queueVars, StallFound, DlqAdded, FailStalled, StopWorkers, ExitIdle,
         EndProcess, QueueInv, QueueTypeOK
<1>3. FlowTypes' /\ OwnRecords' /\ SlotInv' /\ RunInv' /\ OneRunInv' /\ HonestInv'
  BY <1>1, <1>2 DEF FlowInv, FlowTypes, OwnRecords, SlotInv, RunInv, OneRunInv, HonestInv
<1>4. PlanInv'
  BY <1>1, <1>2 DEF FlowInv, PlanInv
<1>5. CompletedInv'
  BY <1>1, <1>2 DEF FlowInv, CompletedInv, Apart
<1> QED
  BY <1>3, <1>4, <1>5 DEF FlowInv

LEMMA BeginKeeps ==
    ASSUME QueueInv, FlowInv, NEW w \in Slots, NEW j \in Jobs, Begin(w, j)
    PROVE  FlowInv'
<1>1. /\ work[w] = None /\ work' = [work EXCEPT ![w] = j] /\ at[w] = "idle"
      /\ at' = [at EXCEPT ![w] = "insert"]
      /\ state[j] = "waiting" /\ state' = [state EXCEPT ![j] = "active"]
      /\ runs' = [runs EXCEPT ![j] = @ + 1]
      /\ UNCHANGED <<plan, records, mine, results, purged>>
  BY DEF Begin, Take, Move, FlowInv, SlotInv
<1>2. FlowTypes'
  BY <1>1 DEF FlowInv, FlowTypes, Places
<1>3. PlanInv'
  BY <1>1 DEF FlowInv, PlanInv, QueueInv, QueueTypeOK
<1>4. SlotInv'
  BY <1>1, QueueAssumption DEF FlowInv, FlowTypes, SlotInv, Going, QueueInv, QueueTypeOK
<1>5. \A v \in Slots : at'[v] \in Going => v # w /\ at'[v] = at[v] /\ work'[v] = work[v]
  BY <1>1 DEF FlowInv, FlowTypes, Going, QueueInv, QueueTypeOK
<1>6. RunInv'
  BY <1>1, <1>5 DEF FlowInv, RunInv, Going
<1>7. OwnRecords'
  BY <1>1 DEF FlowInv, FlowTypes, SlotInv, OwnRecords, QueueInv, QueueTypeOK
<1>8. CompletedInv'
  <2>1. ASSUME NEW i \in Jobs, state'[i] = "completed"
        PROVE  i # j /\ state[i] = "completed"
    BY <1>1, <2>1 DEF QueueInv, QueueTypeOK
  <2>2. ASSUME NEW i \in Jobs, i # j, NEW k, Apart(i, k)
        PROVE  Apart(i, k)'
    BY <1>1, <2>2 DEF Apart, QueueInv, QueueTypeOK
  <2> QED
    BY <1>1, <2>1, <2>2 DEF FlowInv, CompletedInv
<1>9. OneRunInv'
  <2>1. \A i \in Jobs : runs[i] \in Nat
    BY DEF QueueInv, QueueTypeOK
  <2>2. \A i \in Jobs : runs'[i] = IF i = j THEN runs[i] + 1 ELSE runs[i]
    BY <1>1 DEF QueueInv, QueueTypeOK
  <2>3. \A v \in Slots \ {w} : work'[v] = work[v] /\ at'[v] = at[v]
    BY <1>1 DEF FlowInv, FlowTypes, QueueInv, QueueTypeOK
  <2>4. work'[w] = j /\ runs'[j] = 1 => records[j] = <<>>
    BY <2>1, <2>2 DEF FlowInv, OneRunInv
  <2> QED
    BY <1>1, <2>1, <2>2, <2>3, <2>4 DEF FlowInv, OneRunInv, QueueInv, QueueTypeOK
<1>10. HonestInv'
  BY <1>1 DEF FlowInv, HonestInv
<1> QED
  BY <1>2, <1>3, <1>4, <1>6, <1>7, <1>8, <1>9, <1>10 DEF FlowInv

LEMMA PurgeKeeps ==
    ASSUME QueueInv, FlowInv, NEW j \in Jobs, PurgeRecords(j)
    PROVE  FlowInv'
<1>1. /\ UNCHANGED <<plan, records, at, mine, results, work, state, runs>>
      /\ \E S \in SUBSET DOMAIN records[j] : purged' = [purged EXCEPT ![j] = @ \cup S]
  <2> DEFINE old == {k \in Stored(j) : records[j][k].status = "completed"}
  <2>1. old \in SUBSET DOMAIN records[j]
    BY DEF Stored
  <2> QED
    BY <2>1 DEF PurgeRecords, queueVars
<1>2. FlowTypes'
  <2>1. DOMAIN records[j] = 1 .. Len(records[j])
    BY DEF FlowInv, FlowTypes
  <2> QED
    BY <1>1, <2>1 DEF FlowInv, FlowTypes
<1>3. PlanInv' /\ SlotInv' /\ RunInv' /\ OwnRecords'
  BY <1>1 DEF FlowInv, PlanInv, SlotInv, RunInv, OwnRecords
<1>4. CompletedInv'
  BY <1>1 DEF FlowInv, CompletedInv, Apart
<1>5. OneRunInv'
  BY <1>1 DEF FlowInv, OneRunInv
<1>6. HonestInv'
  BY <1>1 DEF FlowInv, HonestInv
<1> QED
  BY <1>2, <1>3, <1>4, <1>5, <1>6 DEF FlowInv
--------------------------------------------------------------------------------
(* Steps of a run *)

LEMMA AppendFacts ==
    ASSUME NEW S, NEW s \in Seq(S), NEW d \in S
    PROVE  /\ Append(s, d) \in Seq(S) /\ Len(Append(s, d)) = Len(s) + 1
           /\ \A k \in 1 .. Len(s) : Append(s, d)[k] = s[k]
           /\ Append(s, d)[Len(s) + 1] = d
OBVIOUS

LEMMA SetFacts ==
    ASSUME NEW S, NEW s \in Seq(S), NEW k \in 1 .. Len(s), NEW d \in S
    PROVE  /\ [s EXCEPT ![k] = d] \in Seq(S) /\ Len([s EXCEPT ![k] = d]) = Len(s)
           /\ \A i \in 1 .. Len(s) : [s EXCEPT ![k] = d][i] = IF i = k THEN d ELSE s[i]
OBVIOUS

LEMMA InsertKeeps ==
    ASSUME QueueInv, FlowInv, NEW w \in Slots, Insert(w)
    PROVE  FlowInv'
<1> DEFINE j == work[w]
           p == plan[j]
           n == Len(records[j])
           d == Outcome("running", <<>>)
<1>1. /\ at[w] = "insert" /\ j \in Jobs /\ work[w] # None /\ mine[w] = 0 /\ results[w] = <<>>
      /\ p \in Seq(Modes) /\ records[j] \in Seq(Records) /\ n \in Nat /\ d \in Records
  <2>1. at[w] = "insert" /\ work[w] # None /\ mine[w] = 0 /\ results[w] = <<>>
    BY DEF Insert, FlowInv, SlotInv
  <2>2. d \in Records
    BY DEF Outcome, Records
  <2>3. j \in Jobs /\ p \in Seq(Modes) /\ records[j] \in Seq(Records)
    BY <2>1, RunningKnows
  <2> QED
    BY <2>1, <2>2, <2>3
<1>2. /\ UNCHANGED <<work, state, runs, plan, results, purged>>
      /\ \/ UNCHANGED <<records, mine>> /\ at' = [at EXCEPT ![w] = "failing"]
         \/ /\ records' = [records EXCEPT ![j] = Append(@, d)]
            /\ mine' = [mine EXCEPT ![w] = n + 1]
            /\ \/ at' = [at EXCEPT ![w] = "failing"]
               \/ 1 <= Len(p) /\ at' = [at EXCEPT ![w] = "step"]
               \/ Len(p) = 0 /\ at' = [at EXCEPT ![w] = "complete"]
  <2>1. Len(p) \in Nat
    BY <1>1
  <2> QED
    BY <1>1, <2>1 DEF Insert, StepOrEnd, Move, queueVars
<1>3. CASE UNCHANGED <<records, mine>> /\ at' = [at EXCEPT ![w] = "failing"]
  <2>1. FlowTypes' /\ PlanInv' /\ HonestInv'
    BY <1>2, <1>3 DEF FlowInv, FlowTypes, PlanInv, HonestInv, Places
  <2>2. SlotInv' /\ RunInv' /\ OwnRecords'
    BY <1>1, <1>2, <1>3 DEF FlowInv, FlowTypes, SlotInv, RunInv, OwnRecords, Going
  <2>3. CompletedInv'
    BY <1>2, <1>3 DEF FlowInv, CompletedInv, Apart
  <2>4. OneRunInv'
    BY <1>1, <1>2, <1>3 DEF FlowInv, FlowTypes, OneRunInv
  <2> QED
    BY <2>1, <2>2, <2>3, <2>4 DEF FlowInv
<1>4. CASE /\ records' = [records EXCEPT ![j] = Append(@, d)]
           /\ mine' = [mine EXCEPT ![w] = n + 1]
           /\ \/ at' = [at EXCEPT ![w] = "failing"]
              \/ 1 <= Len(p) /\ at' = [at EXCEPT ![w] = "step"]
              \/ Len(p) = 0 /\ at' = [at EXCEPT ![w] = "complete"]
  <2>1. /\ records'[j] \in Seq(Records) /\ Len(records'[j]) = n + 1 /\ records'[j][n + 1] = d
        /\ \A k \in 1 .. n : records'[j][k] = records[j][k]
        /\ \A i \in Jobs \ {j} : records'[i] = records[i]
        /\ records' \in [Jobs -> Seq(Records)]
    <3>1. records'[j] = Append(records[j], d) /\ \A i \in Jobs \ {j} : records'[i] = records[i]
      BY <1>1, <1>4 DEF FlowInv, FlowTypes
    <3>2. Append(records[j], d) \in Seq(Records)
      BY <1>1, AppendFacts
    <3>3. records' \in [Jobs -> Seq(Records)]
      BY <1>4, <3>2 DEF FlowInv, FlowTypes
    <3> HIDE DEF j, d, n
    <3> QED
      BY <1>1, <3>1, <3>3, AppendFacts DEF n
  <2>2. /\ mine'[w] = n + 1 /\ at'[w] \in {"failing", "step", "complete"} /\ results'[w] = <<>>
        /\ at'[w] = "step" => 1 <= Len(p)
        /\ at'[w] = "complete" => Len(p) = 0
        /\ \A v \in Slots \ {w} : mine'[v] = mine[v] /\ at'[v] = at[v]
        /\ at' \in [Slots -> Places] /\ mine' \in [Slots -> Nat]
    <3>1. at \in [Slots -> Places] /\ mine \in [Slots -> Nat] /\ n + 1 \in Nat
      BY <1>1 DEF FlowInv, FlowTypes
    <3> HIDE DEF n, p
    <3> QED
      BY <1>1, <1>2, <1>4, <3>1 DEF Places
  <2>3. \A i \in Jobs : /\ Len(records[i]) \in Nat /\ Len(records'[i]) \in Nat
                        /\ Len(records[i]) <= Len(records'[i])
                        /\ \A k \in 1 .. Len(records[i]) : records'[i][k] = records[i][k]
    <3> SUFFICES ASSUME NEW i \in Jobs
                 PROVE  /\ Len(records[i]) \in Nat /\ Len(records'[i]) \in Nat
                        /\ Len(records[i]) <= Len(records'[i])
                        /\ \A k \in 1 .. Len(records[i]) : records'[i][k] = records[i][k]
      OBVIOUS
    <3>1. records[i] \in Seq(Records)
      BY DEF FlowInv, FlowTypes
    <3> HIDE DEF j, n, d
    <3>2. CASE i = j
      <4>1. Len(records[i]) = n
        BY <3>2 DEF n, j
      <4> QED
        BY <1>1, <2>1, <3>2, <4>1
    <3>3. CASE i # j
      BY <2>1, <3>1, <3>3
    <3> QED
      BY <3>2, <3>3
  <2>4. FlowTypes'
    BY <1>1, <1>2, <2>1, <2>2, <2>3 DEF FlowInv, FlowTypes
  <2>5. PlanInv'
    BY <1>1, <1>2, <2>1, FlowAssumption DEF FlowInv, PlanInv, QueueInv, RunnersInv
  <2>6. \A v \in Slots : work[v] # None => /\ work[v] \in Jobs /\ mine[v] \in 0 .. Len(records[work[v]])
                                           /\ records[work[v]] \in Seq(Records)
    BY RunningKnows
  <2>7. SlotInv'
    BY <1>1, <1>2, <2>2, <2>3, <2>1, <2>6 DEF FlowInv, SlotInv, Going
  <2>8. RunInv'
    <3>1. \A v \in Slots \ {w} : at[v] = "return" =>
             records'[work[v]][mine[v]] = records[work[v]][mine[v]]
      BY <2>3, <2>6 DEF FlowInv, SlotInv, Going
    <3>2. Len(results[w]) = 0 /\ Passed(p, results[w])
      BY <1>1 DEF Passed
    <3> QED
      BY <1>1, <1>2, <2>2, <3>1, <3>2 DEF FlowInv, RunInv, Going
  <2>9. OwnRecords'
    <3>1. \A v \in Slots \ {w} : work[v] = j => mine'[v] \in 0 .. n
      BY <1>1, <2>2, <2>6
    <3>2. \A v \in Slots \ {w} : \A u \in Slots \ {w, v} :
             work[u] # None /\ work[u] = work[v] /\ mine[u] > 0 => mine[u] # mine[v]
      BY DEF FlowInv, OwnRecords
    <3> HIDE DEF n, j
    <3>3. \A v \in Slots \ {w} : work[v] = j => mine'[v] # mine'[w]
      BY <1>1, <2>2, <3>1
    <3>4. \A v \in Slots \ {w} : mine'[v] = mine[v]
      BY <2>2
    <3> SUFFICES ASSUME NEW u \in Slots, NEW v \in Slots \ {u}, work[u] # None, work[u] = work[v],
                        mine'[u] > 0
                 PROVE  mine'[u] # mine'[v]
      BY <1>2 DEF OwnRecords
    <3>5. CASE u # w /\ v # w
      BY <3>2, <3>4, <3>5
    <3>6. CASE u = w
      BY <3>3, <3>6 DEF j
    <3>7. CASE v = w
      BY <3>3, <3>7 DEF j
    <3> QED
      BY <3>5, <3>6, <3>7
  <2>10. CompletedInv'
    <3>1. ASSUME NEW i \in Jobs, NEW k \in 1 .. Len(records[i]), Apart(i, k)
          PROVE  Apart(i, k)'
      BY <1>1, <1>2, <2>2, <3>1 DEF Apart
    <3> QED
      BY <1>2, <2>3, <3>1 DEF FlowInv, CompletedInv
  <2>11. OneRunInv'
    <3>1. runs[j] # 0 /\ (runs[j] = 1 => n = 0)
      BY <1>1 DEF FlowInv, OneRunInv, QueueInv, RunnersInv, QueueTypeOK
    <3>2. \A v \in Slots \ {w} : work[v] = j => runs[j] # 1
      BY <1>1 DEF QueueInv, RunnersInv, QueueTypeOK
    <3> QED
      BY <1>1, <1>2, <2>1, <2>2, <3>1, <3>2 DEF FlowInv, OneRunInv
  <2>12. HonestInv'
    <3>1. d.status # "completed"
      BY DEF Outcome
    <3>2. \A i \in Jobs : \A k \in 1 .. Len(records'[i]) :
             k \in 1 .. Len(records[i]) \/ (i = j /\ k = n + 1)
      BY <1>1, <2>1
    <3> HIDE DEF d, n, j
    <3>3. \A i \in Jobs : \A k \in 1 .. Len(records'[i]) : records'[i][k].status = "completed" =>
             k \in 1 .. Len(records[i]) /\ records'[i][k] = records[i][k]
      BY <2>1, <2>3, <3>1, <3>2
    <3> QED
      BY <1>2, <3>3 DEF FlowInv, HonestInv
  <2> QED
    BY <2>4, <2>5, <2>7, <2>8, <2>9, <2>10, <2>11, <2>12 DEF FlowInv
<1> QED
  BY <1>2, <1>3, <1>4
LEMMA EndStepKeeps ==
    ASSUME QueueInv, FlowInv, NEW w \in Slots, EndStep(w)
    PROVE  FlowInv'
<1> DEFINE p == plan[work[w]]
           n == Len(results[w])
<1>1. /\ at[w] = "step" /\ work[w] # None /\ work[w] \in Jobs /\ mine[w] > 0
      /\ p \in Seq(Modes) /\ results[w] \in Seq(Results)
      /\ n < Len(p) /\ Passed(p, results[w]) /\ n \in Nat /\ Len(p) \in Nat
  <2>1. at[w] = "step" /\ work[w] # None /\ mine[w] > 0
    BY DEF EndStep, FlowInv, SlotInv, Going
  <2> QED
    BY <2>1, RunningKnows DEF FlowInv, RunInv, Going
<1>2. PICK res \in Results :
        /\ results' = [results EXCEPT ![w] = Append(@, res)]
        /\ \/ res = "failed" /\ p[n + 1] = "stop" /\ at' = [at EXCEPT ![w] = "failing"]
           \/ /\ ~(res = "failed" /\ p[n + 1] = "stop")
              /\ \/ n + 2 <= Len(p) /\ at' = [at EXCEPT ![w] = "step"]
                 \/ n + 2 > Len(p) /\ at' = [at EXCEPT ![w] = "complete"]
  <2>1. PICK res \in Results :
          /\ results' = [results EXCEPT ![w] = Append(@, res)]
          /\ IF res = "failed" /\ p[n + 1] = "stop"
             THEN at' = [at EXCEPT ![w] = "failing"]
             ELSE at' = [at EXCEPT ![w] = IF (n + 1) + 1 <= Len(p) THEN "step" ELSE "complete"]
    BY DEF EndStep, Stops, StepOrEnd, Move
  <2>2. (n + 1) + 1 = n + 2 /\ (n + 2 <= Len(p) \/ n + 2 > Len(p))
    BY <1>1
  <2> HIDE DEF n, p
  <2> QED
    BY <2>1, <2>2
<1>3. UNCHANGED <<work, state, runs, plan, mine, records, purged>>
  BY DEF EndStep, queueVars
<1>4. /\ results'[w] \in Seq(Results) /\ Len(results'[w]) = n + 1
      /\ \A k \in 1 .. n : results'[w][k] = results[w][k]
      /\ results'[w][n + 1] = res
      /\ results' \in [Slots -> Seq(Results)]
      /\ \A v \in Slots \ {w} : results'[v] = results[v]
  <2>1. results \in [Slots -> Seq(Results)]
    BY DEF FlowInv, FlowTypes
  <2>2. Append(results[w], res) \in Seq(Results) /\ results'[w] = Append(results[w], res)
    BY <1>1, <1>2, <2>1
  <2> QED
    BY <1>1, <1>2, <2>1, <2>2, AppendFacts
<1>5. at'[w] \in {"step", "complete"} => Passed(p, results'[w])
  <2>1. at'[w] \in {"step", "complete"} => ~(res = "failed" /\ p[n + 1] = "stop")
    BY <1>2 DEF FlowInv, FlowTypes
  <2>2. ASSUME ~(res = "failed" /\ p[n + 1] = "stop"), NEW k \in 1 .. n + 1, p[k] = "stop"
        PROVE  results'[w][k] = "success"
    <3>1. CASE k = n + 1
      BY <1>4, <2>2, <3>1 DEF Results
    <3>2. CASE k \in 1 .. n
      BY <1>1, <1>4, <2>2, <3>2 DEF Passed
    <3> QED
      BY <1>1, <3>1, <3>2
  <2> QED
    BY <1>4, <2>1, <2>2 DEF Passed
<1>6. /\ at'[w] \in {"failing", "step", "complete"} /\ at' \in [Slots -> Places]
      /\ at'[w] = "step" => Len(results'[w]) < Len(p)
      /\ at'[w] = "complete" => Len(results'[w]) = Len(p)
      /\ \A v \in Slots \ {w} : at'[v] = at[v]
  <2>1. at \in [Slots -> Places]
    BY DEF FlowInv, FlowTypes
  <2> HIDE DEF p, n
  <2>2. \E where \in {"failing", "step", "complete"} : at' = [at EXCEPT ![w] = where]
    BY <1>2
  <2>3. /\ at'[w] \in {"failing", "step", "complete"} /\ at' \in [Slots -> Places]
        /\ \A v \in Slots \ {w} : at'[v] = at[v]
    BY <2>1, <2>2 DEF Places
  <2>4. /\ at'[w] = "step" => n + 2 <= Len(p)
        /\ at'[w] = "complete" => n + 2 > Len(p)
    BY <1>2, <2>1
  <2> QED
    BY <1>1, <1>4, <2>3, <2>4
<1>7. FlowTypes' /\ PlanInv' /\ HonestInv'
  BY <1>3, <1>4, <1>6 DEF FlowInv, FlowTypes, PlanInv, HonestInv
<1>8. SlotInv' /\ OwnRecords'
  BY <1>1, <1>3, <1>4, <1>6 DEF FlowInv, SlotInv, OwnRecords, Going
<1>9. RunInv'
  BY <1>1, <1>3, <1>4, <1>5, <1>6 DEF FlowInv, RunInv, Going
<1>10. CompletedInv'
  BY <1>3 DEF FlowInv, CompletedInv, Apart
<1>11. OneRunInv'
  BY <1>1, <1>3, <1>4, <1>6 DEF FlowInv, OneRunInv
<1> QED
  BY <1>7, <1>8, <1>9, <1>10, <1>11 DEF FlowInv

\* An update changes the record of the run and no other.
LEMMA UpdateEffect ==
    ASSUME QueueInv, FlowInv, NEW w \in Slots, work[w] # None,
           NEW st \in {"running", "completed", "failed"}, Update(w, st)
    PROVE  /\ records' \in [Jobs -> Seq(Records)]
           /\ \A j \in Jobs : Len(records'[j]) = Len(records[j])
           /\ \A j \in Jobs : \A k \in 1 .. Len(records[j]) :
                records'[j][k] = IF j = work[w] /\ k = mine[w] THEN Outcome(st, results[w])
                                 ELSE records[j][k]
<1> DEFINE j == work[w]
           d == Outcome(st, results[w])
<1>1. /\ j \in Jobs /\ records[j] \in Seq(Records) /\ mine[w] \in 0 .. Len(records[j])
      /\ records \in [Jobs -> Seq(Records)]
  BY RunningKnows DEF FlowInv, FlowTypes
<1>2. d \in Records
  BY RunningKnows DEF Outcome, Records
<1>3. CASE mine[w] = 0
  <2>1. records' = records
    BY <1>3 DEF Update
  <2> QED
    BY <1>1, <1>3, <2>1
<1>4. CASE mine[w] \in 1 .. Len(records[j])
  <2>1. records' = [records EXCEPT ![j] = [@ EXCEPT ![mine[w]] = d]]
    BY <1>1, <1>4 DEF Update
  <2> HIDE DEF d, j
  <2>2. records'[j] = [records[j] EXCEPT ![mine[w]] = d] /\ \A i \in Jobs \ {j} : records'[i] = records[i]
    BY <1>1, <2>1
  <2>3. /\ records'[j] \in Seq(Records) /\ Len(records'[j]) = Len(records[j])
        /\ \A i \in 1 .. Len(records[j]) : records'[j][i] = IF i = mine[w] THEN d ELSE records[j][i]
    BY <1>1, <1>2, <1>4, <2>2, SetFacts
  <2>4. records' \in [Jobs -> Seq(Records)]
    BY <1>1, <2>1, <2>2, <2>3
  <2> QED
    BY <2>2, <2>3, <2>4 DEF d, j
<1> QED
  BY <1>1, <1>3, <1>4

\* CompleteFlow and RecordFailure, applied or not.
LEMMA WriteKeeps ==
    ASSUME QueueInv, FlowInv, NEW w \in Slots, work[w] # None,
           NEW st \in {"completed", "failed"}, Update(w, st) \/ UNCHANGED records,
           NEW where \in {"failing", "return", "throw"}, Move(w, where),
           UNCHANGED <<queueVars, plan, mine, results, purged>>,
           st = "completed" => /\ Len(results[w]) = Len(plan[work[w]])
                               /\ Passed(plan[work[w]], results[w]),
           where = "return" => st = "completed" /\ mine[w] > 0 /\ Update(w, st)
    PROVE  FlowInv'
<1> DEFINE d == Outcome(st, results[w])
<1>1. /\ UNCHANGED <<work, state, runs, plan, mine, results, purged>>
      /\ at' \in [Slots -> Places] /\ at'[w] = where /\ \A v \in Slots \ {w} : at'[v] = at[v]
  BY DEF queueVars, Move, FlowInv, FlowTypes, Places
<1>2. /\ records' \in [Jobs -> Seq(Records)]
      /\ \A j \in Jobs : Len(records'[j]) = Len(records[j])
      /\ \A j \in Jobs : \A k \in 1 .. Len(records[j]) :
           records'[j][k] = records[j][k] \/ (j = work[w] /\ k = mine[w] /\ records'[j][k] = d)
  <2>1. CASE Update(w, st)
    BY <2>1, UpdateEffect
  <2>2. CASE UNCHANGED records
    BY <2>2 DEF FlowInv, FlowTypes
  <2> QED
    BY <2>1, <2>2
<1>3. \A j \in Jobs : records[j] = <<>> => records'[j] = <<>>
  BY <1>2 DEF FlowInv, FlowTypes
<1>4. d.status = st /\ d.results = results[w]
  BY DEF Outcome
<1>5. /\ work[w] \in Jobs /\ mine[w] \in 0 .. Len(records[work[w]])
      /\ \A v \in Slots : work[v] # None =>
           work[v] \in Jobs /\ mine[v] \in 0 .. Len(records[work[v]])
  BY RunningKnows
<1> HIDE DEF d
<1>6. FlowTypes' /\ PlanInv'
  BY <1>1, <1>2, <1>3 DEF FlowInv, FlowTypes, PlanInv
<1>7. SlotInv' /\ OwnRecords'
  <2>1. SlotInv'
    BY <1>1, <1>2, <1>5 DEF FlowInv, SlotInv, Going
  <2>2. OwnRecords'
    BY <1>1 DEF FlowInv, OwnRecords
  <2> QED
    BY <2>1, <2>2
<1>8. RunInv'
  <2>1. ASSUME where = "return"
        PROVE  records'[work[w]][mine[w]].status = "completed"
    <3>1. Update(w, st) /\ st = "completed" /\ mine[w] \in 1 .. Len(records[work[w]])
      BY <1>5, <2>1
    <3>2. records'[work[w]][mine[w]] = Outcome(st, results[w])
      BY <1>5, <3>1, UpdateEffect
    <3> QED
      BY <3>1, <3>2 DEF Outcome
  <2>2. ASSUME NEW v \in Slots \ {w}, at[v] = "return"
        PROVE  records'[work[v]][mine[v]].status = "completed"
    <3>1. work[v] # None /\ mine[v] > 0 /\ records[work[v]][mine[v]].status = "completed"
      BY <2>2 DEF FlowInv, SlotInv, RunInv, Going
    <3>2. ~(work[v] = work[w] /\ mine[v] = mine[w])
      BY <3>1 DEF FlowInv, OwnRecords
    <3> QED
      BY <1>2, <1>5, <3>1, <3>2
  <2>3. \A v \in Slots \ {w} : at'[v] = at[v] /\ work'[v] = work[v] /\ plan' = plan /\ results' = results
    BY <1>1
  <2> QED
    BY <1>1, <2>1, <2>2, <2>3 DEF FlowInv, RunInv, Going
<1>9. CompletedInv'
  <2>1. ASSUME NEW i \in Jobs, NEW k \in 1 .. Len(records[i]), Apart(i, k)
        PROVE  Apart(i, k)' /\ records'[i][k] = records[i][k]
    BY <1>1, <1>2, <2>1 DEF Apart
  <2> QED
    BY <1>1, <1>2, <2>1 DEF FlowInv, CompletedInv
<1>10. OneRunInv'
  BY <1>1, <1>2, <1>3 DEF FlowInv, OneRunInv
<1>11. HonestInv'
  <2> SUFFICES ASSUME NEW j \in Jobs, NEW k \in 1 .. Len(records'[j]), records'[j][k].status = "completed"
               PROVE  /\ Len(records'[j][k].results) = Len(plan[j])
                      /\ Passed(plan[j], records'[j][k].results)
    BY <1>1 DEF HonestInv
  <2>1. CASE records'[j][k] = records[j][k]
    BY <1>2, <2>1 DEF FlowInv, HonestInv
  <2>2. CASE j = work[w] /\ records'[j][k] = d
    BY <1>4, <2>2
  <2> QED
    BY <1>2, <2>1, <2>2
<1> QED
  BY <1>6, <1>7, <1>8, <1>9, <1>10, <1>11 DEF FlowInv

LEMMA CompleteFlowKeeps ==
    ASSUME QueueInv, FlowInv, NEW w \in Slots, CompleteFlow(w)
    PROVE  FlowInv'
<1>1. /\ work[w] # None /\ mine[w] > 0
      /\ Len(results[w]) = Len(plan[work[w]]) /\ Passed(plan[work[w]], results[w])
  BY DEF CompleteFlow, FlowInv, SlotInv, RunInv, Going
<1>2. UNCHANGED <<queueVars, plan, mine, results, purged>>
  BY DEF CompleteFlow
<1>3. CASE Update(w, "completed") /\ Move(w, "return")
  BY <1>1, <1>2, <1>3, WriteKeeps
<1>4. CASE (Update(w, "completed") \/ UNCHANGED records) /\ Move(w, "failing")
  BY <1>1, <1>2, <1>4, WriteKeeps
<1> QED
  BY <1>3, <1>4 DEF CompleteFlow

LEMMA RecordFailureKeeps ==
    ASSUME QueueInv, FlowInv, NEW w \in Slots, RecordFailure(w)
    PROVE  FlowInv'
<1>1. work[w] # None
  BY DEF RecordFailure, FlowInv, SlotInv
<1>2. /\ Update(w, "failed") \/ UNCHANGED records
      /\ Move(w, "throw")
      /\ UNCHANGED <<queueVars, plan, mine, results, purged>>
  BY DEF RecordFailure
<1> QED
  BY <1>1, <1>2, WriteKeeps
--------------------------------------------------------------------------------
(* The end of runs *)

\* Runs that end leave the records as they are.
LEMMA LeaveKeeps ==
    ASSUME QueueInv, FlowInv, NEW W \in SUBSET Slots, Leave(W),
           work' = [w \in Slots |-> IF w \in W THEN None ELSE work[w]], runs' = runs,
           \A j \in Jobs : state[j] = "unknown" => state'[j] = "unknown",
           \A j \in Jobs : state'[j] = "completed" /\ state[j] # "completed" =>
             \E w \in W : work[w] = j /\ at[w] = "return"
    PROVE  FlowInv'
<1>1. /\ UNCHANGED <<plan, records, purged>>
      /\ \A w \in Slots : w \in W => at'[w] = "idle" /\ mine'[w] = 0 /\ results'[w] = <<>> /\ work'[w] = None
      /\ \A w \in Slots : w \notin W =>
           at'[w] = at[w] /\ mine'[w] = mine[w] /\ results'[w] = results[w] /\ work'[w] = work[w]
  BY DEF Leave
<1>2. FlowTypes'
  <2>1. at' \in [Slots -> Places]
    BY DEF Leave, FlowInv, FlowTypes, Places
  <2>2. mine' \in [Slots -> Nat]
    BY DEF Leave, FlowInv, FlowTypes
  <2>3. results' \in [Slots -> Seq(Results)]
    BY DEF Leave, FlowInv, FlowTypes
  <2> QED
    BY <1>1, <2>1, <2>2, <2>3 DEF FlowInv, FlowTypes
<1>3. PlanInv' /\ HonestInv'
  <2>1. PlanInv'
    BY <1>1 DEF FlowInv, PlanInv
  <2>2. HonestInv'
    BY <1>1 DEF FlowInv, HonestInv
  <2> QED
    BY <2>1, <2>2
<1>4. SlotInv'
  BY <1>1 DEF FlowInv, SlotInv, Going
<1>5. RunInv'
  BY <1>1 DEF FlowInv, RunInv, Going
<1>6. OwnRecords'
  BY <1>1 DEF FlowInv, OwnRecords
<1>7. \A j \in Jobs : \A w \in Slots : work'[w] = j => w \notin W /\ work[w] = j
  BY <1>1, QueueAssumption
<1>8. CompletedInv'
  <2> SUFFICES ASSUME NEW j \in Jobs, state'[j] = "completed"
               PROVE  \E k \in 1 .. Len(records[j]) : records[j][k].status = "completed" /\ Apart(j, k)'
    BY <1>1 DEF CompletedInv
  <2>1. CASE state[j] = "completed"
    BY <1>1, <1>7, <2>1 DEF FlowInv, CompletedInv, Apart
  <2>2. CASE state[j] # "completed"
    <3>1. PICK w \in W : work[w] = j /\ at[w] = "return"
      BY <2>2
    <3>2. /\ mine[w] \in 1 .. Len(records[j]) /\ records[j][mine[w]].status = "completed"
      BY <3>1, RunningKnows, QueueAssumption DEF FlowInv, SlotInv, RunInv, Going
    <3>3. ASSUME NEW k, k = mine[w]
          PROVE  Apart(j, k)'
      BY <1>1, <1>7, <3>1, <3>2, <3>3, QueueAssumption DEF FlowInv, OwnRecords, Apart
    <3> QED
      BY <3>2, <3>3
  <2> QED
    BY <2>1, <2>2
<1>9. OneRunInv'
  BY <1>1, <1>7 DEF FlowInv, OneRunInv
<1> QED
  BY <1>2, <1>3, <1>4, <1>5, <1>6, <1>8, <1>9 DEF FlowInv

LEMMA EndJobKeeps ==
    ASSUME QueueInv, FlowInv, NEW w \in Slots, ReturnJob(w) \/ ThrowJob(w)
    PROVE  FlowInv'
<1>1. work[w] \in Jobs /\ work[w] # None
  BY DEF ReturnJob, ThrowJob, Complete, FailRun, QueueInv, QueueTypeOK
<1>2. state[work[w]] # "unknown"
  BY <1>1 DEF QueueInv, RunnersInv
<1>3. Leave({w}) /\ runs' = runs /\ work' = [work EXCEPT ![w] = None]
  BY DEF ReturnJob, ThrowJob, Complete, FailRun, Free
<1>4. work' = [v \in Slots |-> IF v \in {w} THEN None ELSE work[v]]
  BY <1>3 DEF QueueInv, QueueTypeOK
<1>5. CASE ReturnJob(w)
  <2>1. /\ at[w] = "return"
        /\ state' = state \/ state' = [state EXCEPT ![work[w]] = "completed"]
    BY <1>5 DEF ReturnJob, Complete
  <2>2. \A j \in Jobs : state[j] = "unknown" => state'[j] = "unknown"
    BY <1>1, <1>2, <2>1 DEF QueueInv, QueueTypeOK
  <2>3. \A j \in Jobs : state'[j] = "completed" /\ state[j] # "completed" =>
           \E v \in {w} : work[v] = j /\ at[v] = "return"
    BY <1>1, <2>1 DEF QueueInv, QueueTypeOK
  <2> QED
    BY <1>3, <1>4, <2>2, <2>3, LeaveKeeps
<1>6. CASE ThrowJob(w)
  <2>1. \A j \in Jobs : state'[j] = state[j] \/ (j = work[w] /\ state'[j] \in {"failed", "waiting"})
    BY <1>1, <1>6 DEF ThrowJob, FailRun, QueueInv, QueueTypeOK
  <2>2. /\ \A j \in Jobs : state[j] = "unknown" => state'[j] = "unknown"
        /\ \A j \in Jobs : state'[j] = "completed" => state[j] = "completed"
    BY <1>2, <2>1
  <2> QED
    BY <1>3, <1>4, <2>2, LeaveKeeps
<1> QED
  BY <1>5, <1>6

LEMMA CrashKeeps ==
    ASSUME QueueInv, FlowInv, WorkerCrash
    PROVE  FlowInv'
<1>1. Leave(Slots) /\ runs' = runs /\ state' = state
  BY DEF WorkerCrash, Crash, EndProcess
<1>2. work' = [w \in Slots |-> IF w \in Slots THEN None ELSE work[w]]
  BY DEF WorkerCrash, Crash, EndProcess
<1> QED
  BY <1>1, <1>2, LeaveKeeps

LEMMA FlowInvStep ==
    ASSUME QueueInv, FlowInv, [FlowNext]_flowVars
    PROVE  FlowInv'
<1>1. ASSUME NEW j \in Jobs, ExecuteFlow(j) \/ PurgeRecords(j)
      PROVE  FlowInv'
  BY <1>1, ExecuteKeeps, PurgeKeeps
<1>2. ASSUME NEW w \in Slots, Process(w)
      PROVE  FlowInv'
  BY <1>2, InsertKeeps, EndStepKeeps, CompleteFlowKeeps, RecordFailureKeeps, EndJobKeeps DEF Process
<1>3. ASSUME NEW w \in Slots, NEW j \in Jobs, Begin(w, j)
      PROVE  FlowInv'
  BY <1>3, BeginKeeps
<1>4. CASE Redis \/ Shutdown \/ UNCHANGED flowVars
  BY <1>4, QueueStepKeeps
<1>5. CASE WorkerCrash
  BY <1>5, CrashKeeps
<1> QED
  BY <1>1, <1>2, <1>3, <1>4, <1>5 DEF FlowNext

LEMMA FlowInvariant == FlowSpec => [](QueueInv /\ FlowInv)
<1>1. FlowSpec => []QueueInv
  BY FlowDrivesQueue, QueueInvariant, PTL
<1> QED
  BY <1>1, FlowInvInit, FlowInvStep, PTL DEF FlowSpec
--------------------------------------------------------------------------------
(* The theorems *)

\* A flow is run at most MaxAttempts + MaxStalls times, never again once its job is
\* settled, as JobQueue promises of every job (queue/processor.ts, worker.ts).
THEOREM FlowKeepsContract == FlowSpec => KeepsContract
BY FlowDrivesQueue, QueueKeepsContract, PTL

\* Types of the controller, the records and the runs; a slot waits in the executor
\* exactly when it runs a job, and the record it calls its own is there.
THEOREM FlowTypeCorrect == FlowSpec => []FlowTypeOK
<1>1. ASSUME QueueInv, FlowInv
      PROVE  FlowTypeOK
  <2>1. /\ QueueTypeOK /\ plan \in [Jobs -> Plans \cup {None}]
        /\ at \in [Slots -> Places] /\ results \in [Slots -> Seq(Results)]
    BY <1>1 DEF QueueInv, FlowInv, FlowTypes
  <2>2. ASSUME NEW j \in Jobs
        PROVE  /\ purged[j] \subseteq DOMAIN records[j]
               /\ \A k \in DOMAIN records[j] :
                    /\ records[j][k].status \in {"running", "completed", "failed"}
                    /\ records[j][k].results \in Seq(Results)
    <3>1. records[j] \in Seq(Records) /\ purged[j] \subseteq 1 .. Len(records[j])
      BY <1>1 DEF FlowInv, FlowTypes
    <3>2. \A k \in DOMAIN records[j] : records[j][k] \in Records
      BY <3>1
    <3> QED
      BY <3>1, <3>2 DEF Records
  <2>3. \A w \in Slots : /\ at[w] = "idle" <=> work[w] = None
                         /\ at[w] # "idle" => mine[w] \in 0 .. Len(records[work[w]])
    BY <1>1, RunningKnows DEF FlowInv, SlotInv
  <2> QED
    BY <2>1, <2>2, <2>3 DEF FlowTypeOK, Places
<1> QED
  BY <1>1, FlowInvariant, PTL

\* A record that says completed has a result for every step of its flow, and a step
\* with on_error "stop" succeeded (flowExecutor.ts, the loop and its onError).
THEOREM CompletedRecordsAreHonest == FlowSpec => []CompletedIsHonest
<1>1. ASSUME QueueInv, FlowInv
      PROVE  CompletedIsHonest
  <2> SUFFICES ASSUME NEW j \in Jobs, NEW k \in DOMAIN records[j], records[j][k].status = "completed"
               PROVE  /\ Len(records[j][k].results) = Len(plan[j])
                      /\ \A i \in DOMAIN plan[j] :
                           plan[j][i] = "stop" => records[j][k].results[i] = "success"
    BY DEF CompletedIsHonest
  <2>1. k \in 1 .. Len(records[j]) /\ records[j] # <<>>
    BY <1>1 DEF FlowInv, FlowTypes
  <2>2. plan[j] \in Seq(Modes)
    BY <1>1, <2>1, FlowAssumption DEF FlowInv, FlowTypes, PlanInv
  <2> QED
    BY <1>1, <2>1, <2>2 DEF FlowInv, HonestInv, Passed
<1> QED
  BY <1>1, FlowInvariant, PTL

\* A completed job has a completed record, whatever its other runs did, and the status
\* endpoint says completed if there was one run (flowController.ts:54).
THEOREM CompletedJobsAreReported == FlowSpec => []CompletedIsReported
<1>1. ASSUME QueueInv, FlowInv
      PROVE  CompletedIsReported
  <2> SUFFICES ASSUME NEW j \in Jobs, state[j] = "completed", purged[j] = {}
               PROVE  /\ \E k \in DOMAIN records[j] : records[j][k].status = "completed"
                      /\ StatusOf(j) = "completed" \/ runs[j] > 1
    BY DEF CompletedIsReported
  <2>1. records[j] \in Seq(Records) /\ runs[j] \in Nat /\ Len(records[j]) \in Nat
    BY <1>1 DEF FlowInv, FlowTypes, QueueInv, QueueTypeOK
  <2>2. PICK k \in 1 .. Len(records[j]) : records[j][k].status = "completed"
    BY <1>1 DEF FlowInv, CompletedInv
  <2>3. ASSUME ~(runs[j] > 1)
        PROVE  StatusOf(j) = "completed"
    <3>1. runs[j] # 0
      BY <1>1, <2>2 DEF FlowInv, OneRunInv
    <3>2. runs[j] = 1
      BY <2>1, <2>3, <3>1
    <3>3. Len(records[j]) <= 1
      BY <1>1, <3>2 DEF FlowInv, OneRunInv
    <3>4. Len(records[j]) = 1 /\ k = 1
      <4> DEFINE n == Len(records[j])
      <4>1. n \in Nat /\ n <= 1 /\ k \in 1 .. n
        BY <2>1, <3>3
      <4> HIDE DEF n
      <4>2. n = 1 /\ k = 1
        BY <4>1
      <4> QED
        BY <4>2 DEF n
    <3>5. Stored(j) = {1}
      BY <2>1, <3>4 DEF Stored
    <3>6. (CHOOSE i \in Stored(j) : \A l \in Stored(j) : i <= l) = 1
      BY <3>5
    <3> QED
      BY <2>2, <3>4, <3>5, <3>6 DEF StatusOf
  <2> QED
    BY <2>1, <2>2, <2>3
<1> QED
  BY <1>1, FlowInvariant, PTL
================================================================================
