--------------------------------- MODULE Flow ---------------------------------
(***************************************************************************)
(* Flows: POST /flow/execute (executeFlowController) puts a job on the     *)
(* flow_execute queue and a slot of the worker runs processFlowExecute on  *)
(* it: a record in flow_executions, then the steps one after the other.    *)
(* GET /flow/:id answers with one of the records, the daily cleanup purges *)
(* old completed ones.                                                     *)
(*                                                                         *)
(* What a step does is left out, but for whether it throws.  Every run     *)
(* makes a record of its own: two runs of one flow begin at least a        *)
(* backoff delay or a lock duration apart, so their execution ids differ.  *)
(***************************************************************************)
EXTENDS JobQueue, Sequences

CONSTANTS Plans,   \* the on_error modes of the steps of a flow, in order
          Faults   \* database and queue calls may fail

Modes == {"stop", "continue", "retry"}

ASSUME FlowAssumption ==
    /\ Plans \subseteq Seq(Modes)
    /\ None \notin Plans
    /\ Faults \in BOOLEAN

VARIABLES
    plan,      \* job.data.steps of each flow
    records,   \* flow_executions of each flow as written, oldest first: [status, results]
    at,        \* where the run of each slot waits
    mine,      \* which record is that of the run, 0 for none
    results,   \* results collected by the run
    purged     \* which of the records of each flow the cleanup has deleted

flowOnly == <<plan, records, at, mine, results, purged>>
flowVars == <<queueVars, flowOnly>>

FlowInit ==
    /\ QueueInit
    /\ plan = [j \in Jobs |-> None]
    /\ records = [j \in Jobs |-> <<>>]
    /\ at = [w \in Slots |-> "idle"]
    /\ mine = [w \in Slots |-> 0]
    /\ results = [w \in Slots |-> <<>>]
    /\ purged = [j \in Jobs |-> {}]
--------------------------------------------------------------------------------
Move(w, where) == at' = [at EXCEPT ![w] = where]
Outcome(st, res) == [status |-> st, results |-> res]

\* executeFlowController and enqueue; an enqueue reported as failed, which is
\* answered 500, may have reached Redis.
ExecuteFlow(j) ==
    /\ plan[j] = None
    /\ \E p \in Plans : plan' = [plan EXCEPT ![j] = p]
    /\ AddJob(j) \/ (Faults /\ UNCHANGED queueVars)
    /\ UNCHANGED <<records, at, mine, results, purged>>

\* Up to the insert of the record.
Begin(w, j) ==
    /\ Take(w, j)
    /\ Move(w, "insert")
    /\ UNCHANGED <<plan, records, mine, results, purged>>

\* Goes to step i of the plan, or on to the last update.
StepOrEnd(w, i) == Move(w, IF i <= Len(plan[work[w]]) THEN "step" ELSE "complete")

Insert(w) ==
    LET j == work[w]
        Applied == /\ records' = [records EXCEPT ![j] = Append(@, Outcome("running", <<>>))]
                   /\ mine' = [mine EXCEPT ![w] = Len(records[j]) + 1]
    IN
    /\ at[w] = "insert"
    /\ \/ Applied /\ StepOrEnd(w, 1)
       \/ /\ Faults
          /\ Applied \/ UNCHANGED <<records, mine>>
          /\ Move(w, "failing")
    /\ UNCHANGED <<queueVars, plan, results, purged>>

\* How a step of any type ends, whatever it does.
Results == {"success", "failed"}

\* A step returns, or throws: only on_error "stop" ends the run.
StopsNever(mode) == FALSE
Stops(mode) == mode = "stop"

EndStep(w) ==
    LET j == work[w]
        i == Len(results[w]) + 1 IN
    /\ at[w] = "step"
    /\ \E res \in Results :
         /\ results' = [results EXCEPT ![w] = Append(@, res)]
         /\ IF res = "failed" /\ Stops(plan[j][i])
            THEN Move(w, "failing")
            ELSE StepOrEnd(w, i + 1)
    /\ UNCHANGED <<queueVars, plan, records, mine, purged>>

\* An update of the run's own record, if there is one.
Update(w, st) ==
    LET j == work[w] IN
    IF mine[w] = 0 THEN UNCHANGED records
    ELSE records' = [records EXCEPT ![j][mine[w]] = Outcome(st, results[w])]

CompleteUnchecked(w) ==
    /\ at[w] = "complete"
    /\ Update(w, "completed") \/ UNCHANGED records
    /\ Move(w, "return")
    /\ UNCHANGED <<queueVars, plan, mine, results, purged>>
CompleteFlow(w) ==
    /\ at[w] = "complete"
    /\ \/ Update(w, "completed") /\ Move(w, "return")
       \/ Faults /\ (Update(w, "completed") \/ UNCHANGED records) /\ Move(w, "failing")
    /\ UNCHANGED <<queueVars, plan, mine, results, purged>>

\* The catch block.  An error of its own update replaces the first one: the job
\* fails all the same.
RecordFailure(w) ==
    /\ at[w] = "failing"
    /\ Update(w, "failed") \/ (Faults /\ UNCHANGED records)
    /\ Move(w, "throw")
    /\ UNCHANGED <<queueVars, plan, mine, results, purged>>

\* The runs of the slots W are over, and their local variables gone.
Leave(W) ==
    /\ at' = [w \in Slots |-> IF w \in W THEN "idle" ELSE at[w]]
    /\ mine' = [w \in Slots |-> IF w \in W THEN 0 ELSE mine[w]]
    /\ results' = [w \in Slots |-> IF w \in W THEN <<>> ELSE results[w]]
    /\ UNCHANGED <<plan, records, purged>>

ReturnJob(w) == at[w] = "return" /\ Complete(w) /\ Leave({w})

ThrowJob(w) == at[w] = "throw" /\ FailRun(w) /\ Leave({w})

Process(w) ==
    \/ Insert(w) \/ EndStep(w) \/ CompleteFlow(w) \/ RecordFailure(w)
    \/ ReturnJob(w) \/ ThrowJob(w)

\* BullMQ and the 'failed' handler.
Redis ==
    /\ \E j \in Jobs : \/ StallFound(j) \/ DlqAdded(j)
                       \/ \E w \in Slots : FailStalled(w, j)
    /\ UNCHANGED flowOnly

Shutdown == (StopWorkers \/ ExitIdle) /\ UNCHANGED flowOnly

WorkerCrash == Crash /\ Leave(Slots)

\* The records of a flow a query finds.
Stored(j) == DOMAIN records[j] \ purged[j]

\* processDailyCleanup, step 7: completed records go 60 days after their end, when
\* no run of the flow is left; records of other statuses stay.
PurgeRecords(j) ==
    LET old == {k \in Stored(j) : records[j][k].status = "completed"} IN
    /\ Settled(j) /\ \A w \in Slots : work[w] # j
    /\ old # {}
    /\ purged' = [purged EXCEPT ![j] = @ \cup old]
    /\ UNCHANGED <<queueVars, plan, records, at, mine, results>>

FlowNext ==
    \/ \E j \in Jobs : ExecuteFlow(j) \/ PurgeRecords(j)
    \/ \E w \in Slots : Process(w) \/ \E j \in Jobs : Begin(w, j)
    \/ Redis \/ Shutdown \/ WorkerCrash

\* As in JobQueue; every step of a flow ends, an http step by its timeout.
FlowFairness ==
    /\ \A w \in Slots : WF_flowVars(Process(w))
    /\ \A j \in Jobs :
         /\ WF_flowVars(\E w \in Slots : Begin(w, j) \/ (FailStalled(w, j) /\ UNCHANGED flowOnly))
         /\ WF_flowVars(Orphaned(j) /\ StallFound(j) /\ UNCHANGED flowOnly)
    /\ WF_flowVars(ExitIdle /\ UNCHANGED flowOnly)

FlowSpec == FlowInit /\ [][FlowNext]_flowVars
FairFlowSpec == FlowSpec /\ FlowFairness
--------------------------------------------------------------------------------
(* Properties *)

\* Every variable holds a value of its type; a slot is at an await exactly when
\* it runs a job, and the record it calls its own exists.
FlowTypeOK ==
    /\ QueueTypeOK
    /\ plan \in [Jobs -> Plans \cup {None}]
    /\ \A j \in Jobs :
         /\ \A k \in DOMAIN records[j] :
              /\ records[j][k].status \in {"running", "completed", "failed"}
              /\ records[j][k].results \in Seq(Results)
    /\ \A j \in Jobs : purged[j] \subseteq DOMAIN records[j]
    /\ at \in [Slots -> {"idle", "insert", "step", "complete", "failing", "return", "throw"}]
    /\ results \in [Slots -> Seq(Results)]
    /\ \A w \in Slots : /\ at[w] = "idle" <=> work[w] = None
                        /\ at[w] # "idle" => mine[w] \in 0 .. Len(records[work[w]])

\* A record that says completed has a result for every step of the flow, and
\* none of a step that should have stopped it is a failure.
CompletedIsHonest ==
    \A j \in Jobs : \A k \in DOMAIN records[j] :
        LET d == records[j][k] IN
        d.status = "completed" =>
            /\ Len(d.results) = Len(plan[j])
            /\ \A i \in DOMAIN plan[j] : plan[j][i] = "stop" => d.results[i] = "success"

\* getFlowStatusController: the first record of the flow there is.
StatusOf(j) ==
    IF Stored(j) = {} THEN "not_found"
    ELSE LET first == CHOOSE k \in Stored(j) : \A l \in Stored(j) : k <= l IN
         records[j][first].status

\* A job that BullMQ counts as completed has left a completed record, whatever
\* other runs of the job did to theirs, and the status endpoint says so, unless the
\* job was run more than once (it then reads the record of the first run) or the
\* record is purged (flowController.ts:54, cleanupDaily.ts:84).
CompletedIsReported ==
    \A j \in Jobs : state[j] = "completed" /\ purged[j] = {} =>
        /\ \E k \in DOMAIN records[j] : records[j][k].status = "completed"
        /\ StatusOf(j) = "completed" \/ runs[j] > 1
================================================================================
