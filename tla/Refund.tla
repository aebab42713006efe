-------------------------------- MODULE Refund --------------------------------
(***************************************************************************)
(* Refunds: POST /refunds (createRefundController) puts a job on the       *)
(* refund_execute queue, a slot of the worker runs processRefundExecute    *)
(* on it, and the daily cleanup purges old refund documents.  POST         *)
(* /refunds/request (requestRefund) only inserts a document.               *)
(*                                                                         *)
(* A refund is named by the request that asks for it: the controller makes *)
(* one refund_id, and enqueues one job, for each.  Controllers and slots   *)
(* interleave at every await; cpc and at name the await they are at.       *)
(***************************************************************************)
EXTENDS JobQueue

CONSTANTS Transactions,  \* transaction ids
          Faults,        \* database and queue calls may fail
          Purges         \* the daily cleanup runs

Wants    == [tx : Transactions, over : BOOLEAN]
Statuses == {"processing", "completed", "failed", "rejected", "accepted", "pending_approval"}

ASSUME RefundAssumption ==
    /\ None \notin Wants \cup Statuses
    /\ Faults \in BOOLEAN
    /\ Purges \in BOOLEAN

VARIABLES
    cpc,      \* where the controller of each request waits
    want,     \* what a request asks for: [tx, over]; over: above REFUND_LIMIT_CENTS
    status,   \* collection refunds: status of each document, None without one
    known,    \* collection transactions
    marked,   \* transaction.refund_id of a transaction that is marked refunded
    at,       \* where each slot's run waits
    paid,     \* history: refunds the payment provider made for each refund_id
    audits,   \* audit_logs: number of refund_executed entries of each refund
    met       \* history: transactions two runs were at work on at once

docs       == <<status, known, marked, paid, audits>>
refundVars == <<queueVars, cpc, want, docs, at, met>>

RefundInit ==
    /\ QueueInit
    /\ cpc = [r \in Jobs |-> "new"]
    /\ want = [r \in Jobs |-> None]
    /\ status = [r \in Jobs |-> None]
    /\ known = Transactions
    /\ marked = [t \in Transactions |-> None]
    /\ at = [w \in Slots |-> "idle"]
    /\ paid = [r \in Jobs |-> 0]
    /\ audits = [r \in Jobs |-> 0]
    /\ met = {}
--------------------------------------------------------------------------------
(* createRefundController *)

Goto(r, where) == cpc' = [cpc EXCEPT ![r] = where]
Reply(r)       == Goto(r, "answered")
RefundsOf(t, sts) == {q \in Jobs : status[q] \in sts /\ want[q].tx = t}

\* A well-formed request arrives; a malformed one is answered 400 at once.
Create(r) ==
    /\ cpc[r] = "new"
    /\ \E x \in Wants : want' = [want EXCEPT ![r] = x]
    /\ Goto(r, "transaction")
    /\ UNCHANGED <<queueVars, docs, at, met>>

\* POST /refunds/request: one insert, of a document without a transaction that
\* no job is made for and nothing reads or removes.
RequestRefund(r) ==
    /\ cpc[r] = "new"
    /\ \/ \E s \in {"accepted", "pending_approval"} : status' = [status EXCEPT ![r] = s]
       \/ Faults /\ UNCHANGED status
    /\ Reply(r)
    /\ UNCHANGED <<queueVars, want, met, known, marked, paid, audits, at>>

CheckTransaction(r) ==
    /\ cpc[r] = "transaction"
    /\ \/ (Faults \/ want[r].tx \notin known) /\ Reply(r)
       \/ want[r].tx \in known /\ Goto(r, "existing")
    /\ UNCHANGED <<queueVars, want, met, docs, at>>

\* Only documents a worker has marked as processing carry a transaction_id.
CheckExisting(r) ==
    /\ cpc[r] = "existing"
    /\ LET others == RefundsOf(want[r].tx, {"processing", "completed"}) IN
       \/ (Faults \/ others # {}) /\ Reply(r)
       \/ others = {} /\ Goto(r, "enqueue")
    /\ UNCHANGED <<queueVars, want, met, docs, at>>

\* enqueue and enqueueJob, with REDIS_URL and ENABLE_WORKERS set: the answer is 202
\* also when the queue object cannot be made, and 500 when queue.add is reported as
\* failed, which may have reached Redis.
EnqueueRefund(r) ==
    /\ cpc[r] = "enqueue"
    /\ AddJob(r) \/ (Faults /\ UNCHANGED queueVars)
    /\ Reply(r)
    /\ UNCHANGED <<want, docs, at, met>>
--------------------------------------------------------------------------------
(* processRefundExecute, run by slot w *)

Move(w, where)  == at' = [at EXCEPT ![w] = where]
SetStatus(j, s) == status' = [status EXCEPT ![j] = s]

\* A write to the run's refund document is applied and the run goes on, or it
\* is reported as failed, applied or not, and the run lands in its catch block.
Write(w, s, next) ==
    \/ SetStatus(work[w], s) /\ Move(w, next)
    \/ Faults /\ (SetStatus(work[w], s) \/ UNCHANGED status) /\ Move(w, "failing")

\* Slot w begins to work on a transaction while another is at it.
Meet(w, j) ==
    met' = IF \E v \in Slots \ {w} : work[v] # None /\ want[work[v]].tx = want[j].tx
           THEN met \cup {want[j].tx} ELSE met

\* Up to the first await: the limit, or getDb and the transaction.
BeginUnlimited(w, j) ==
    /\ Take(w, j)
    /\ Move(w, "transaction")
    /\ Meet(w, j)
    /\ UNCHANGED <<cpc, want, docs>>
Begin(w, j) ==
    /\ Take(w, j)
    /\ Move(w, IF want[j].over THEN "reject" ELSE "transaction")
    /\ Meet(w, j)
    /\ UNCHANGED <<cpc, want, docs>>

RejectOverLimit(w) ==
    /\ at[w] = "reject"
    /\ Write(w, "rejected", "return")
    /\ UNCHANGED <<queueVars, cpc, want, met, known, marked, paid, audits>>

FindTransaction(w) ==
    /\ at[w] = "transaction"
    /\ \/ Faults /\ Move(w, "failing")
       \/ Move(w, IF want[work[w]].tx \in known THEN "check" ELSE "missing")
    /\ UNCHANGED <<queueVars, cpc, want, met, docs>>

FailMissing(w) ==
    /\ at[w] = "missing"
    /\ Write(w, "failed", "return")
    /\ UNCHANGED <<queueVars, cpc, want, met, known, marked, paid, audits>>

\* "Check if already refunded"
FindCompletedRepairs(w) ==
    /\ at[w] = "check"
    /\ Move(w, IF RefundsOf(want[work[w]].tx, {"completed"}) # {}
               THEN "transacting" ELSE "processing")
    /\ UNCHANGED <<queueVars, cpc, want, met, docs>>
FindBegun(w) ==
    /\ at[w] = "check"
    /\ Move(w, IF RefundsOf(want[work[w]].tx, {"processing", "completed"}) # {}
               THEN "return" ELSE "processing")
    /\ UNCHANGED <<queueVars, cpc, want, met, docs>>
FindOwnCompleted(w) ==
    /\ at[w] = "check"
    /\ Move(w, IF status[work[w]] = "completed" THEN "return" ELSE "processing")
    /\ UNCHANGED <<queueVars, cpc, want, met, docs>>
FindCompleted(w) ==
    /\ at[w] = "check"
    /\ \/ Faults /\ Move(w, "failing")
       \/ Move(w, IF RefundsOf(want[work[w]].tx, {"completed"}) # {}
                  THEN "return" ELSE "processing")
    /\ UNCHANGED <<queueVars, cpc, want, met, docs>>

\* The upsert of the processing document; if it succeeds the provider makes the
\* refund before the next await.
MarkProcessing(w) ==
    /\ at[w] = "processing"
    /\ Write(w, "processing", "completing")
    /\ paid' = [paid EXCEPT ![work[w]] = IF at'[w] = "completing" THEN @ + 1 ELSE @]
    /\ UNCHANGED <<queueVars, cpc, want, met, known, marked, audits>>

MarkCompleted(w) ==
    /\ at[w] = "completing"
    /\ Write(w, "completed", "transacting")
    /\ UNCHANGED <<queueVars, cpc, want, met, known, marked, paid, audits>>

\* The update of the transaction, without effect if it is gone.
MarkTransactionIgnored(w) ==
    /\ at[w] = "transacting"
    /\ \/ marked' = [marked EXCEPT ![want[work[w]].tx] = work[w]]
       \/ UNCHANGED marked
    /\ Move(w, "auditing")
    /\ UNCHANGED <<queueVars, cpc, want, met, status, known, paid, audits>>
MarkTransaction(w) ==
    LET t == want[work[w]].tx IN
    /\ at[w] = "transacting"
    /\ \/ /\ IF t \in known THEN marked' = [marked EXCEPT ![t] = work[w]] ELSE UNCHANGED marked
          /\ Move(w, "auditing") \/ (Faults /\ Move(w, "failing"))
       \/ Faults /\ UNCHANGED marked /\ Move(w, "failing")
    /\ UNCHANGED <<queueVars, cpc, want, met, status, known, paid, audits>>

AuditRefund(w) ==
    /\ at[w] = "auditing"
    /\ \/ /\ audits' = [audits EXCEPT ![work[w]] = @ + 1]
          /\ Move(w, "return") \/ (Faults /\ Move(w, "failing"))
       \/ Faults /\ UNCHANGED audits /\ Move(w, "failing")
    /\ UNCHANGED <<queueVars, cpc, want, met, status, known, marked, paid>>

\* The catch block: status failed, on an existing document only, whatever its
\* status was.  An error here is logged.
RecordFailure(w) ==
    /\ at[w] = "failing"
    /\ \/ status[work[w]] # None /\ SetStatus(work[w], "failed")
       \/ (Faults \/ status[work[w]] = None) /\ UNCHANGED status
    /\ Move(w, "throw")
    /\ UNCHANGED <<queueVars, cpc, want, met, known, marked, paid, audits>>

ReturnJob(w) ==
    /\ at[w] = "return" /\ Complete(w) /\ Move(w, "idle")
    /\ UNCHANGED <<cpc, want, met, docs>>

ThrowJob(w) ==
    /\ at[w] = "throw" /\ FailRun(w) /\ Move(w, "idle")
    /\ UNCHANGED <<cpc, want, met, docs>>

Process(w) ==
    \/ RejectOverLimit(w) \/ FindTransaction(w) \/ FailMissing(w) \/ FindCompleted(w)
    \/ MarkProcessing(w) \/ MarkCompleted(w) \/ MarkTransaction(w) \/ AuditRefund(w)
    \/ RecordFailure(w) \/ ReturnJob(w) \/ ThrowJob(w)
--------------------------------------------------------------------------------
(* The rest of the system *)

\* BullMQ and the 'failed' handler.
Aside == UNCHANGED <<cpc, want, met, docs, at>>
Redis ==
    /\ \E j \in Jobs : \/ StallFound(j) \/ DlqAdded(j)
                       \/ \E w \in Slots : FailStalled(w, j)
    /\ Aside

Shutdown == (StopWorkers \/ ExitIdle) /\ Aside

WorkerCrash ==
    /\ Crash
    /\ at' = [w \in Slots |-> "idle"]
    /\ UNCHANGED <<cpc, want, met, docs>>

\* processDailyCleanup, step 8: completed and failed documents go 90 days after
\* their last change, when no job of theirs is left.
PurgeRefund(r) ==
    /\ Purges
    /\ status[r] \in {"completed", "failed"}
    /\ Settled(r) /\ \A w \in Slots : work[w] # r
    /\ SetStatus(r, None)
    /\ UNCHANGED <<queueVars, cpc, want, met, known, marked, paid, audits, at>>

\* Transactions belong to another service, which may remove one.
RemoveTransaction(t) ==
    /\ Faults /\ t \in known
    /\ known' = known \ {t}
    /\ UNCHANGED <<queueVars, cpc, want, met, status, marked, paid, audits, at>>

Handle(r) == CheckTransaction(r) \/ CheckExisting(r) \/ EnqueueRefund(r)

RefundNext ==
    \/ \E r \in Jobs : Create(r) \/ RequestRefund(r) \/ Handle(r) \/ PurgeRefund(r)
    \/ \E w \in Slots : Process(w) \/ \E j \in Jobs : Begin(w, j)
    \/ Redis \/ Shutdown \/ WorkerCrash
    \/ \E t \in Transactions : RemoveTransaction(t)

\* Controllers and runs go on, slots take jobs, BullMQ finds orphaned jobs and
\* fails the ones that stalled too often; a stopping process ends when it is idle.
RefundFairness ==
    /\ \A w \in Slots : WF_refundVars(Process(w))
    /\ \A r \in Jobs :
         /\ WF_refundVars(Handle(r))
         /\ WF_refundVars(\E w \in Slots : Begin(w, r) \/ (FailStalled(w, r) /\ Aside))
         /\ WF_refundVars(Orphaned(r) /\ StallFound(r) /\ Aside)
    /\ WF_refundVars(ExitIdle /\ Aside)

RefundSpec == RefundInit /\ [][RefundNext]_refundVars
FairRefundSpec == RefundSpec /\ RefundFairness
--------------------------------------------------------------------------------
(* Properties *)

Awaits == {"reject", "transaction", "missing", "check", "processing", "completing",
           "transacting", "auditing", "failing", "return", "throw"}

\* Every variable holds a value of its type, and a slot is at an await exactly
\* when it runs a job.
RefundTypeOK ==
    /\ QueueTypeOK
    /\ cpc \in [Jobs -> {"new", "transaction", "existing", "enqueue", "answered"}]
    /\ want \in [Jobs -> Wants \cup {None}]
    /\ status \in [Jobs -> Statuses \cup {None}]
    /\ known \subseteq Transactions
    /\ marked \in [Transactions -> Jobs \cup {None}]
    /\ at \in [Slots -> Awaits \cup {"idle"}]
    /\ paid \in [Jobs -> Nat] /\ audits \in [Jobs -> Nat]
    /\ met \subseteq Transactions
    /\ \A w \in Slots : at[w] = "idle" <=> work[w] = None

\* The provider is never asked for an amount above the limit, nor before the
\* refund is on record: after a crash there is a document to look at.
PaymentsRecorded ==
    \A r \in Jobs : paid[r] > 0 =>
        /\ ~want[r].over
        /\ status[r] \in {"processing", "completed", "failed"} \/ Settled(r)

\* A transaction is marked, and a refund audited, only on account of a refund
\* the provider made for it.
MarksArePaid ==
    /\ \A t \in Transactions : marked[t] # None =>
           want[marked[t]].tx = t /\ paid[marked[t]] > 0
    /\ \A r \in Jobs : audits[r] <= paid[r]

\* A completed refund leaves its transaction unmarked only if its job was run
\* more than once: the run that completed it died or failed, and the next one
\* returned at "Check if already refunded" (refundExecutor.ts:81).
UnmarkedWasRerun ==
    \A r \in Jobs : state[r] = "completed" /\ status[r] = "completed" =>
        want[r].tx \notin known \/ marked[want[r].tx] # None \/ runs[r] > 1

\* getRefundStatusController.
RefundStatus(r) == IF status[r] = None THEN "not_found" ELSE status[r]

\* What GET /refunds/:id says of a refund whose job is completed.  That there is no
\* such refund, after a 202, has a cause: it was over the limit, its transaction is
\* gone, or the transaction was paid.  That it failed or is still processing, with
\* nothing pending, has one too: a run that stalled, or another refund of the
\* transaction, on whose account the retry returned (refundExecutor.ts:81-84, 92).
PaidFor(t) == {q \in Jobs : want[q] # None /\ want[q].tx = t /\ paid[q] > 0}
StatusHasCause ==
    \A r \in Jobs : state[r] = "completed" =>
        LET t == want[r].tx IN
        /\ RefundStatus(r) = "not_found" =>
               want[r].over \/ t \notin known \/ PaidFor(t) # {}
        /\ RefundStatus(r) \in {"processing", "failed"} =>
               t \notin known \/ stalls[r] > 0 \/ PaidFor(t) \ {r} # {}

\* A transaction is paid for again, by its refund or another one, only if two runs
\* were at work on it at once, or if none of its refunds that were paid is on record
\* as completed: each has a run that threw, whatever status the catch block wrote
\* over, stalled or died, or its document was purged (refundExecutor.ts:76-105,
\* 181; cleanupDaily.ts:94).
Unfinished(q) ==
    /\ status[q] # "completed"
    /\ made[q] + stalls[q] > 0 \/ Orphaned(q) \/ status[q] = None
PaidAgainHasCause ==
    [][\A r \in Jobs : paid'[r] # paid[r] =>
           want[r].tx \in met \/ \A q \in PaidFor(want[r].tx) : Unfinished(q)]_refundVars

\* tests/refund.test.ts:62-66 "should detect duplicate refund attempts": of all
\* refunds of one transaction the provider makes one.
OneRefundPerTransaction ==
    \A t \in Transactions : \A q, r \in PaidFor(t) : q = r
================================================================================
