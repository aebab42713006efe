------------------------------ MODULE RefundProofs ------------------------------
(***************************************************************************)
(* Theorems about Refund, for every number of requests, transactions,      *)
(* slots, attempts, stalls and crashes.  The queue a refund goes through   *)
(* is driven as JobQueue allows, so what JobQueueProofs proves of a queue  *)
(* holds of this one.                                                      *)
(*                                                                         *)
(* What is known of a request and of a run at each of its awaits           *)
(* (RequestInv, RunInv) gives the types and PaymentsRecorded.  The rest    *)
(* relates runs to what other runs of the job, or of the transaction, have *)
(* left: a payment not audited yet is counted with its run (AuditInv), the *)
(* only run of a refund that is completed and not marked is about to mark  *)
(* it (UnmarkedInv), a run writes alone unless its job was found stalled   *)
(* (OwnInv), and a paid refund that is not completed was counted, died or  *)
(* is still run (OnceInv), so that who pays again has met it (MetInv).     *)
(***************************************************************************)
EXTENDS Refund, JobQueueProofs, FiniteSetTheorems

LEMMA InitDrives == RefundInit => QueueInit
BY DEF RefundInit

\* Every step of the controllers, the runs, BullMQ and the cleanup is a step of
\* the queue or leaves it alone.
LEMMA StepDrives == [RefundNext]_refundVars => [QueueNext]_queueVars
<1> SUFFICES ASSUME [RefundNext]_refundVars PROVE [QueueNext]_queueVars
  OBVIOUS
<1>1. ASSUME NEW r \in Jobs, Create(r) \/ RequestRefund(r) \/ Handle(r) \/ PurgeRefund(r)
      PROVE  AddJob(r) \/ UNCHANGED queueVars
  BY <1>1 DEF Create, RequestRefund, Handle, CheckTransaction, CheckExisting, EnqueueRefund, PurgeRefund
<1>2. ASSUME NEW w \in Slots, Process(w)
      PROVE  Complete(w) \/ FailRun(w) \/ UNCHANGED queueVars
  BY <1>2
  DEF Process, RejectOverLimit, FindTransaction, FailMissing, FindCompleted,
      MarkProcessing, MarkCompleted, MarkTransaction, AuditRefund, RecordFailure,
      ReturnJob, ThrowJob
<1>3. ASSUME NEW w \in Slots, NEW j \in Jobs, Begin(w, j)
      PROVE  Take(w, j)
  BY <1>3 DEF Begin
<1>4. CASE Redis \/ Shutdown \/ WorkerCrash
  BY <1>4 DEF Redis, Shutdown, WorkerCrash, QueueNext, Pick
<1>5. ASSUME NEW t \in Transactions, RemoveTransaction(t)
      PROVE  UNCHANGED queueVars
  BY <1>5 DEF RemoveTransaction
<1>6. CASE UNCHANGED refundVars
  BY <1>6 DEF refundVars
<1>7. QED
  BY <1>1, <1>2, <1>3, <1>4, <1>5, <1>6 DEF RefundNext, QueueNext, Pick

\* The refund pipeline moves its jobs only through the actions of the queue.
LEMMA RefundDrives == RefundSpec => QueueSpec
BY InitDrives, StepDrives, PTL DEF RefundSpec, QueueSpec

\* So a refund is executed at most MaxAttempts + MaxStalls times, and never
\* after its job is settled.
THEOREM RefundKeepsContract == RefundSpec => KeepsContract
<1>1. QueueSpec => KeepsContract
  BY QueueKeepsContract
<1>2. QED
  BY <1>1, RefundDrives, PTL
--------------------------------------------------------------------------------
(* What is known of every request and of every run *)

Asking    == {"transaction", "existing", "enqueue"}
Paying    == {"completing", "transacting", "auditing"}
Executing == {"transaction", "missing", "check", "processing"} \cup Paying

\* What is known of a request before it has a job, before it runs and after.
RequestInv ==
    \A r \in Jobs :
        /\ cpc[r] = "new" => want[r] = None
        /\ cpc[r] \in Asking => want[r] # None
        /\ cpc[r] # "answered" => state[r] = "unknown"
        /\ state[r] # "unknown" => want[r] # None
        /\ runs[r] = 0 => paid[r] = 0 /\ status[r] \in {None, "accepted", "pending_approval"}
        /\ paid[r] > 0 => ~want[r].over
        /\ status[r] = "completed" => paid[r] > 0

\* What is known of a run at each of its awaits.
RunInv ==
    \A w \in Slots : work[w] # None =>
        /\ at[w] = "reject" => want[work[w]].over
        /\ at[w] \in Executing => ~want[work[w]].over
        /\ at[w] = "missing" => want[work[w]].tx \notin known
        /\ at[w] \in Paying => paid[work[w]] > 0

RefundInv == RefundTypeOK /\ RequestInv /\ RunInv

LEMMA RefundInvInit == RefundInit => RefundInv
BY QueueInvInit, RefundAssumption
DEF RefundInit, QueueInit, QueueInv, RefundInv, RefundTypeOK, RequestInv, RunInv, Asking, Statuses

\* What the steps of the controllers and the cleanup change of a request.
LEMMA RequestKeeps ==
    ASSUME QueueInv, RefundInv, QueueInv', NEW r \in Jobs,
           Create(r) \/ RequestRefund(r) \/ CheckTransaction(r) \/ CheckExisting(r)
    PROVE  RefundInv'
<1>1. UNCHANGED <<state, work, runs, known, paid, at>>
  BY DEF Create, RequestRefund, CheckTransaction, CheckExisting, queueVars, docs
<1>2. RefundTypeOK'
  BY DEF QueueInv, RefundInv, RefundTypeOK, Create, RequestRefund, CheckTransaction, CheckExisting,
         Goto, Reply, docs, queueVars, Statuses
<1>3. RequestInv'
  BY <1>1, RefundAssumption
  DEF QueueInv, RunnersInv, RefundInv, RefundTypeOK, RequestInv, Statuses, Create, RequestRefund,
         CheckTransaction, CheckExisting, Goto, Reply, docs, Asking, Wants
<1>4. RunInv'
  BY <1>1 DEF QueueInv, QueueTypeOK, RunnersInv, RefundInv, RefundTypeOK, RequestInv, RunInv, Create, RequestRefund,
         CheckTransaction, CheckExisting, Goto, Reply, docs, Asking
<1>5. QED
  BY <1>2, <1>3, <1>4 DEF RefundInv

LEMMA EnqueueKeeps ==
    ASSUME QueueInv, RefundInv, QueueInv', NEW r \in Jobs, EnqueueRefund(r)
    PROVE  RefundInv'
<1>1. RefundTypeOK'
  BY DEF QueueInv, RefundInv, RefundTypeOK, EnqueueRefund, AddJob, Goto, Reply, docs, queueVars
<1>2. RequestInv'
  BY DEF QueueInv, QueueTypeOK, RefundInv, RefundTypeOK, RequestInv, EnqueueRefund, AddJob, Goto,
         Reply, docs, queueVars, Asking
<1>3. RunInv'
  BY DEF RefundInv, RunInv, EnqueueRefund, AddJob, docs, queueVars
<1>4. QED
  BY <1>1, <1>2, <1>3 DEF RefundInv

LEMMA PurgeKeeps ==
    ASSUME QueueInv, RefundInv, QueueInv',
           \/ \E r \in Jobs : PurgeRefund(r)
           \/ \E t \in Transactions : RemoveTransaction(t)
    PROVE  RefundInv'
<1>1. RefundTypeOK'
  BY DEF QueueInv, RefundInv, RefundTypeOK, PurgeRefund, RemoveTransaction, SetStatus, queueVars
<1>2. RequestInv'
  BY RefundAssumption DEF RefundInv, RefundTypeOK, RequestInv, Statuses, PurgeRefund, RemoveTransaction, SetStatus, queueVars
<1>3. RunInv'
  BY DEF RefundInv, RunInv, PurgeRefund, RemoveTransaction, queueVars
<1>4. QED
  BY <1>1, <1>2, <1>3 DEF RefundInv

\* A slot begins a run.
LEMMA BeginKeeps ==
    ASSUME QueueInv, RefundInv, QueueInv', NEW w \in Slots, NEW j \in Jobs, Begin(w, j)
    PROVE  RefundInv'
<1>1. RefundTypeOK'
  <2>1. want[j].tx \in Transactions
    BY DEF RefundInv, RefundTypeOK, RequestInv, Begin, Take, Wants
  <2>2. met' \subseteq Transactions
    BY <2>1 DEF RefundInv, RefundTypeOK, Begin, Meet
  <2>3. QED
    BY <2>2, QueueAssumption
    DEF QueueInv, QueueTypeOK, RefundInv, RefundTypeOK, Begin, Take, Move, docs, Awaits
<1>2. RequestInv'
  BY DEF QueueInv, QueueTypeOK, RefundInv, RefundTypeOK, RequestInv, Begin, Take, docs
<1>3. RunInv'
  BY DEF QueueInv, QueueTypeOK, RefundInv, RefundTypeOK, RequestInv, RunInv, Begin, Take, Move, docs,
         Executing, Paying
<1>4. QED
  BY <1>1, <1>2, <1>3 DEF RefundInv

\* An await of a run: the queue, the requests and the transactions known stay.
LEMMA AwaitKeeps ==
    ASSUME QueueInv, RefundInv, QueueInv', NEW w \in Slots,
           \/ RejectOverLimit(w) \/ FindTransaction(w) \/ FailMissing(w) \/ FindCompleted(w)
           \/ MarkProcessing(w) \/ MarkCompleted(w) \/ MarkTransaction(w) \/ AuditRefund(w)
           \/ RecordFailure(w)
    PROVE  RefundInv'
<1>1. /\ UNCHANGED <<queueVars, cpc, want, known, met>>
      /\ at[w] \in Awaits /\ work[w] \in Jobs
  BY DEF RefundInv, RefundTypeOK, QueueTypeOK, RejectOverLimit, FindTransaction, FailMissing, FindCompleted,
         MarkProcessing, MarkCompleted, MarkTransaction, AuditRefund, RecordFailure, docs, Awaits
<1>2. want[work[w]] \in Wants /\ runs[work[w]] > 0
  BY <1>1, QueueAssumption DEF QueueInv, RunnersInv, RefundInv, RefundTypeOK, RequestInv
<1>3. PICK p \in Awaits : Move(w, p)
  BY <1>1 DEF RejectOverLimit, FindTransaction, FailMissing, FindCompleted, Write,
     MarkProcessing, MarkCompleted, MarkTransaction, AuditRefund, RecordFailure, Awaits
<1>4. RefundTypeOK'
  <2>1. at' \in [Slots -> Awaits \cup {"idle"}] /\ \A v \in Slots : at'[v] = "idle" <=> work'[v] = None
    BY <1>1, <1>3 DEF RefundInv, RefundTypeOK, Move, queueVars, Awaits
  <2>2. status' \in [Jobs -> Statuses \cup {None}]
    BY <1>1 DEF RefundInv, RefundTypeOK, RejectOverLimit, FindTransaction, FailMissing, FindCompleted, Write,
     MarkProcessing, MarkCompleted, MarkTransaction, AuditRefund, RecordFailure, SetStatus, docs, Statuses
  <2>3. paid' \in [Jobs -> Nat] /\ audits' \in [Jobs -> Nat]
    BY <1>1 DEF RefundInv, RefundTypeOK, RejectOverLimit, FindTransaction, FailMissing, FindCompleted,
     MarkProcessing, MarkCompleted, MarkTransaction, AuditRefund, RecordFailure, docs
  <2>4. marked' \in [Transactions -> Jobs \cup {None}]
    BY <1>1, <1>2 DEF RefundInv, RefundTypeOK, Wants, RejectOverLimit, FindTransaction, FailMissing, FindCompleted,
     MarkProcessing, MarkCompleted, MarkTransaction, AuditRefund, RecordFailure, docs
  <2>5. QED
    BY <1>1, <2>1, <2>2, <2>3, <2>4 DEF QueueInv, RefundInv, RefundTypeOK
<1>5. RequestInv'
  <2>1. /\ \A r \in Jobs \ {work[w]} : status'[r] = status[r] /\ paid'[r] = paid[r]
        /\ paid[work[w]] <= paid'[work[w]]
        /\ paid'[work[w]] # paid[work[w]] => at[w] = "processing"
        /\ status'[work[w]] = "completed" => paid'[work[w]] > 0
    BY <1>1, RefundAssumption DEF RefundInv, RefundTypeOK, RequestInv, RunInv, Paying, Executing, Statuses, RejectOverLimit,
       FindTransaction, FailMissing, FindCompleted, Write, SetStatus,
       MarkProcessing, MarkCompleted, MarkTransaction, AuditRefund, RecordFailure, docs
  <2>2. QED
    BY <1>1, <1>2, <2>1 DEF RefundInv, RefundTypeOK, RequestInv, RunInv, Executing, queueVars, Asking
<1>6. RunInv'
  <2>1. /\ \A r \in Jobs : paid[r] <= paid'[r]
        /\ \A v \in Slots \ {w} : at'[v] = at[v]
    BY <1>1, <1>3 DEF RefundInv, RefundTypeOK, Move, RejectOverLimit, FindTransaction, FailMissing, FindCompleted,
       MarkProcessing, MarkCompleted, MarkTransaction, AuditRefund, RecordFailure, docs
  <2>2. /\ at'[w] = "reject" => want[work[w]].over
        /\ at'[w] \in Executing => ~want[work[w]].over
        /\ at'[w] = "missing" => want[work[w]].tx \notin known
        /\ at'[w] \in Paying => paid'[work[w]] > 0
    BY <1>1 DEF RefundInv, RefundTypeOK, RunInv, Paying, Executing, RejectOverLimit, FindTransaction, FailMissing,
       FindCompleted, Write, Move, MarkProcessing, MarkCompleted, MarkTransaction, AuditRefund, RecordFailure, docs
  <2>3. ASSUME NEW v \in Slots \ {w}, work[v] # None
        PROVE  /\ at[v] = "reject" => want[work[v]].over
               /\ at[v] \in Executing => ~want[work[v]].over
               /\ at[v] = "missing" => want[work[v]].tx \notin known
               /\ at[v] \in Paying => paid[work[v]] > 0 /\ paid'[work[v]] > 0
    <3>1. work[v] \in Jobs /\ paid[work[v]] \in Nat /\ paid'[work[v]] \in Nat
      BY <1>4, <2>3 DEF RefundInv, RefundTypeOK, QueueTypeOK
    <3>2. QED
      BY <2>1, <2>3, <3>1 DEF RefundInv, RunInv
  <2>4. QED
    BY <1>1, <2>1, <2>2, <2>3 DEF RunInv, queueVars
<1>7. QED
  BY <1>4, <1>5, <1>6 DEF RefundInv

\* The end of a run, and what BullMQ, a shutdown or a crash do to the runs.
LEMMA EndRunKeeps ==
    ASSUME QueueInv, RefundInv, QueueInv',
           (\E w \in Slots : ReturnJob(w) \/ ThrowJob(w)) \/ Redis \/ Shutdown \/ WorkerCrash
    PROVE  RefundInv'
<1>1. UNCHANGED <<cpc, want, docs, met>>
  BY DEF ReturnJob, ThrowJob, Redis, Shutdown, WorkerCrash, Aside
<1>2. \A r \in Jobs : /\ state'[r] = "unknown" <=> state[r] = "unknown"
                      /\ runs'[r] = runs[r]
  BY QueueAssumption DEF ReturnJob, ThrowJob, Redis, Shutdown, WorkerCrash, Complete, FailRun, StallFound, DlqAdded, FailStalled,
     StopWorkers, ExitIdle, Crash, EndProcess, HoldsLock, QueueInv, QueueTypeOK, LockInv
<1>3. \A w \in Slots : /\ work'[w] \in {work[w], None}
                       /\ work'[w] = None => at'[w] = "idle"
                       /\ work'[w] # None => at'[w] = at[w]
  BY QueueAssumption DEF ReturnJob, ThrowJob, Redis, Shutdown, WorkerCrash, Aside, Complete, FailRun, StallFound, DlqAdded, FailStalled,
     StopWorkers, ExitIdle, Crash, EndProcess, Free, Move, QueueInv, QueueTypeOK, RefundInv, RefundTypeOK
<1>4. at' \in [Slots -> Awaits \cup {"idle"}]
  BY DEF ReturnJob, ThrowJob, Redis, Shutdown, WorkerCrash, Aside, Move, RefundInv, RefundTypeOK
<1>5. RefundTypeOK'
  BY <1>1, <1>3, <1>4 DEF QueueInv, RefundInv, RefundTypeOK, docs, Awaits
<1>6. RequestInv'
  BY <1>1, <1>2 DEF RefundInv, RequestInv, docs
<1>7. RunInv'
  BY <1>1, <1>3 DEF RefundInv, RunInv, docs
<1>8. QED
  BY <1>5, <1>6, <1>7 DEF RefundInv

LEMMA RefundInvNext ==
    ASSUME QueueInv, RefundInv, QueueInv', [RefundNext]_refundVars
    PROVE  RefundInv'
<1>1. CASE UNCHANGED refundVars
  BY <1>1 DEF refundVars, docs, queueVars, QueueInv, RefundInv, RefundTypeOK, RequestInv, RunInv
<1>2. QED
  BY <1>1, RequestKeeps, EnqueueKeeps, PurgeKeeps, BeginKeeps, AwaitKeeps, EndRunKeeps
  DEF RefundNext, Handle, Process

LEMMA RefundInvariant == RefundSpec => [](QueueInv /\ RefundInv)
<1>1. RefundSpec => []QueueInv
  BY RefundDrives, QueueInvariant, PTL
<1>2. QED
  BY <1>1, RefundInvInit, RefundInvNext, PTL DEF RefundSpec

\* Every variable keeps its type, and a slot is at an await exactly when it runs
\* a job.
THEOREM RefundTypeCorrect == RefundSpec => []RefundTypeOK
<1>1. RefundInv => RefundTypeOK
  BY DEF RefundInv
<1>2. QED
  BY <1>1, RefundInvariant, PTL
--------------------------------------------------------------------------------
(* What is on record of a payment *)

\* A settled job stays settled.
LEMMA SettledStays ==
    ASSUME QueueInv, [QueueNext]_queueVars, NEW r \in Jobs, Settled(r)
    PROVE  Settled(r)' /\ state'[r] = state[r]
BY QueueAssumption
DEF QueueInv, QueueTypeOK, LockInv, QueueNext, Pick, queueVars, AddJob, Take, FailStalled, Complete, FailRun,
    StallFound, DlqAdded, StopWorkers, ExitIdle, Crash, EndProcess, HoldsLock, Settled

\* A stall is never forgotten.
LEMMA StallsGrow ==
    ASSUME QueueInv, [QueueNext]_queueVars, NEW r \in Jobs, stalls'[r] = 0
    PROVE  stalls[r] = 0
BY DEF QueueInv, QueueTypeOK, QueueNext, Pick, queueVars, AddJob, Take, FailStalled, Complete, FailRun,
    StallFound, DlqAdded, StopWorkers, ExitIdle, Crash, EndProcess

\* Every step that touches the document of a refund that was paid leaves it with
\* a status the payment can be found under, but for the purge of a settled one.
LEMMA PaymentsStep ==
    ASSUME QueueInv, RefundInv, PaymentsRecorded, RefundInv', [RefundNext]_refundVars
    PROVE  PaymentsRecorded'
<1>1. ASSUME NEW r \in Jobs
      PROVE  Settled(r) => Settled(r)'
  BY <1>1, StepDrives, SettledStays
<1>2. ASSUME NEW r \in Jobs, paid'[r] > 0
      PROVE  ~want'[r].over
  BY <1>2 DEF RefundInv, RequestInv
<1>3. CASE UNCHANGED <<status, paid>>
  BY <1>1, <1>2, <1>3 DEF PaymentsRecorded
<1>4. ASSUME NEW q \in Jobs, RequestRefund(q) \/ PurgeRefund(q)
      PROVE  PaymentsRecorded'
  <2>1. /\ UNCHANGED paid /\ \A r \in Jobs \ {q} : status'[r] = status[r]
        /\ paid[q] > 0 => Settled(q)
    BY <1>4 DEF RequestRefund, PurgeRefund, SetStatus, QueueInv, RunnersInv, RefundInv, RefundTypeOK, RequestInv
  <2>2. QED
    BY <1>1, <1>2, <2>1 DEF PaymentsRecorded
<1>5. ASSUME NEW w \in Slots, Process(w)
      PROVE  PaymentsRecorded'
  <2> DEFINE j == work[w]
  <2>1. j \in Jobs
    BY <1>5 DEF RefundInv, RefundTypeOK, QueueTypeOK, Process, RejectOverLimit, FindTransaction,
       FailMissing, FindCompleted, MarkProcessing, MarkCompleted, MarkTransaction, AuditRefund, RecordFailure,
       ReturnJob, ThrowJob
  <2>2. CASE RejectOverLimit(w)
    <3>1. /\ UNCHANGED paid /\ \A r \in Jobs \ {j} : status'[r] = status[r]
          /\ want[j].over
      BY <2>1, <2>2 DEF RejectOverLimit, Write, SetStatus, RefundInv, RefundTypeOK, RunInv
    <3>2. paid[j] = 0
      BY <2>1, <3>1 DEF RefundInv, RefundTypeOK, RequestInv
    <3>3. QED
      BY <1>1, <1>2, <2>1, <3>1, <3>2 DEF PaymentsRecorded
  <2>3. CASE MarkProcessing(w)
    <3>1. /\ \A r \in Jobs \ {j} : status'[r] = status[r] /\ paid'[r] = paid[r]
          /\ status'[j] = "processing" \/ (status'[j] = status[j] /\ paid'[j] = paid[j])
      BY <2>1, <2>3 DEF MarkProcessing, Write, SetStatus, Move, RefundInv, RefundTypeOK
    <3>2. QED
      BY <1>1, <1>2, <2>1, <3>1 DEF PaymentsRecorded
  <2>4. CASE FailMissing(w) \/ MarkCompleted(w) \/ RecordFailure(w)
    <3>1. /\ \A r \in Jobs \ {j} : status'[r] = status[r]
          /\ status'[j] \in {"completed", "failed", status[j]}
          /\ UNCHANGED paid
      BY <2>1, <2>4 DEF FailMissing, MarkCompleted, RecordFailure, Write, SetStatus, RefundInv, RefundTypeOK
    <3>2. QED
      BY <1>1, <1>2, <2>1, <3>1 DEF PaymentsRecorded
  <2>5. QED
    BY <1>3, <1>5, <2>2, <2>3, <2>4
    DEF Process, FindTransaction, FindCompleted, MarkTransaction, AuditRefund, ReturnJob, ThrowJob, docs
<1>6. QED
  BY <1>3, <1>4, <1>5
  DEF RefundNext, Handle, Create, CheckTransaction, CheckExisting, EnqueueRefund, Begin, Redis, Shutdown, WorkerCrash, Aside,
      RemoveTransaction, refundVars, docs

\* No refund above the limit is ever paid, and whatever crashes, a paid refund has
\* a document that says so until its job is settled.
THEOREM PaymentsAreRecorded == RefundSpec => []PaymentsRecorded
<1>1. RefundInit => PaymentsRecorded
  BY DEF RefundInit, PaymentsRecorded
<1>2. QED
  BY <1>1, RefundInvariant, PaymentsStep, PTL DEF RefundSpec
--------------------------------------------------------------------------------
(* Marks and audits are paid for *)

\* The runs that have had the refund made and not yet audited it.
Payers(r) == {w \in Slots : work[w] = r /\ at[w] \in Paying}
AuditInv == \A r \in Jobs : audits[r] + Cardinality(Payers(r)) <= paid[r]

LEMMA PayersFinite ==
    ASSUME NEW r
    PROVE  IsFiniteSet(Payers(r)) /\ Cardinality(Payers(r)) \in Nat
<1>1. Payers(r) \in SUBSET Slots
  BY DEF Payers
<1>2. IsFiniteSet(Payers(r))
  BY <1>1, QueueAssumption, FS_Subset
<1>3. QED
  BY <1>2, FS_CardinalityType

LEMMA PayersLeave ==
    ASSUME NEW r, Payers(r)' \subseteq Payers(r)
    PROVE  Cardinality(Payers(r)') \in Nat /\ Cardinality(Payers(r)') <= Cardinality(Payers(r))
BY PayersFinite, FS_Subset, FS_CardinalityType

\* Only the payment lets a run join those that owe an audit, and the audit lets
\* one leave.
LEMMA PayersStep ==
    ASSUME RefundInv, [RefundNext]_refundVars, QueueInv
    PROVE  \/ \A r \in Jobs : Payers(r)' \subseteq Payers(r)
           \/ \E w \in Slots : MarkProcessing(w)
<1>1. ASSUME NEW w \in Slots, Process(w), ~MarkProcessing(w)
      PROVE  \A v \in Slots : /\ work'[v] \in {work[v], None}
                              /\ at'[v] = at[v] \/ v = w
                              /\ at'[w] \in Paying => at[w] \in Paying
  BY <1>1
  DEF RefundInv, RefundTypeOK, QueueTypeOK, Process, RejectOverLimit, FindTransaction, FailMissing, FindCompleted,
      MarkCompleted, MarkTransaction, AuditRefund, RecordFailure, ReturnJob, ThrowJob, Complete, FailRun, Free,
      Write, Move, Paying, queueVars
<1>2. ASSUME NEW w \in Slots, NEW j \in Jobs, Begin(w, j)
      PROVE  /\ \A v \in Slots \ {w} : work'[v] = work[v] /\ at'[v] = at[v]
             /\ at'[w] \notin Paying
  BY <1>2 DEF RefundInv, RefundTypeOK, QueueTypeOK, Begin, Take, Move, Paying
<1>3. CASE Redis \/ Shutdown \/ WorkerCrash
  <2>1. \A v \in Slots : work'[v] \in {work[v], None} /\ at'[v] \in {at[v], "idle"}
    BY <1>3
    DEF RefundInv, RefundTypeOK, QueueTypeOK, Redis, Shutdown, WorkerCrash, Aside, StallFound, DlqAdded, FailStalled,
        StopWorkers, ExitIdle, Crash, EndProcess
  <2>2. QED
    BY <2>1, QueueAssumption DEF Payers, Paying
<1>4. CASE UNCHANGED <<work, at>>
  BY <1>4 DEF Payers
<1>5. ASSUME NEW r \in Jobs, Create(r) \/ RequestRefund(r) \/ Handle(r) \/ PurgeRefund(r)
      PROVE  UNCHANGED <<work, at>>
  BY <1>5 DEF Create, RequestRefund, Handle, CheckTransaction, CheckExisting, EnqueueRefund, PurgeRefund,
     AddJob, queueVars
<1>6. ASSUME NEW w \in Slots, Process(w) \/ \E j \in Jobs : Begin(w, j)
      PROVE  MarkProcessing(w) \/ \A r \in Jobs : Payers(r)' \subseteq Payers(r)
  BY <1>1, <1>2, <1>6, QueueAssumption DEF Payers
<1>7. QED
  BY <1>3, <1>4, <1>5, <1>6 DEF RefundNext, RemoveTransaction, refundVars, queueVars

LEMMA AuditStep ==
    ASSUME QueueInv, RefundInv, AuditInv, RefundInv', [RefundNext]_refundVars
    PROVE  AuditInv'
<1>1. \A r \in Jobs : /\ audits[r] \in Nat /\ paid[r] \in Nat /\ audits'[r] \in Nat /\ paid'[r] \in Nat
                      /\ Cardinality(Payers(r)) \in Nat
  BY PayersFinite DEF RefundInv, RefundTypeOK
<1>2. ASSUME NEW r \in Jobs, Payers(r)' \subseteq Payers(r), audits'[r] = audits[r], paid'[r] = paid[r]
      PROVE  audits'[r] + Cardinality(Payers(r)') <= paid'[r]
  BY <1>1, <1>2, PayersLeave DEF AuditInv
<1>3. ASSUME NEW w \in Slots, MarkProcessing(w)
      PROVE  AuditInv'
  <2> DEFINE j == work[w]
  <2>1. /\ j \in Jobs /\ at[w] = "processing" /\ UNCHANGED <<work, audits>>
        /\ \A v \in Slots \ {w} : at'[v] = at[v]
        /\ \A r \in Jobs \ {j} : paid'[r] = paid[r]
    BY <1>3 DEF MarkProcessing, Write, Move, RefundInv, RefundTypeOK, QueueTypeOK, queueVars
  <2>2. ASSUME NEW r \in Jobs \ {j}
        PROVE  Payers(r)' \subseteq Payers(r)
    BY <2>1 DEF Payers
  <2>3. CASE at'[w] = "completing"
    <3>1. paid'[j] = paid[j] + 1
      BY <1>3, <2>1, <2>3 DEF MarkProcessing, RefundInv, RefundTypeOK
    <3>2. Payers(j)' = Payers(j) \cup {w} /\ w \notin Payers(j)
      BY <2>1, <2>3 DEF Payers, Paying
    <3>3. Cardinality(Payers(j)') = Cardinality(Payers(j)) + 1
      BY <3>2, PayersFinite, FS_AddElement
    <3>4. audits'[j] + Cardinality(Payers(j)') <= paid'[j]
      BY <1>1, <2>1, <3>1, <3>3 DEF AuditInv
    <3>5. QED
      BY <1>2, <2>1, <2>2, <3>4 DEF AuditInv
  <2>4. CASE at'[w] # "completing"
    <3>1. paid'[j] = paid[j] /\ at'[w] = "failing"
      BY <1>3, <2>1, <2>4 DEF MarkProcessing, Write, Move, RefundInv, RefundTypeOK
    <3>2. Payers(j)' \subseteq Payers(j)
      BY <2>1, <3>1 DEF Payers, Paying
    <3>3. QED
      BY <1>2, <2>1, <2>2, <3>1, <3>2 DEF AuditInv
  <2>5. QED
    BY <2>3, <2>4
<1>4. ASSUME NEW w \in Slots, AuditRefund(w)
      PROVE  AuditInv'
  <2> DEFINE j == work[w]
  <2>1. /\ j \in Jobs /\ at[w] = "auditing" /\ UNCHANGED <<work, paid>>
        /\ \A v \in Slots \ {w} : at'[v] = at[v]
        /\ at'[w] \in {"return", "failing"}
        /\ \A r \in Jobs \ {j} : audits'[r] = audits[r]
        /\ audits'[j] \in {audits[j], audits[j] + 1}
    BY <1>4 DEF AuditRefund, Move, RefundInv, RefundTypeOK, QueueTypeOK, queueVars
  <2>2. ASSUME NEW r \in Jobs \ {j}
        PROVE  Payers(r)' \subseteq Payers(r)
    BY <2>1 DEF Payers
  <2>3. Payers(j)' = Payers(j) \ {w} /\ w \in Payers(j)
    BY <2>1 DEF Payers, Paying
  <2>4. Cardinality(Payers(j)') = Cardinality(Payers(j)) - 1
    BY <2>3, PayersFinite, FS_RemoveElement
  <2>5. audits'[j] + Cardinality(Payers(j)') <= paid'[j]
    BY <1>1, <2>1, <2>4 DEF AuditInv
  <2>6. QED
    BY <1>2, <2>1, <2>2, <2>5 DEF AuditInv
<1>5. ASSUME ~\E w \in Slots : MarkProcessing(w) \/ AuditRefund(w)
      PROVE  UNCHANGED <<audits, paid>>
  BY <1>5
  DEF RefundNext, Create, RequestRefund, Handle, CheckTransaction, CheckExisting, EnqueueRefund, PurgeRefund,
      RemoveTransaction, Begin, Process, RejectOverLimit, FindTransaction, FailMissing, FindCompleted,
      MarkCompleted, MarkTransaction, RecordFailure, ReturnJob, ThrowJob, Redis, Shutdown, WorkerCrash, Aside,
      refundVars, docs
<1>6. QED
  BY <1>2, <1>3, <1>4, <1>5, PayersStep DEF AuditInv

\* What never goes back: a request, a payment, the removal of a transaction.  A
\* mark is only ever replaced by another, on account of a run that was paid.
LEMMA Monotone ==
    ASSUME QueueInv, RefundInv, [RefundNext]_refundVars
    PROVE  /\ known' \subseteq known
           /\ \A r \in Jobs : want[r] # None => want'[r] = want[r]
           /\ \A r \in Jobs : paid[r] > 0 => paid'[r] > 0
           /\ \A t \in Transactions :
                 \/ marked'[t] = marked[t]
                 \/ \E r \in Jobs : marked'[t] = r /\ want[r] # None /\ want[r].tx = t /\ paid[r] > 0
<1>1. \A r \in Jobs : paid[r] \in Nat
  BY DEF RefundInv, RefundTypeOK
<1>2. ASSUME NEW r \in Jobs, Create(r) \/ RequestRefund(r) \/ Handle(r) \/ PurgeRefund(r)
      PROVE  /\ UNCHANGED <<known, paid, marked>>
             /\ \A q \in Jobs : want[q] # None => want'[q] = want[q]
  BY <1>2 DEF Create, RequestRefund, Handle, CheckTransaction, CheckExisting, EnqueueRefund, PurgeRefund, docs,
     RefundInv, RefundTypeOK, RequestInv
<1>3. ASSUME NEW w \in Slots, MarkTransaction(w)
      PROVE  /\ UNCHANGED <<known, paid, want>>
             /\ \A t \in Transactions :
                 \/ marked'[t] = marked[t]
                 \/ \E r \in Jobs : marked'[t] = r /\ want[r] # None /\ want[r].tx = t /\ paid[r] > 0
  <2>1. work[w] \in Jobs /\ paid[work[w]] > 0 /\ want[work[w]] # None
    BY <1>3, QueueAssumption
    DEF MarkTransaction, RefundInv, RefundTypeOK, RunInv, RequestInv, QueueInv, QueueTypeOK, RunnersInv, Paying
  <2>2. QED
    BY <1>3, <2>1 DEF MarkTransaction, RefundInv, RefundTypeOK
<1>4. ASSUME NEW w \in Slots, MarkProcessing(w)
      PROVE  UNCHANGED <<known, want, marked>> /\ \A r \in Jobs : paid[r] > 0 => paid'[r] > 0
  BY <1>1, <1>4 DEF MarkProcessing, RefundInv, RefundTypeOK
<1>5. ASSUME NEW w \in Slots, Process(w), ~MarkTransaction(w), ~MarkProcessing(w)
      PROVE  UNCHANGED <<known, want, marked, paid>>
  BY <1>5 DEF Process, RejectOverLimit, FindTransaction, FailMissing, FindCompleted,
      MarkCompleted, AuditRefund, RecordFailure, ReturnJob, ThrowJob, docs
<1>6. QED
  BY <1>2, <1>3, <1>4, <1>5
  DEF RefundNext, RemoveTransaction, Begin, Redis, Shutdown, WorkerCrash, Aside, refundVars, docs

MarksInv ==
    \A t \in Transactions : marked[t] # None =>
        /\ want[marked[t]] # None /\ want[marked[t]].tx = t
        /\ paid[marked[t]] > 0

LEMMA MarksStep ==
    ASSUME QueueInv, RefundInv, MarksInv, [RefundNext]_refundVars
    PROVE  MarksInv'
BY Monotone, QueueAssumption DEF MarksInv, RefundInv, RefundTypeOK

\* A transaction is marked refunded, and a refund audited, only on account of a
\* payment: each audit of its own one, whatever crashes or runs twice at once.
THEOREM MarksAndAuditsArePaid == RefundSpec => []MarksArePaid
<1>1. RefundInit => MarksInv /\ AuditInv
  <2>1. ASSUME RefundInit, NEW r \in Jobs
        PROVE  Payers(r) = {}
    BY <2>1 DEF RefundInit, Payers, Paying
  <2>2. RefundInit => AuditInv
    BY <2>1, FS_EmptySet DEF RefundInit, AuditInv
  <2>3. QED
    BY <2>2 DEF RefundInit, MarksInv
<1>2. RefundInv /\ MarksInv /\ AuditInv => MarksArePaid
  <2>1. ASSUME RefundInv, AuditInv, NEW r \in Jobs
        PROVE  audits[r] <= paid[r]
    BY <2>1, PayersFinite DEF RefundInv, RefundTypeOK, AuditInv
  <2>2. QED
    BY <2>1 DEF MarksInv, MarksArePaid
<1>3. QED
  BY <1>1, <1>2, RefundInvariant, AuditStep, MarksStep, PTL DEF RefundSpec
--------------------------------------------------------------------------------
(* A refund that left its transaction unmarked was run again *)

Marked(r) == want[r].tx \notin known \/ marked[want[r].tx] # None

\* A refund run once is not completed before its transaction is marked: until then
\* its only run is about to mark it, or to fail.
UnmarkedInv ==
    \A r \in Jobs : status[r] = "completed" /\ runs[r] <= 1 =>
        \/ Marked(r)
        \/ /\ state[r] # "completed"
           /\ \A w \in Slots : work[w] = r => at[w] \in {"transacting", "failing", "throw"}

LEMMA MarkedStays ==
    ASSUME QueueInv, RefundInv, [RefundNext]_refundVars, NEW r \in Jobs, want[r] # None, Marked(r)
    PROVE  Marked(r)'
<1>1. want[r].tx \in Transactions /\ want'[r] = want[r]
  BY Monotone DEF RefundInv, RefundTypeOK, Wants
<1>2. QED
  BY <1>1, Monotone, QueueAssumption DEF Marked

LEMMA UnmarkedStep ==
    ASSUME QueueInv, RefundInv, UnmarkedInv, RefundInv', [RefundNext]_refundVars
    PROVE  UnmarkedInv'
<1> SUFFICES ASSUME NEW r \in Jobs, status'[r] = "completed", runs'[r] <= 1, ~Marked(r)'
             PROVE  /\ state'[r] # "completed"
                    /\ \A w \in Slots : work'[w] = r => at'[w] \in {"transacting", "failing", "throw"}
  BY DEF UnmarkedInv
<1> DEFINE Late == {"transacting", "failing", "throw"}
<1>1. want[r] # None => ~Marked(r)
  BY MarkedStays
<1>2. /\ runs[r] \in Nat /\ runs'[r] \in Nat
      /\ \A w \in Slots : work[w] = r =>
            /\ want[r] # None /\ runs[r] > 0
            /\ state[r] = "completed" => runs[r] > 1
            /\ \A v \in Slots \ {w} : work[v] = r => runs[r] > 1
  BY QueueAssumption DEF QueueInv, QueueTypeOK, RunnersInv, RefundInv, RefundTypeOK, RequestInv
<1>3. status[r] = "completed" => want[r] # None
  BY DEF QueueInv, QueueTypeOK, RunnersInv, RefundInv, RequestInv
<1>4. status[r] = "completed" /\ runs[r] <= 1 =>
        state[r] # "completed" /\ \A w \in Slots : work[w] = r => at[w] \in Late
  BY <1>1, <1>3 DEF UnmarkedInv
<1>5. CASE \/ \E q \in Jobs : Create(q) \/ RequestRefund(q) \/ Handle(q) \/ PurgeRefund(q)
           \/ \E t \in Transactions : RemoveTransaction(t)
           \/ UNCHANGED refundVars
  <2>1. UNCHANGED <<work, runs, at>> /\ (state'[r] = state[r] \/ state'[r] = "waiting")
    BY <1>5 DEF Create, RequestRefund, Handle, CheckTransaction, CheckExisting, EnqueueRefund, PurgeRefund, AddJob,
       RemoveTransaction, refundVars, queueVars, QueueInv, QueueTypeOK
  <2>2. status[r] = "completed"
    BY <1>5, RefundAssumption
    DEF Create, RequestRefund, Handle, CheckTransaction, CheckExisting, EnqueueRefund, PurgeRefund, SetStatus, Reply,
        RemoveTransaction, refundVars, docs, RefundInv, RefundTypeOK, Statuses
  <2>3. QED
    BY <1>4, <2>1, <2>2
<1>6. CASE Redis \/ Shutdown \/ WorkerCrash
  <2>1. /\ UNCHANGED <<runs, status>> /\ state'[r] \in {state[r], "waiting", "failed"}
        /\ \A w \in Slots : work'[w] = r => work[w] = r /\ at'[w] = at[w]
    BY <1>6, QueueAssumption
    DEF Redis, Shutdown, WorkerCrash, Aside, docs, StallFound, DlqAdded, FailStalled,
        StopWorkers, ExitIdle, Crash, EndProcess, QueueInv, QueueTypeOK
  <2>2. QED
    BY <1>4, <2>1
<1>7. ASSUME NEW w \in Slots, NEW j \in Jobs, Begin(w, j)
      PROVE  state'[r] # "completed" /\ \A v \in Slots : work'[v] = r => at'[v] \in Late
  <2>1. status[r] = "completed"
    BY <1>7 DEF Begin, docs
  <2>2. runs[r] > 0 /\ j # r
    BY <1>2, <1>7, <2>1 DEF Begin, Take, QueueInv, QueueTypeOK, RefundInv, RequestInv
  <2>3. /\ runs'[r] = runs[r] /\ state'[r] = state[r]
        /\ \A v \in Slots : work'[v] = r => work[v] = r /\ at'[v] = at[v]
    BY <1>7, <2>2 DEF Begin, Take, Move, QueueInv, QueueTypeOK, RefundInv, RefundTypeOK
  <2>4. QED
    BY <1>4, <2>1, <2>3
<1>8. ASSUME NEW w \in Slots, Process(w), work[w] # r
      PROVE  state'[r] # "completed" /\ \A v \in Slots : work'[v] = r => at'[v] \in Late
  <2>1. /\ work[w] \in Jobs /\ UNCHANGED runs
        /\ state'[r] = state[r] /\ status'[r] = status[r]
        /\ \A v \in Slots : work'[v] = r => work[v] = r /\ at'[v] = at[v]
    BY <1>8, QueueAssumption
    DEF Process, RejectOverLimit, FindTransaction, FailMissing, FindCompleted, MarkProcessing,
      MarkCompleted, MarkTransaction, AuditRefund, RecordFailure, ReturnJob, ThrowJob, Complete, FailRun, Free,
      Write, SetStatus, Move, queueVars, docs, QueueInv, QueueTypeOK, RefundInv, RefundTypeOK
  <2>2. QED
    BY <1>4, <2>1
<1>9. ASSUME NEW w \in Slots, Process(w), work[w] = r
      PROVE  state'[r] # "completed" /\ \A v \in Slots : work'[v] = r => at'[v] \in Late
  <2>1. UNCHANGED runs
    BY <1>9 DEF Process, RejectOverLimit, FindTransaction, FailMissing, FindCompleted, MarkProcessing,
      MarkCompleted, MarkTransaction, AuditRefund, RecordFailure, ReturnJob, ThrowJob, Complete, FailRun, queueVars
  <2>2. /\ want[r] # None /\ ~Marked(r) /\ state[r] # "completed"
        /\ \A v \in Slots \ {w} : work[v] # r
    BY <1>1, <1>2, <1>9, <2>1
  <2>3. \A v \in Slots \ {w} : work'[v] # r
    BY <1>9, <2>2 DEF Process, RejectOverLimit, FindTransaction, FailMissing, FindCompleted, MarkProcessing,
      MarkCompleted, MarkTransaction, AuditRefund, RecordFailure, ReturnJob, ThrowJob, Complete, FailRun, Free,
      queueVars, QueueInv, QueueTypeOK
  <2>4. CASE MarkCompleted(w)
    BY <2>2, <2>3, <2>4 DEF MarkCompleted, Write, Move, queueVars, RefundInv, RefundTypeOK
  <2>5. ASSUME ~MarkCompleted(w)
        PROVE  status[r] = "completed" /\ at[w] \in Late
    <3>1. status[r] = "completed"
      BY <1>9, <2>5, RefundAssumption
      DEF Process, RejectOverLimit, FindTransaction, FailMissing, FindCompleted, MarkProcessing,
          MarkTransaction, AuditRefund, RecordFailure, ReturnJob, ThrowJob, Write, SetStatus, docs,
          RefundInv, RefundTypeOK, Statuses
    <3>2. QED
      BY <1>4, <1>9, <2>1, <3>1
  <2>6. CASE MarkTransaction(w)
    <3>1. want[r].tx \in known /\ marked[want[r].tx] = None /\ want[r].tx \in Transactions
      BY <2>2 DEF Marked, RefundInv, RefundTypeOK, Wants
    <3>2. UNCHANGED <<want, known, state, work>> /\ marked'[want[r].tx] = None
      BY <2>6, <3>1 DEF MarkTransaction, queueVars, Marked
    <3>3. UNCHANGED marked /\ Move(w, "failing")
      BY <1>9, <2>6, <3>1, <3>2, QueueAssumption DEF MarkTransaction, RefundInv, RefundTypeOK
    <3>4. QED
      BY <2>2, <2>3, <3>2, <3>3 DEF Move, RefundInv, RefundTypeOK
  <2>7. CASE RecordFailure(w)
    BY <2>2, <2>3, <2>7 DEF RecordFailure, Move, queueVars, RefundInv, RefundTypeOK
  <2>8. CASE ThrowJob(w)
    BY <1>9, <2>2, <2>3, <2>8, QueueAssumption DEF ThrowJob, FailRun, Free, QueueInv, QueueTypeOK
  <2>9. QED
    BY <1>9, <2>4, <2>5, <2>6, <2>7, <2>8
    DEF Process, RejectOverLimit, FindTransaction, FailMissing, FindCompleted, MarkProcessing, AuditRefund,
        ReturnJob
<1>10. QED
  BY <1>5, <1>6, <1>7, <1>8, <1>9 DEF RefundNext

\* A completed refund whose transaction is there and carries no mark was executed
\* more than once: the run that completed it never got to the mark.
THEOREM UnmarkedMeansRerun == RefundSpec => []UnmarkedWasRerun
<1>1. RefundInit => UnmarkedInv
  BY RefundAssumption DEF RefundInit, UnmarkedInv, Statuses
<1>2. QueueInv /\ UnmarkedInv => UnmarkedWasRerun
  BY DEF QueueInv, QueueTypeOK, UnmarkedInv, UnmarkedWasRerun, Marked
<1>3. QED
  BY <1>1, <1>2, RefundInvariant, UnmarkedStep, PTL DEF RefundSpec
--------------------------------------------------------------------------------
(* What GET /refunds/:id says has a cause *)

Gone(r)        == want[r].tx \notin known
AnotherPaid(r) == PaidFor(want[r].tx) \ {r} # {}
SomePaid(r)    == PaidFor(want[r].tx) # {}

\* A run that returns, and so a job that is completed, has met a limit, a missing
\* transaction or a payment.
ReturnInv ==
    /\ \A w \in Slots : at[w] = "return" =>
           want[work[w]].over \/ Gone(work[w]) \/ SomePaid(work[w])
    /\ \A r \in Jobs : state[r] = "completed" => want[r].over \/ Gone(r) \/ SomePaid(r)

\* If the job was never found stalled, nobody else writes the document of its run:
\* it says what the run, or the one that completed the job, has written.
OwnInv ==
    /\ \A w \in Slots : work[w] # None /\ stalls[work[w]] = 0 =>
           /\ at[w] \in {"transacting", "auditing"} => status[work[w]] = "completed"
           /\ at[w] = "return" => \/ Gone(work[w]) \/ AnotherPaid(work[w])
                                  \/ status[work[w]] \in {"completed", "rejected"}
    /\ \A r \in Jobs : state[r] = "completed" /\ stalls[r] = 0 =>
           Gone(r) \/ AnotherPaid(r) \/ status[r] \in {"completed", "rejected", None}

\* A cause stays one: transactions do not come back, payments are not undone.
LEMMA CauseStays ==
    ASSUME QueueInv, RefundInv, [RefundNext]_refundVars, NEW r \in Jobs, want[r] # None
    PROVE  /\ want'[r] = want[r]
           /\ Gone(r) => Gone(r)'
           /\ SomePaid(r) => SomePaid(r)'
           /\ AnotherPaid(r) => AnotherPaid(r)'
<1>1. want'[r] = want[r] /\ known' \subseteq known
  BY Monotone
<1>2. ASSUME NEW t
      PROVE  PaidFor(t) \subseteq PaidFor(t)'
  BY Monotone DEF PaidFor
<1>3. QED
  BY <1>1, <1>2 DEF Gone, SomePaid, AnotherPaid

\* Whose job has begun has a transaction and a limit to look at.
LEMMA RunnersWant ==
    ASSUME QueueInv, RefundInv
    PROVE  /\ \A w \in Slots : at[w] # "idle" => work[w] \in Jobs /\ want[work[w]] \in Wants
           /\ \A r \in Jobs : state[r] # "unknown" => want[r] \in Wants
           /\ \A w \in Slots : at[w] # "idle" => want[work[w]] # None
           /\ \A r \in Jobs : state[r] # "unknown" => want[r] # None
BY QueueAssumption DEF QueueInv, QueueTypeOK, RunnersInv, RefundInv, RefundTypeOK, RequestInv

\* A run past its first await is moved only by itself.
LEMMA RunMovesItself ==
    ASSUME QueueInv, RefundInv, [RefundNext]_refundVars, NEW w \in Slots, ~Process(w),
           at'[w] \notin {"idle", "reject", "transaction"}
    PROVE  work'[w] = work[w] /\ at'[w] = at[w]
<1>1. ASSUME NEW v \in Slots, Process(v), v # w
      PROVE  work'[w] = work[w] /\ at'[w] = at[w]
  BY <1>1
  DEF Process, RejectOverLimit, FindTransaction, FailMissing, FindCompleted, MarkProcessing,
      MarkCompleted, MarkTransaction, AuditRefund, RecordFailure, ReturnJob, ThrowJob, Complete, FailRun, Free,
      Write, Move, queueVars, RefundInv, RefundTypeOK, QueueTypeOK
<1>2. ASSUME NEW v \in Slots, NEW j \in Jobs, Begin(v, j)
      PROVE  work'[w] = work[w] /\ at'[w] = at[w]
  BY <1>2 DEF Begin, Take, Move, RefundInv, RefundTypeOK, QueueTypeOK
<1>3. CASE Redis \/ Shutdown \/ WorkerCrash
  BY <1>3 DEF Redis, Shutdown, WorkerCrash, Aside, StallFound, DlqAdded, FailStalled,
     StopWorkers, ExitIdle, Crash, EndProcess, RefundInv, RefundTypeOK, QueueTypeOK
<1>4. CASE \/ \E r \in Jobs : Create(r) \/ RequestRefund(r) \/ Handle(r) \/ PurgeRefund(r)
           \/ \E t \in Transactions : RemoveTransaction(t)
           \/ UNCHANGED refundVars
  BY <1>4 DEF Create, RequestRefund, Handle, CheckTransaction, CheckExisting, EnqueueRefund, AddJob, PurgeRefund,
     RemoveTransaction, refundVars, queueVars
<1>5. QED
  BY <1>1, <1>2, <1>3, <1>4 DEF RefundNext

\* Where a run can come from when it returns, and what it has met there.
LEMMA ReturnFrom ==
    ASSUME QueueInv, RefundInv, [RefundNext]_refundVars, NEW w \in Slots, at'[w] = "return"
    PROVE  /\ work'[w] = work[w] /\ at[w] # "idle"
           /\ UNCHANGED stalls \/ at[w] = "return"
           /\ \/ at[w] = "return"
              \/ at[w] = "reject" /\ status'[work[w]] = "rejected" /\ want[work[w]].over
              \/ Gone(work[w])
              \/ /\ at[w] = "check" /\ UNCHANGED status
                 /\ RefundsOf(want[work[w]].tx, {"completed"}) # {}
              \/ at[w] = "auditing" /\ UNCHANGED status /\ paid[work[w]] > 0
<1>1. CASE Process(w)
  <2> USE DEF Write, SetStatus, Move, queueVars, RefundInv, RefundTypeOK, QueueTypeOK
  <2>1. CASE RejectOverLimit(w)
    BY <2>1 DEF RejectOverLimit, RunInv
  <2>2. CASE FailMissing(w)
    BY <2>2 DEF FailMissing, RunInv, Gone
  <2>3. CASE FindCompleted(w)
    BY <2>3 DEF FindCompleted, docs
  <2>4. CASE AuditRefund(w)
    BY <2>4, QueueAssumption DEF AuditRefund, RunInv, Paying
  <2>5. CASE ReturnJob(w) \/ ThrowJob(w)
    BY <2>5 DEF ReturnJob, ThrowJob
  <2>6. CASE FindTransaction(w) \/ MarkProcessing(w) \/ MarkCompleted(w) \/ MarkTransaction(w) \/ RecordFailure(w)
    BY <2>6 DEF FindTransaction, MarkProcessing, MarkCompleted, MarkTransaction, RecordFailure
  <2>7. QED
    BY <1>1, <2>1, <2>2, <2>3, <2>4, <2>5, <2>6 DEF Process
<1>2. QED
  BY <1>1, RunMovesItself DEF RefundInv, RefundTypeOK

\* A job is completed by the run that returns with its lock.
LEMMA CompletedBy ==
    ASSUME QueueInv, RefundInv, [RefundNext]_refundVars, NEW r \in Jobs, state'[r] = "completed"
    PROVE  \/ state[r] = "completed" /\ stalls'[r] = stalls[r]
           \/ \E w \in Slots : /\ at[w] = "return" /\ work[w] = r
                               /\ UNCHANGED <<status, stalls>>
<1>1. ASSUME NEW w \in Slots, ReturnJob(w)
      PROVE  \/ state'[r] = state[r] /\ stalls'[r] = stalls[r]
             \/ at[w] = "return" /\ work[w] = r /\ UNCHANGED <<status, stalls>>
  BY <1>1 DEF ReturnJob, Complete, docs, QueueInv, QueueTypeOK
<1>2. ASSUME NEW w \in Slots, Process(w), ~ReturnJob(w)
      PROVE  state'[r] \in {state[r], "waiting", "failed"} /\ stalls'[r] = stalls[r]
  BY <1>2 DEF Process, RejectOverLimit, FindTransaction, FailMissing, FindCompleted, MarkProcessing,
      MarkCompleted, MarkTransaction, AuditRefund, RecordFailure, ThrowJob, FailRun, queueVars, QueueInv, QueueTypeOK
<1>3. CASE \/ Redis \/ Shutdown \/ WorkerCrash
           \/ \E w \in Slots, j \in Jobs : Begin(w, j)
           \/ \E q \in Jobs : Create(q) \/ RequestRefund(q) \/ Handle(q) \/ PurgeRefund(q)
           \/ \E t \in Transactions : RemoveTransaction(t)
           \/ UNCHANGED refundVars
  BY <1>3 DEF Redis, Shutdown, WorkerCrash, StallFound, DlqAdded, FailStalled,
     StopWorkers, ExitIdle, Crash, EndProcess, Begin, Take, Create, RequestRefund, Handle, CheckTransaction,
     CheckExisting, EnqueueRefund, AddJob, PurgeRefund, RemoveTransaction, refundVars, queueVars, QueueInv, QueueTypeOK
<1>4. QED
  BY <1>1, <1>2, <1>3 DEF RefundNext

LEMMA ReturnStep ==
    ASSUME QueueInv, RefundInv, ReturnInv, [RefundNext]_refundVars
    PROVE  ReturnInv'
<1>1. ASSUME NEW w \in Slots, at'[w] = "return"
      PROVE  want[work[w]].over \/ Gone(work[w]) \/ SomePaid(work[w])
  <2>1. work[w] \in Jobs /\ want[work[w]] # None
    BY <1>1, ReturnFrom, RunnersWant
  <2>2. RefundsOf(want[work[w]].tx, {"completed"}) # {} => SomePaid(work[w])
    BY <2>1, RefundAssumption, QueueAssumption DEF RefundsOf, SomePaid, PaidFor, RefundInv, RefundTypeOK, RequestInv, QueueInv, QueueTypeOK, RunnersInv
  <2>3. paid[work[w]] > 0 => SomePaid(work[w])
    BY <2>1 DEF SomePaid, PaidFor
  <2>4. QED
    BY <1>1, <2>2, <2>3, ReturnFrom DEF ReturnInv
<1>2. ASSUME NEW w \in Slots, at'[w] = "return"
      PROVE  want'[work'[w]].over \/ Gone(work[w])' \/ SomePaid(work[w])'
  BY <1>1, <1>2, ReturnFrom, RunnersWant, CauseStays
<1>3. ASSUME NEW r \in Jobs, state'[r] = "completed"
      PROVE  want'[r].over \/ Gone(r)' \/ SomePaid(r)'
  BY <1>3, CompletedBy, RunnersWant, CauseStays DEF ReturnInv
<1>4. QED
  BY <1>2, <1>3 DEF ReturnInv

\* The document of a job that was never found stalled is written by its only run,
\* and purged when no run is left.
LEMMA OwnDocument ==
    ASSUME QueueInv, RefundInv, [RefundNext]_refundVars, NEW r \in Jobs, state[r] # "unknown",
           stalls[r] = 0
    PROVE  \/ status'[r] = status[r]
           \/ \E w \in Slots : work[w] = r /\ Process(w)
           \/ Settled(r) /\ status'[r] = None /\ \A w \in Slots : work[w] # r
<1>1. ASSUME NEW q \in Jobs, Create(q) \/ RequestRefund(q) \/ Handle(q) \/ PurgeRefund(q)
      PROVE  \/ status'[r] = status[r]
             \/ Settled(r) /\ status'[r] = None /\ \A w \in Slots : work[w] # r
  BY <1>1 DEF Create, RequestRefund, Handle, CheckTransaction, CheckExisting, EnqueueRefund, PurgeRefund, SetStatus,
     docs, RefundInv, RefundTypeOK, RequestInv
<1>2. ASSUME NEW w \in Slots, Process(w), work[w] # r
      PROVE  status'[r] = status[r]
  BY <1>2
  DEF Process, RejectOverLimit, FindTransaction, FailMissing, FindCompleted, MarkProcessing,
      MarkCompleted, MarkTransaction, AuditRefund, RecordFailure, ReturnJob, ThrowJob, Write, SetStatus, docs,
      RefundInv, RefundTypeOK
<1>3. QED
  BY <1>1, <1>2
  DEF RefundNext, RemoveTransaction, Begin, Redis, Shutdown, WorkerCrash, Aside, refundVars, docs

\* A run gets to its last two updates by completing its document, with one slot at
\* work on the job.
LEMMA CompletingOwn ==
    ASSUME QueueInv, RefundInv, OwnInv, [RefundNext]_refundVars, NEW w \in Slots,
           at'[w] \in {"transacting", "auditing"}, stalls'[work'[w]] = 0
    PROVE  status'[work'[w]] = "completed"
<1>1. CASE Process(w)
  BY <1>1, QueueAssumption
  DEF Process, RejectOverLimit, FindTransaction, FailMissing, FindCompleted, MarkProcessing,
      MarkCompleted, MarkTransaction, AuditRefund, RecordFailure, ReturnJob, ThrowJob, Write, SetStatus, Move,
      queueVars, RefundInv, RefundTypeOK, QueueTypeOK, OwnInv
<1>2. CASE ~Process(w)
  <2>1. at'[w] = at[w] /\ work'[w] = work[w] /\ at[w] # "idle"
    BY <1>2, RunMovesItself
  <2>2. work[w] \in Jobs /\ state[work[w]] # "unknown" /\ work[w] # None
    BY <2>1, QueueAssumption DEF RefundInv, RefundTypeOK, QueueInv, QueueTypeOK, RunnersInv
  <2>3. stalls[work[w]] = 0
    BY <2>1, <2>2, StallsGrow, StepDrives
  <2>4. \A v \in Slots : work[v] = work[w] => v = w
    BY <2>2, <2>3 DEF QueueInv, RunnersInv
  <2>5. status'[work[w]] = status[work[w]]
    BY <1>2, <2>2, <2>3, <2>4, OwnDocument
  <2>6. QED
    BY <2>1, <2>2, <2>3, <2>5 DEF OwnInv
<1>3. QED
  BY <1>1, <1>2

LEMMA ReturningOwn ==
    ASSUME QueueInv, RefundInv, OwnInv, [RefundNext]_refundVars, NEW w \in Slots,
           at'[w] = "return", stalls'[work'[w]] = 0
    PROVE  \/ Gone(work[w])' \/ AnotherPaid(work[w])'
           \/ status'[work[w]] \in {"completed", "rejected"}
<1> DEFINE r == work[w]
<1>1. /\ work'[w] = r /\ at[w] # "idle" /\ r \in Jobs /\ want[r] # None /\ r # None
  BY ReturnFrom, RunnersWant, QueueAssumption
<1>2. stalls[r] = 0 /\ state[r] # "unknown"
  BY <1>1, StallsGrow, StepDrives DEF QueueInv, RunnersInv
<1>3. CASE at[w] = "return"
  <2>1. Gone(r) \/ AnotherPaid(r) \/ status[r] \in {"completed", "rejected"}
    BY <1>1, <1>2, <1>3 DEF OwnInv
  <2>2. \A v \in Slots : work[v] = r => v = w
    BY <1>1, <1>2 DEF QueueInv, RunnersInv
  <2>3. Process(w) => UNCHANGED status
    BY <1>3 DEF Process, RejectOverLimit, FindTransaction, FailMissing, FindCompleted, MarkProcessing,
        MarkCompleted, MarkTransaction, AuditRefund, RecordFailure, ReturnJob, ThrowJob, docs
  <2>4. status'[r] = status[r]
    BY <1>1, <1>2, <2>2, <2>3, OwnDocument
  <2>5. QED
    BY <1>1, <2>1, <2>4, CauseStays
<1>4. CASE at[w] = "reject" /\ status'[r] = "rejected"
  BY <1>4
<1>5. CASE Gone(r)
  BY <1>1, <1>5, CauseStays
<1>6. CASE UNCHANGED status /\ RefundsOf(want[r].tx, {"completed"}) # {}
  <2>1. PICK q \in Jobs : status[q] = "completed" /\ want[q].tx = want[r].tx
    BY <1>6 DEF RefundsOf
  <2>2. CASE q = r
    BY <1>6, <2>1, <2>2
  <2>3. CASE q # r
    <3>1. paid[q] > 0 /\ want[q] # None
      BY <2>1 DEF RefundInv, RequestInv, QueueInv, QueueTypeOK, RunnersInv
    <3>2. AnotherPaid(r)
      BY <2>1, <2>3, <3>1 DEF AnotherPaid, PaidFor
    <3>3. QED
      BY <1>1, <3>2, CauseStays
  <2>4. QED
    BY <2>2, <2>3
<1>7. CASE at[w] = "auditing" /\ UNCHANGED status
  BY <1>1, <1>2, <1>7 DEF OwnInv
<1>8. QED
  BY <1>3, <1>4, <1>5, <1>6, <1>7, ReturnFrom

LEMMA CompletedOwn ==
    ASSUME QueueInv, RefundInv, OwnInv, [RefundNext]_refundVars, NEW r \in Jobs,
           state'[r] = "completed", stalls'[r] = 0
    PROVE  Gone(r)' \/ AnotherPaid(r)' \/ status'[r] \in {"completed", "rejected", None}
<1>1. state[r] # "unknown" /\ want[r] # None
  BY CompletedBy, RunnersWant DEF QueueInv, RunnersInv, RefundInv, RefundTypeOK
<1>2. CASE state[r] = "completed" /\ stalls[r] = 0
  <2>1. \A w \in Slots : work[w] # r
    BY <1>2, QueueAssumption DEF QueueInv, QueueTypeOK, LockInv, RunnersInv
  <2>2. status'[r] \in {status[r], None}
    BY <1>1, <1>2, <2>1, OwnDocument
  <2>3. QED
    BY <1>1, <1>2, <2>2, CauseStays DEF OwnInv
<1>3. ASSUME NEW w \in Slots, at[w] = "return", work[w] = r, UNCHANGED <<status, stalls>>
      PROVE  Gone(r)' \/ AnotherPaid(r)' \/ status'[r] \in {"completed", "rejected", None}
  BY <1>1, <1>3, CauseStays, QueueAssumption DEF OwnInv
<1>4. QED
  BY <1>2, <1>3, CompletedBy

LEMMA OwnStep ==
    ASSUME QueueInv, RefundInv, OwnInv, RefundInv', [RefundNext]_refundVars
    PROVE  OwnInv'
<1>1. ASSUME NEW w \in Slots, at'[w] = "return"
      PROVE  work'[w] = work[w]
  BY <1>1, ReturnFrom
<1>2. QED
  BY <1>1, CompletingOwn, ReturningOwn, CompletedOwn DEF OwnInv, Gone, AnotherPaid

\* What the status endpoint says of a completed refund job has a cause, whatever
\* crashed, was lost, was removed or ran twice at once.
THEOREM StatusIsExplained == RefundSpec => []StatusHasCause
<1>1. RefundInit => ReturnInv /\ OwnInv
  BY DEF RefundInit, QueueInit, ReturnInv, OwnInv
<1>2. QueueInv /\ RefundInv /\ ReturnInv /\ OwnInv => StatusHasCause
  <2>1. ASSUME QueueInv, RefundInv, ReturnInv, OwnInv, NEW r \in Jobs, state[r] = "completed"
        PROVE  /\ RefundStatus(r) = "not_found" => want[r].over \/ Gone(r) \/ SomePaid(r)
               /\ RefundStatus(r) \in {"processing", "failed"} =>
                      Gone(r) \/ stalls[r] > 0 \/ AnotherPaid(r)
    <3>1. stalls[r] \in Nat
      BY <2>1 DEF QueueInv, QueueTypeOK
    <3>2. QED
      BY <2>1, <3>1, RefundAssumption DEF ReturnInv, OwnInv, RefundStatus, Statuses
  <2>2. QED
    BY <2>1 DEF StatusHasCause, Gone, SomePaid, AnotherPaid
<1>3. QED
  BY <1>1, <1>2, RefundInvariant, ReturnStep, OwnStep, PTL DEF RefundSpec
--------------------------------------------------------------------------------
(* A second payment of a transaction has a cause *)

\* Two runs at work on one transaction have met there.
MetInv ==
    \A v, w \in Slots :
        v # w /\ work[v] # None /\ work[w] # None /\ want[work[v]].tx = want[work[w]].tx =>
            want[work[w]].tx \in met

\* A run about to pay still has no completed refund of its transaction next to it,
\* unless another run met it there.
CheckedInv ==
    \A w \in Slots : at[w] = "processing" /\ want[work[w]].tx \notin met =>
        RefundsOf(want[work[w]].tx, {"completed"}) = {}

\* A run that had its refund made, and has gone on from there.
Past(w) ==
    \/ at[w] \in {"completing", "failing", "throw"}
    \/ at[w] \in {"transacting", "auditing", "return"} /\ status[work[w]] = "completed"

\* A refund that was paid by a run that is not counted as an attempt or a stall is
\* on record as completed, unless that run is still there or has died.
OnceInv ==
    \A r \in Jobs :
        /\ state[r] = "active" => owner[r] \in Slots
        /\ paid[r] > 0 /\ made[r] = 0 /\ stalls[r] = 0 =>
             \/ state[r] = "completed" /\ status[r] \in {"completed", None}
             \/ state[r] = "active" /\ (Orphaned(r) \/ Past(owner[r]))

\* A slot that does not begin a run keeps its job or lets it go, and no meeting is
\* forgotten.
LEMMA WorkOrNone ==
    ASSUME QueueInv, RefundInv, [RefundNext]_refundVars,
           ~\E w \in Slots, j \in Jobs : Begin(w, j)
    PROVE  /\ \A w \in Slots : work'[w] \in {work[w], None}
           /\ UNCHANGED met
<1>1. ASSUME NEW w \in Slots, Process(w)
      PROVE  UNCHANGED met /\ \A v \in Slots : work'[v] \in {work[v], None}
  BY <1>1
  DEF RefundInv, RefundTypeOK, QueueTypeOK, Process, RejectOverLimit, FindTransaction, FailMissing, FindCompleted,
      MarkProcessing, MarkCompleted, MarkTransaction, AuditRefund, RecordFailure, ReturnJob, ThrowJob, Complete,
      FailRun, Free, queueVars
<1>2. CASE Redis \/ Shutdown \/ WorkerCrash
  BY <1>2
  DEF RefundInv, RefundTypeOK, QueueTypeOK, Redis, Shutdown, WorkerCrash, Aside, StallFound, DlqAdded, FailStalled,
      StopWorkers, ExitIdle, Crash, EndProcess
<1>3. CASE \/ \E q \in Jobs : Create(q) \/ RequestRefund(q) \/ Handle(q) \/ PurgeRefund(q)
           \/ \E t \in Transactions : RemoveTransaction(t)
           \/ UNCHANGED refundVars
  BY <1>3 DEF Create, RequestRefund, Handle, CheckTransaction, CheckExisting, EnqueueRefund, AddJob, PurgeRefund,
     RemoveTransaction, refundVars, queueVars
<1>4. QED
  BY <1>1, <1>2, <1>3 DEF RefundNext

LEMMA MetStep ==
    ASSUME QueueInv, RefundInv, MetInv, [RefundNext]_refundVars
    PROVE  MetInv' /\ met \subseteq met'
<1>1. \A w \in Slots : work[w] # None => work[w] \in Jobs /\ want'[work[w]] = want[work[w]]
  BY Monotone DEF QueueInv, QueueTypeOK, RunnersInv, RefundInv, RequestInv
<1>2. ASSUME NEW w \in Slots, NEW j \in Jobs, Begin(w, j)
      PROVE  MetInv' /\ met \subseteq met'
  <2>1. /\ work'[w] = j /\ UNCHANGED want /\ met \subseteq met'
        /\ \A v \in Slots \ {w} : work'[v] = work[v]
        /\ \A v \in Slots \ {w} : work[v] # None /\ want[work[v]].tx = want[j].tx => want[j].tx \in met'
    BY <1>2 DEF Begin, Take, Meet, RefundInv, RefundTypeOK, QueueTypeOK
  <2>2. ASSUME NEW u \in Slots, NEW v \in Slots, u # v, work'[u] # None, work'[v] # None,
               want[work'[u]].tx = want[work'[v]].tx
        PROVE  want[work'[v]].tx \in met'
    <3>1. CASE u = w \/ v = w
      BY <2>1, <2>2, <3>1
    <3>2. CASE u # w /\ v # w
      BY <2>1, <2>2, <3>2 DEF MetInv
    <3>3. QED
      BY <3>1, <3>2
  <2>3. QED
    BY <2>1, <2>2 DEF MetInv
<1>3. CASE ~\E w \in Slots, j \in Jobs : Begin(w, j)
  BY <1>1, <1>3, WorkOrNone DEF MetInv
<1>4. QED
  BY <1>2, <1>3

\* A refund becomes completed by the run that has just had it made.
LEMMA CompletedByRun ==
    ASSUME QueueInv, RefundInv, [RefundNext]_refundVars, NEW q \in Jobs,
           status'[q] = "completed", status[q] # "completed"
    PROVE  \E v \in Slots : /\ at[v] = "completing" /\ work[v] = q
                            /\ at'[v] # "processing" /\ UNCHANGED <<want, work, met>>
<1>1. ASSUME NEW v \in Slots, MarkCompleted(v)
      PROVE  /\ at[v] = "completing" /\ work[v] = q
             /\ at'[v] # "processing" /\ UNCHANGED <<want, work, met>>
  BY <1>1 DEF MarkCompleted, Write, SetStatus, Move, queueVars, RefundInv, RefundTypeOK, QueueTypeOK
<1>2. ASSUME NEW v \in Slots, Process(v), ~MarkCompleted(v)
      PROVE  FALSE
  BY <1>2
  DEF Process, RejectOverLimit, FindTransaction, FailMissing, FindCompleted, MarkProcessing,
      MarkTransaction, AuditRefund, RecordFailure, ReturnJob, ThrowJob, Write, SetStatus, docs,
      RefundInv, RefundTypeOK
<1>3. CASE \E r \in Jobs : Create(r) \/ RequestRefund(r) \/ Handle(r) \/ PurgeRefund(r)
  BY <1>3, RefundAssumption DEF Create, RequestRefund, Handle, CheckTransaction, CheckExisting, EnqueueRefund,
     PurgeRefund, SetStatus, docs, RefundInv, RefundTypeOK, Statuses
<1>4. QED
  BY <1>1, <1>2, <1>3
  DEF RefundNext, RemoveTransaction, Begin, Redis, Shutdown, WorkerCrash, Aside, refundVars, docs

\* A run gets to its payment by finding no completed refund of its transaction.
LEMMA CheckedStep ==
    ASSUME QueueInv, RefundInv, MetInv, CheckedInv, [RefundNext]_refundVars
    PROVE  CheckedInv'
<1> SUFFICES ASSUME NEW w \in Slots, at'[w] = "processing", want'[work'[w]].tx \notin met',
                    NEW q \in Jobs, status'[q] = "completed", want'[q].tx = want'[work'[w]].tx
             PROVE  FALSE
  BY DEF CheckedInv, RefundsOf
<1>1. /\ work'[w] = work[w] /\ at[w] # "idle"
      /\ \/ at[w] = "processing"
         \/ at[w] = "check" /\ UNCHANGED status /\ RefundsOf(want[work[w]].tx, {"completed"}) = {}
  <2>1. CASE Process(w)
    BY <2>1 DEF Process, RejectOverLimit, FindTransaction, FailMissing, FindCompleted, MarkProcessing,
        MarkCompleted, MarkTransaction, AuditRefund, RecordFailure, ReturnJob, ThrowJob, Write, Move, docs,
        queueVars, RefundInv, RefundTypeOK
  <2>2. QED
    BY <2>1, RunMovesItself
<1>2. /\ work[w] \in Jobs /\ work[w] # None /\ want'[work[w]] = want[work[w]]
      /\ want[work[w]].tx \notin met
  BY <1>1, RunnersWant, Monotone, MetStep, QueueAssumption
<1>3. CASE status[q] = "completed"
  <2>1. want'[q] = want[q]
    BY <1>3, Monotone DEF QueueInv, QueueTypeOK, RunnersInv, RefundInv, RequestInv
  <2>2. q \in RefundsOf(want[work[w]].tx, {"completed"})
    BY <1>1, <1>2, <1>3, <2>1 DEF RefundsOf
  <2>3. QED
    BY <1>1, <1>2, <2>2 DEF CheckedInv
<1>4. CASE status[q] # "completed"
  <2>1. PICK v \in Slots : /\ at[v] = "completing" /\ work[v] = q
                           /\ at'[v] # "processing" /\ UNCHANGED <<want, work, met>>
    BY <1>4, CompletedByRun
  <2>2. want[q].tx \in met
    BY <1>1, <1>2, <2>1, QueueAssumption DEF MetInv
  <2>3. QED
    BY <1>1, <1>2, <2>1, <2>2
<1>5. QED
  BY <1>3, <1>4

\* While a job is counted neither as an attempt nor as a stall, its slot holds the
\* lock, and it has run at most once.
LEMMA FirstRun ==
    ASSUME QueueInv, RefundInv, OnceInv, NEW r \in Jobs, made[r] = 0, stalls[r] = 0
    PROVE  /\ \A w \in Slots : work[w] = r => owner[r] = w /\ state[r] = "active"
           /\ state[r] \in {"unknown", "waiting"} => paid[r] = 0
           /\ \A w \in Slots : work[w] = r /\ paid[r] > 0 => Past(w)
<1>1. \A w \in Slots : work[w] = r => owner[r] = w /\ state[r] = "active"
  BY QueueAssumption DEF QueueInv, RunnersInv, LockInv
<1>2. state[r] \in {"unknown", "waiting"} => paid[r] = 0
  BY DEF QueueInv, RunsCounted, RefundInv, RequestInv
<1>3. \A w \in Slots : work[w] = r /\ paid[r] > 0 => Past(w)
  BY <1>1 DEF OnceInv, Orphaned
<1>4. QED
  BY <1>1, <1>2, <1>3

\* Past its payment a run completes its document, fails, or ends.
LEMMA PastGoesOn ==
    ASSUME QueueInv, RefundInv, NEW w \in Slots, Process(w), work'[w] = work[w],
           Past(w) \/ paid'[work[w]] # paid[work[w]]
    PROVE  Past(w)'
<1> USE DEF Write, SetStatus, Move, queueVars, docs, RefundInv, RefundTypeOK, QueueTypeOK, Past
<1>1. CASE MarkProcessing(w)
  BY <1>1 DEF MarkProcessing
<1>2. CASE MarkCompleted(w)
  BY <1>2, QueueAssumption DEF MarkCompleted
<1>3. CASE MarkTransaction(w) \/ AuditRefund(w) \/ RecordFailure(w)
  BY <1>3, QueueAssumption DEF MarkTransaction, AuditRefund, RecordFailure
<1>4. CASE RejectOverLimit(w) \/ FindTransaction(w) \/ FailMissing(w) \/ FindCompleted(w)
  BY <1>4 DEF RejectOverLimit, FindTransaction, FailMissing, FindCompleted
<1>5. CASE ReturnJob(w) \/ ThrowJob(w)
  BY <1>5, QueueAssumption DEF ReturnJob, ThrowJob, Complete, FailRun, Free
<1>6. QED
  BY <1>1, <1>2, <1>3, <1>4, <1>5 DEF Process

\* The lock of an active job is some slot's.
LEMMA OwnedStep ==
    ASSUME QueueInv, OnceInv, [QueueNext]_queueVars, NEW r \in Jobs, state'[r] = "active"
    PROVE  owner'[r] \in Slots
BY DEF OnceInv, QueueInv, QueueTypeOK, QueueNext, Pick, queueVars, AddJob, Take, FailStalled, Complete, FailRun,
    StallFound, DlqAdded, StopWorkers, ExitIdle, Crash, EndProcess, Unlock, HoldsLock

LEMMA AttemptsGrow ==
    ASSUME QueueInv, [QueueNext]_queueVars, NEW r \in Jobs, made'[r] = 0
    PROVE  made[r] = 0
BY DEF QueueInv, QueueTypeOK, QueueNext, Pick, queueVars, AddJob, Take, FailStalled, Complete, FailRun,
    StallFound, DlqAdded, StopWorkers, ExitIdle, Crash, EndProcess

\* What is past its payment stays so, whoever else moves.
LEMMA OnceStep ==
    ASSUME QueueInv, RefundInv, OnceInv, QueueInv', [RefundNext]_refundVars
    PROVE  OnceInv'
<1> DEFINE Kept(r) ==
        \/ state'[r] = "completed" /\ status'[r] \in {"completed", None}
        \/ state'[r] = "active" /\ (Orphaned(r)' \/ Past(owner[r])')
<1>1. \A r \in Jobs : state'[r] = "active" => owner'[r] \in Slots
  BY OwnedStep, StepDrives
<1>2. ASSUME NEW r \in Jobs, paid'[r] > 0, made'[r] = 0, stalls'[r] = 0
      PROVE  Kept(r)
  <2>1. made[r] = 0 /\ stalls[r] = 0
    BY <1>2, AttemptsGrow, StallsGrow, StepDrives
  <2>2. ASSUME NEW w \in Slots, Process(w), work[w] = r
        PROVE  Kept(r)
    <3>1. owner[r] = w /\ state[r] = "active" /\ (paid[r] > 0 => Past(w))
      BY <2>1, <2>2, FirstRun
    <3>2. Past(w) \/ paid'[r] # paid[r]
      BY <1>2, <3>1
    <3>3. CASE ReturnJob(w)
      BY <2>2, <3>1, <3>2, <3>3 DEF ReturnJob, Complete, HoldsLock, docs, Past, QueueInv, QueueTypeOK
    <3>4. CASE ThrowJob(w)
      BY <1>2, <2>1, <2>2, <3>1, <3>4 DEF ThrowJob, FailRun, HoldsLock, QueueInv, QueueTypeOK
    <3>5. CASE ~ReturnJob(w) /\ ~ThrowJob(w)
      <4>1. UNCHANGED <<state, owner, work>>
        BY <2>2, <3>5 DEF Process, RejectOverLimit, FindTransaction, FailMissing, FindCompleted,
            MarkProcessing, MarkCompleted, MarkTransaction, AuditRefund, RecordFailure, queueVars
      <4>2. Past(w)'
        BY <2>2, <3>2, <4>1, PastGoesOn
      <4>3. QED
        BY <3>1, <4>1, <4>2 DEF Past
    <3>6. QED
      BY <3>3, <3>4, <3>5
  <2>3. ASSUME ~\E w \in Slots : Process(w) /\ work[w] = r
        PROVE  Kept(r)
    <3>1. paid[r] > 0
      BY <1>2, <2>3
      DEF RefundNext, Create, RequestRefund, Handle, CheckTransaction, CheckExisting, EnqueueRefund, PurgeRefund,
        RemoveTransaction, Begin, Process, RejectOverLimit, FindTransaction, FailMissing, FindCompleted,
        MarkProcessing, MarkCompleted, MarkTransaction, AuditRefund, RecordFailure, ReturnJob, ThrowJob, Redis,
        Shutdown, WorkerCrash, Aside, refundVars, docs, RefundInv, RefundTypeOK
    <3>2. state[r] \in {"active", "completed"}
      BY <2>1, <3>1, FirstRun, QueueAssumption DEF OnceInv
    <3>3. CASE state[r] = "completed"
      <4>1. state'[r] = "completed" /\ status[r] \in {"completed", None}
        BY <2>1, <3>1, <3>3, StepDrives, SettledStays DEF OnceInv, Settled
      <4>2. status'[r] \in {status[r], None}
        BY <2>1, <2>3, <3>3, OwnDocument
      <4>3. QED
        BY <4>1, <4>2
    <3>4. CASE state[r] = "active"
      <4> DEFINE u == owner[r]
      <4>1. u \in Slots /\ (Orphaned(r) \/ Past(u))
        BY <2>1, <3>1, <3>4 DEF OnceInv
      <4>2. /\ state'[r] = "active" /\ owner'[r] = u
            /\ status'[r] = status[r]
            /\ work'[u] # r \/ (work[u] = r /\ at'[u] = at[u])
        <5>1. status'[r] = status[r]
          BY <2>1, <2>3, <3>4, OwnDocument DEF Settled
        <5>2. ASSUME NEW w \in Slots, Process(w), work[w] # r
              PROVE  /\ state'[r] = state[r] /\ owner'[r] = u
                     /\ work'[u] # r \/ (work[u] = r /\ at'[u] = at[u])
          BY <4>1, <5>2, QueueAssumption
          DEF Process, RejectOverLimit, FindTransaction, FailMissing, FindCompleted, MarkProcessing,
            MarkCompleted, MarkTransaction, AuditRefund, RecordFailure, ReturnJob, ThrowJob, Complete, FailRun,
            Free, Unlock, Write, Move, queueVars, QueueInv, QueueTypeOK, RefundInv, RefundTypeOK
        <5>3. CASE \E w \in Slots, j \in Jobs : Begin(w, j)
          BY <3>4, <4>1, <5>1, <5>3 DEF Begin, Take, Move, QueueInv, QueueTypeOK, RefundInv, RefundTypeOK
        <5>4. CASE Redis \/ Shutdown \/ WorkerCrash
          BY <1>2, <2>1, <3>4, <4>1, <5>1, <5>4, QueueAssumption
          DEF Redis, Shutdown, WorkerCrash, Aside, StallFound, DlqAdded, FailStalled, Unlock,
            StopWorkers, ExitIdle, Crash, EndProcess, QueueInv, QueueTypeOK
        <5>5. CASE \/ \E q \in Jobs : Create(q) \/ RequestRefund(q) \/ Handle(q) \/ PurgeRefund(q)
                   \/ \E t \in Transactions : RemoveTransaction(t)
                   \/ UNCHANGED refundVars
          BY <3>4, <4>1, <5>1, <5>5
          DEF Create, RequestRefund, Handle, CheckTransaction, CheckExisting, EnqueueRefund, AddJob, PurgeRefund,
            RemoveTransaction, refundVars, queueVars, QueueInv, QueueTypeOK
        <5>6. QED
          BY <2>3, <3>4, <5>1, <5>2, <5>3, <5>4, <5>5 DEF RefundNext
      <4>3. work'[u] # r \/ Past(u)'
        BY <4>1, <4>2 DEF Past, Orphaned
      <4>4. QED
        BY <4>2, <4>3 DEF Orphaned, Past
    <3>5. QED
      BY <3>2, <3>3, <3>4
  <2>4. QED
    BY <2>2, <2>3
<1>3. QED
  BY <1>1, <1>2 DEF OnceInv

\* A refund of the transaction that is not unfinished, and was paid, has a run that
\* the paying one met.
LEMMA PaysForCause ==
    ASSUME QueueInv, RefundInv, MetInv, CheckedInv, OnceInv, NEW w \in Slots,
           at[w] = "processing", want[work[w]].tx \notin met, NEW q \in PaidFor(want[work[w]].tx)
    PROVE  Unfinished(q)
<1>1. /\ q \in Jobs /\ want[q].tx = want[work[w]].tx /\ paid[q] > 0
      /\ work[w] \in Jobs
  BY RunnersWant DEF PaidFor
<1>2. status[q] # "completed"
  BY <1>1 DEF CheckedInv, RefundsOf
<1>3. made[q] \in Nat /\ stalls[q] \in Nat
  BY <1>1 DEF QueueInv, QueueTypeOK
<1>4. ASSUME made[q] = 0, stalls[q] = 0, ~Orphaned(q)
      PROVE  status[q] = None
  <2>1. CASE state[q] = "active" /\ Past(owner[q])
    <3>1. owner[q] \in Slots /\ work[owner[q]] = q
      BY <1>1, <1>4, <2>1 DEF OnceInv, Orphaned
    <3>2. owner[q] # w
      BY <2>1 DEF Past
    <3>3. want[work[w]].tx \in met
      BY <1>1, <3>1, <3>2, QueueAssumption DEF MetInv
    <3>4. QED
      BY <3>3
  <2>2. QED
    BY <1>1, <1>2, <1>4, <2>1 DEF OnceInv
<1>5. QED
  BY <1>2, <1>3, <1>4 DEF Unfinished

\* A transaction is paid for again only if two runs met at it, or if no refund of
\* it that was paid is on record as completed, each for a reason of its own.
THEOREM PaidAgainIsExplained == RefundSpec => PaidAgainHasCause
<1> DEFINE Inv == MetInv /\ CheckedInv /\ OnceInv
           Caused == \A r \in Jobs : paid'[r] # paid[r] =>
                         want[r].tx \in met \/ \A q \in PaidFor(want[r].tx) : Unfinished(q)
<1>1. RefundInit => Inv
  BY DEF RefundInit, QueueInit, MetInv, CheckedInv, OnceInv
<1>2. ASSUME QueueInv, RefundInv, Inv, QueueInv', [RefundNext]_refundVars
      PROVE  Inv'
  BY <1>2, MetStep, CheckedStep, OnceStep
<1>3. ASSUME QueueInv, RefundInv, Inv, [RefundNext]_refundVars
      PROVE  [Caused]_refundVars
  <2> SUFFICES ASSUME NEW r \in Jobs, paid'[r] # paid[r], want[r].tx \notin met, NEW q \in PaidFor(want[r].tx)
               PROVE  Unfinished(q)
    OBVIOUS
  <2>1. PICK w \in Slots : MarkProcessing(w) /\ work[w] = r
    BY <1>3
    DEF RefundNext, Create, RequestRefund, Handle, CheckTransaction, CheckExisting, EnqueueRefund, PurgeRefund,
      RemoveTransaction, Begin, Process, RejectOverLimit, FindTransaction, FailMissing, FindCompleted,
      MarkProcessing, MarkCompleted, MarkTransaction, AuditRefund, RecordFailure, ReturnJob, ThrowJob, Redis,
      Shutdown, WorkerCrash, Aside, refundVars, docs, RefundInv, RefundTypeOK
  <2>2. at[w] = "processing"
    BY <2>1 DEF MarkProcessing
  <2>3. QED
    BY <1>3, <2>1, <2>2, PaysForCause
<1>4. PaidAgainHasCause <=> [][Caused]_refundVars
  BY PTL DEF PaidAgainHasCause
<1> HIDE DEF Inv, Caused
<1>5. QED
  BY <1>1, <1>2, <1>3, <1>4, RefundInvariant, PTL DEF RefundSpec
================================================================================
