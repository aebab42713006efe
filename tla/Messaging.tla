------------------------------- MODULE Messaging -------------------------------
(***************************************************************************)
(* Messages: sendMessageWithFallback, which stores a document and asks one *)
(* provider and then perhaps another; the API requests that call it; and   *)
(* processMessagingRetry, which a slot of the worker runs on a job of the  *)
(* messaging_retry queue for a message an earlier attempt did not deliver. *)
(*                                                                         *)
(* The documents retried and their jobs come from other services: nothing  *)
(* in the repository stores a message_id or enqueues such a job.           *)
(***************************************************************************)
EXTENDS JobQueue

CONSTANTS Messages,      \* message ids of retry jobs
          Callers,       \* API requests that send a message of their own
          WithFallback,  \* the messages and callers that name a second channel
          MaxRetries,    \* "max 5 retries"
          Faults         \* database calls may fail, providers fail after they took it

ASSUME MessagingAssumption ==
    /\ Callers \cap (Slots \cup Messages) = {} /\ IsFiniteSet(Callers)
    /\ WithFallback \subseteq Messages \cup Callers
    /\ MaxRetries \in Nat
    /\ Faults \in BOOLEAN

VARIABLES
    of,        \* job.data.message_id of each job
    status,    \* status of the document of each message id
    count,     \* its retry_count
    at,        \* where each run and each caller waits
    seen,      \* retryCount of the run
    copy,      \* status of the document a send in progress has inserted
    sentDocs,  \* number of documents that say sent, by what was sent
    taken,     \* history: how often a provider took it
    tried,     \* history: how often a run began to send the message
    met        \* history: messages two runs were at work on at once

docs          == <<status, count, sentDocs, taken>>
local         == <<seen, copy>>
messagingVars == <<queueVars, of, docs, at, local, tried, met>>

Senders == Slots \cup Callers
Sendable == Messages \cup Callers

MessagingInit ==
    /\ QueueInit
    /\ of \in [Jobs -> Messages]
    /\ status \in [Messages -> {"absent", "failed"}]
    /\ count = [m \in Messages |-> 0]
    /\ at = [a \in Senders |-> "idle"]
    /\ seen = [w \in Slots |-> 0]
    /\ copy = [a \in Senders |-> "none"]
    /\ sentDocs = [x \in Sendable |-> 0] /\ taken = [x \in Sendable |-> 0]
    /\ tried = [m \in Messages |-> 0]
    /\ met = {}
--------------------------------------------------------------------------------
Move(a, where) == at' = [at EXCEPT ![a] = where]
Fail(a) == Move(a, IF a \in Slots THEN "throw" ELSE "threw")
Message(a) == IF a \in Slots THEN of[work[a]] ELSE a

\* updateOne by message_id of status and retry_count, without effect when there
\* is no such document.
Exists(m) == status[m] \notin {"absent", "purged"}
Set(m, s, n) ==
    IF Exists(m)
    THEN status' = [status EXCEPT ![m] = s] /\ count' = [count EXCEPT ![m] = n]
    ELSE UNCHANGED <<status, count>>

\* The update is applied and the run goes on, or it is reported as failed,
\* applied or not.
Write(w, s, n, next) ==
    \/ Set(Message(w), s, n) /\ Move(w, next)
    \/ Faults /\ (Set(Message(w), s, n) \/ UNCHANGED <<status, count>>) /\ Fail(w)
--------------------------------------------------------------------------------
(* sendMessageWithFallback, of a run or of an API request *)

\* getDb, the template and the insert; the provider is asked before the next await.
InsertCopy(a) ==
    /\ at[a] = "insert"
    /\ \/ Move(a, "call") /\ copy' = [copy EXCEPT ![a] = "pending"]
       \/ Faults /\ Fail(a) /\ UNCHANGED copy
    /\ UNCHANGED <<queueVars, of, docs, seen, tried, met>>

\* The provider takes it, refuses it (or is not configured), or takes it and the
\* answer is lost, which attempt() cannot tell from a refusal.
AskProvider(a) ==
    /\ at[a] = "call"
    /\ \/ /\ taken' = [taken EXCEPT ![Message(a)] = @ + 1]
          /\ Move(a, "sent") \/ (Faults /\ Move(a, "refused"))
       \/ Move(a, "refused") /\ UNCHANGED taken
    /\ UNCHANGED <<queueVars, of, status, count, sentDocs, local, tried, met>>

\* What the caller of sendMessageWithFallback does with result.ok.
Returned(a, ok) ==
    Move(a, IF a \in Slots THEN IF ok THEN "deliver" ELSE "undelivered"
                           ELSE IF ok THEN "told sent" ELSE "told failed")

\* The update of the copy, after which a failed first attempt goes on to the
\* fallback channel.  The audit log of a failed attempt may fail unnoticed.
RecordAlwaysOk(a) ==
    /\ at[a] \in {"sent", "refused"}
    /\ sentDocs' = IF at[a] = "sent" THEN [sentDocs EXCEPT ![Message(a)] = @ + 1] ELSE sentDocs
    /\ Returned(a, TRUE)
    /\ copy' = [copy EXCEPT ![a] = "none"]
    /\ UNCHANGED <<queueVars, of, status, count, seen, taken, tried, met>>
RecordAttempt(a) ==
    LET ok == at[a] = "sent"
        Applied == sentDocs' = IF ok THEN [sentDocs EXCEPT ![Message(a)] = @ + 1] ELSE sentDocs
        another == ~ok /\ copy[a] = "pending" /\ Message(a) \in WithFallback
    IN
    /\ at[a] \in {"sent", "refused"}
    /\ \/ Applied /\ (IF another THEN Move(a, "call") ELSE Returned(a, ok))
       \/ Faults /\ (Applied \/ UNCHANGED sentDocs) /\ Fail(a)
    /\ copy' = [copy EXCEPT ![a] = IF at'[a] = "call" THEN "failed" ELSE "none"]
    /\ UNCHANGED <<queueVars, of, status, count, seen, taken, tried, met>>

Send(a) == InsertCopy(a) \/ AskProvider(a) \/ RecordAttempt(a)

\* A well-formed POST /messages, a code to send or a refund to announce.
Request(c) ==
    /\ at[c] = "idle"
    /\ Move(c, "insert")
    /\ UNCHANGED <<queueVars, of, docs, local, tried, met>>
--------------------------------------------------------------------------------
(* processMessagingRetry, run by slot w *)

\* A service outside the repository enqueues a retry.
Schedule(j) == AddJob(j) /\ UNCHANGED <<of, docs, at, local, tried, met>>

Idle == {"idle", "return", "throw"}
Begin(w, j) ==
    /\ Take(w, j)
    /\ Move(w, "find")
    /\ met' = IF \E x \in Slots \ {w} : at[x] \notin Idle /\ Message(x) = of[j]
              THEN met \cup {of[j]} ELSE met
    /\ UNCHANGED <<of, docs, local, tried>>

FindUnlimited(w) ==
    LET m == Message(w) IN
    /\ at[w] = "find"
    /\ Move(w, IF Exists(m) /\ status[m] # "delivered" THEN "count" ELSE "return")
    /\ seen' = [seen EXCEPT ![w] = IF at'[w] = "count" THEN count[m] ELSE 0]
    /\ UNCHANGED <<queueVars, of, docs, copy, tried, met>>
FindAnyStatus(w) ==
    LET m == Message(w) IN
    /\ at[w] = "find"
    /\ Move(w, IF Exists(m) /\ count[m] < MaxRetries THEN "count" ELSE "return")
    /\ seen' = [seen EXCEPT ![w] = IF at'[w] = "count" THEN count[m] ELSE 0]
    /\ UNCHANGED <<queueVars, of, docs, copy, tried, met>>
Find(w) ==
    LET m == Message(w) IN
    /\ at[w] = "find"
    /\ \/ Faults /\ Fail(w)
       \/ ~Exists(m) /\ Move(w, "return")
       \/ status[m] \in {"delivered", "sent"} /\ Move(w, "return")
       \/ Exists(m) /\ status[m] \notin {"delivered", "sent"}
          /\ Move(w, IF count[m] >= MaxRetries THEN "exceed" ELSE "count")
    /\ seen' = [seen EXCEPT ![w] = IF at'[w] = "count" THEN count[m] ELSE 0]
    /\ UNCHANGED <<queueVars, of, docs, copy, tried, met>>

MarkExceeded(w) ==
    /\ at[w] = "exceed"
    /\ Write(w, "failed", count[Message(w)], "return")
    /\ UNCHANGED <<queueVars, of, sentDocs, taken, local, tried, met>>

\* retry_count becomes what was read plus one; then the jitter delay.
CountRetry(w) ==
    LET m == Message(w) IN
    /\ at[w] = "count"
    /\ Write(w, "retrying", seen[w] + 1, "insert")
    /\ tried' = IF at'[w] = "insert" THEN [tried EXCEPT ![m] = @ + 1] ELSE tried
    /\ seen' = [seen EXCEPT ![w] = 0]
    /\ UNCHANGED <<queueVars, of, sentDocs, taken, copy, met>>

MarkDelivered(w) ==
    /\ at[w] = "deliver"
    /\ Write(w, "delivered", count[Message(w)], "return")
    /\ UNCHANGED <<queueVars, of, sentDocs, taken, local, tried, met>>

MarkFailedReturns(w) ==
    /\ at[w] = "undelivered"
    /\ Write(w, "retry_failed", count[Message(w)], "return")
    /\ UNCHANGED <<queueVars, of, sentDocs, taken, local, tried, met>>
MarkRetryFailed(w) ==
    /\ at[w] = "undelivered"
    /\ Write(w, "retry_failed", count[Message(w)], "throw")
    /\ UNCHANGED <<queueVars, of, sentDocs, taken, local, tried, met>>

ReturnJob(w) ==
    /\ at[w] = "return" /\ Complete(w) /\ Move(w, "idle")
    /\ UNCHANGED <<of, docs, local, tried, met>>
ThrowJob(w) ==
    /\ at[w] = "throw" /\ FailRun(w) /\ Move(w, "idle")
    /\ UNCHANGED <<of, docs, local, tried, met>>

Process(w) ==
    \/ Find(w) \/ MarkExceeded(w) \/ CountRetry(w) \/ Send(w)
    \/ MarkDelivered(w) \/ MarkRetryFailed(w) \/ ReturnJob(w) \/ ThrowJob(w)
--------------------------------------------------------------------------------
(* The rest of the system *)

\* processDailyCleanup, step 6: delivered messages go after 30 days.
PurgeDelivered(m) ==
    /\ status[m] = "delivered"
    /\ status' = [status EXCEPT ![m] = "purged"]
    /\ UNCHANGED <<queueVars, of, count, sentDocs, taken, at, local, tried, met>>

\* BullMQ, the 'failed' handler and SIGTERM.
Aside == UNCHANGED <<of, docs, at, local, tried, met>>
Redis ==
    /\ \/ \E j \in Jobs : StallFound(j) \/ DlqAdded(j) \/ \E w \in Slots : FailStalled(w, j)
       \/ StopWorkers \/ ExitIdle
    /\ Aside

WorkerCrash ==
    /\ Crash
    /\ at' = [a \in Senders |-> IF a \in Slots THEN "idle" ELSE at[a]]
    /\ seen' = [w \in Slots |-> 0]
    /\ copy' = [a \in Senders |-> IF a \in Slots THEN "none" ELSE copy[a]]
    /\ UNCHANGED <<of, docs, tried, met>>

MessagingNext ==
    \/ \E j \in Jobs : Schedule(j)
    \/ \E w \in Slots : Process(w) \/ \E j \in Jobs : Begin(w, j)
    \/ \E c \in Callers : Request(c) \/ Send(c)
    \/ \E m \in Messages : PurgeDelivered(m)
    \/ Redis \/ WorkerCrash

MessagingSpec == MessagingInit /\ [][MessagingNext]_messagingVars
--------------------------------------------------------------------------------
(* Properties *)

Awaits == {"find", "exceed", "count", "insert", "call", "sent", "refused", "deliver",
           "undelivered", "return", "throw"}
Answers == {"told sent", "told failed", "threw"}

\* Every variable holds a value of its type; a slot is at an await exactly when
\* it runs a job, and a send has a copy from its insert to its last update.
MessagingTypeOK ==
    /\ QueueTypeOK
    /\ of \in [Jobs -> Messages]
    /\ status \in [Messages -> {"absent", "failed", "retrying", "delivered", "retry_failed", "purged"}]
    /\ count \in [Messages -> Nat] /\ tried \in [Messages -> Nat] /\ met \subseteq Messages
    /\ at \in [Senders -> Awaits \cup Answers \cup {"idle"}]
    /\ seen \in [Slots -> Nat]
    /\ copy \in [Senders -> {"none", "pending", "failed"}]
    /\ sentDocs \in [Sendable -> Nat] /\ taken \in [Sendable -> Nat]
    /\ \A w \in Slots : at[w] = "idle" <=> work[w] = None
    /\ \A a \in Senders : at[a] \in {"call", "sent", "refused"} <=> copy[a] # "none"

\* No document says sent, no message delivered and no request is told ok unless a
\* provider took it: whichever channel it was, whatever failed before.
ReportedWasTaken ==
    /\ \A x \in Sendable : sentDocs[x] <= taken[x]
    /\ \A m \in Messages : status[m] = "delivered" => sentDocs[m] > 0
    /\ \A c \in Callers : at[c] = "told sent" => sentDocs[c] = 1

\* A message is tried at most MaxRetries times over all its jobs, crashes and
\* retries, unless two runs of it met: then one may count over the other.
RetriesWithinLimit ==
    \A m \in Messages :
        /\ count[m] <= MaxRetries
        /\ m \notin met => tried[m] <= count[m]

\* A delivered message stays delivered and is not sent again, unless two runs of
\* it met: then the later writes retrying or retry_failed over it.
DeliveredIsFinal ==
    [][\A m \in Messages : status[m] = "delivered" /\ m \notin met =>
         status'[m] \in {"delivered", "purged"} /\ taken'[m] = taken[m]]_messagingVars

\* A retry job completes only when there is nothing left to do for its message:
\* no job that could still deliver it is dropped as done.
CompletedLeavesNothing ==
    \A j \in Jobs : state[j] = "completed" /\ of[j] \notin met =>
        \/ status[of[j]] \in {"absent", "delivered", "purged"}
        \/ count[of[j]] >= MaxRetries
================================================================================
