# Verification of SB-node-n8n

TLA+ models of the Node service that takes signed webhooks, forwards them to n8n,
and runs refunds, flows and housekeeping on BullMQ workers over one MongoDB. Paths
below are relative to the repository (`src/` stands for its TypeScript sources).

* [1. The system](#1-the-system): components, state, interactions
* [2. What is hard in it](#2-what-is-hard-in-it)
* [3. The modules](#3-the-modules): how each corresponds to the code
* [4. The runs](#4-the-runs): what TLC checks, with which bounds
* [5. Fairness](#5-fairness)
* [6. The proofs](#6-the-proofs)
* [7. Where code and documents disagree](#7-where-code-and-documents-disagree)
* [8. What is not modelled](#8-what-is-not-modelled)
* [9. Plan](#9-plan)

To check: `tlc -config X.cfg M` for each `X.cfg`, where `M` is the MC module of the
run (table in section 4), and `tlapm M.tla` for each `*Proofs.tla`.

## 1. The system

`pm2.config.js` starts three programs: `api` (`src/server.ts`), a cluster of at least
two processes, `worker` (`src/workers/index.ts`), one process with
`QUEUE_CONCURRENCY` slots for each queue, and `scheduler` (`src/queue/index.ts`), a module that
defines `enqueue` and, run as a program, enqueues nothing. They share nothing but MongoDB and Redis.

| Component | Sources | State | Operations | Talks to |
|---|---|---|---|---|
| Webhook ingress | `api/webhook.ts`, `middleware/{blockList,rateLimit,verifySignature,signature,idempotency,validatePayload,dedup,errorHandler}.ts`, `controllers/webhookController.ts`, `services/eventRouter.ts`, `lib/{http,hmac}.ts` | collections `signature_replays`, `idempotency_keys`, `processed_events`, each with a unique and a TTL index; the answer of each request | POST /webhook/entry: sender checks, signature, replay guard, idempotency, validation, deduplication, forwarding with retries, recording of the answer | n8n over HTTP; MongoDB |
| Job queue | `queue/{processor,index,worker}.ts`, `workers/index.ts` | jobs, attempts, stalls and locks in Redis; the slots; one dead letter queue per queue | enqueue, take, complete, fail, stalled, add to the dead letter queue, close at SIGTERM | called by the controllers, calls the processors |
| Refunds | `controllers/refundController.ts`, `workers/refundExecutor.ts` | collections `refunds`, `transactions`, `audit_logs` | POST /refunds, the refund job, GET /refunds/:id | queue; purged by the daily cleanup |
| Pay, refund requests | `services/payments.ts`, `controllers/payController.ts` | collection `refunds` | POST /refunds/request | messaging (approval alert) |
| One-time passwords | `services/otp.ts`, `controllers/otpController.ts` | collection `otps` | generate, verify | messaging; expired by TTL |
| Flow executor | `controllers/flowController.ts`, `workers/flowExecutor.ts` | collection `flow_executions` | POST /flow/execute, the flow job, the status endpoint | queue |
| Daily cleanup | `workers/cleanupDaily.ts`, `services/audit.ts` | collections `audit_logs`, `audit_logs_archive`; deletes in most others | the daily_cleanup job | queue |
| Users | `controllers/userController.ts` | collection `users`, unique indexes on email and phone | create, change, read | - |
| Connection and indexes | `db/mongo.ts`, `db/indexes.ts`, `services/db.ts` | the module variables `client` and `db`; every index | getDb, ensureIndexes | everybody |
| Messaging and its retry worker | `services/messaging.ts`, `services/templates.ts`, `workers/messagingRetry.ts` | collection `messages` | send with fallback, retry | Twilio, SendGrid, Slack |
| Audit rate limit | `middleware/auditRateLimit.ts` | collection `audit_rate_limits` | checkAuditRateLimit | called by nothing |
| OCR worker | `workers/ocrProcessor.ts` | one document | a placeholder | queue |
| Authentication | `middleware/internalAuth.ts`, `controllers/authController.ts` | `users.last_login_at` | login, token checks | - |
| Storage, verification, alerts, health, metrics | the controllers and services of these names | none of their own | one call each | MongoDB, providers |
| Process start and stop | `server.ts`, `workers/index.ts`, `config/env.ts`, `pm2.config.js` | - | listen after getDb; on SIGTERM the API stops after ten seconds, the worker after its runs | - |
| Migrations | `migrations/*.js`, `migrate-mongo-config.js` | the changelog; every index | up, down | MongoDB |

What makes the main ones correct:

* **Ingress.** Only a signed, fresh, valid delivery reaches n8n; an event is claimed at most once in
  72 hours, and n8n takes a claimed event at most `MAX_N8N_RETRIES` times (a post that timed out may have been
  taken), however many processes, retransmissions and crashes there are; a request is answered exactly once, from a record only if the record is that of
  the same request, and "duplicate" only if there is an original.
* **Queue.** A job runs a bounded number of times, never after it is settled, is
  settled in the end, and is in the dead letter queue only when its attempts are used up.
* **Refunds.** The provider is asked a bounded number of times per refund, never over
  the limit, never without a document, and again for a transaction only after a run that failed, died or
  was overlapped, or after a purge; marks and audit entries are evidence
  of a payment.
* **One-time passwords.** Wrong tries are bounded and counted whatever overlaps.
* **Flows.** What the record of a flow says, and whether the job is completed, agree.
* **Cleanup.** No audit log is lost, and a completed cleanup has archived every one its date finds.
* **Users.** No two users share an email or a phone.
* **Messaging.** Nothing says sent or delivered unless a provider took it; a message is retried
  at most five times and not after it is delivered; no retry job ends with work left.
* **Connection, indexes, migrations.** Who takes requests has the indexes everything above relies
  on; server and migrations can be run in the order the README gives.

## 2. What is hard in it

No code in this repository takes a lock or starts a database transaction. Each
process interleaves its requests at every `await`, several processes do so at once,
and what excludes anything is a unique index, a TTL, or the lock BullMQ holds for a
job and may lose after 30 s. So the hazards are, in this order:

1. *check, await, act*: refunds (look for another refund, then pay), one-time
   passwords (read the attempts, then count), users (look for the email, then insert),
   the retry count of a message, `getDb`;
2. *documents that expire between two steps*: idempotency records, replay guards,
   completed refunds the duplicate check relies on;
3. *a step done and the next one lost*: the claim of an event before its forwarding, the
   payment before its record, the archive before the delete, the failed job before its dead letter;
4. *the same job run again, or twice at once*, because it failed, stalled, or lost its lock;
5. *two programs with a list each of the same indexes*: `ensureIndexes` and the migrations.

`PROJECT.json` lists every such place with its line and the properties about it.

## 3. The modules

| Module | Models | Instances for TLC | Proofs |
|---|---|---|---|
| `EventLedger` | abstract: what the ingress promises n8n | - | - |
| `Webhook` | the ingress; implements `EventLedger` | `MCWebhook` | `WebhookProofs` |
| `JobContract` | abstract: what whoever enqueues a job can rely on | - | - |
| `JobQueue` | queue, worker, dead letter queue; implements `JobContract` | through its extensions | `JobQueueProofs` |
| `Refund` | EXTENDS `JobQueue`: refunds | `MCRefund` | `RefundProofs` |
| `Flow` | EXTENDS `JobQueue`: flows | `MCFlow` | `FlowProofs` |
| `Cleanup` | EXTENDS `JobQueue`: the daily cleanup | `MCCleanup` | `CleanupProofs` |
| `Messaging` | EXTENDS `JobQueue`: sending messages and retrying them | `MCMessaging` | `MessagingProofs` |
| `Otp` | one-time passwords | `MCOtp` | `OtpProofs` |
| `Users` | user accounts | `MCUsers` | `DatabaseProofs` |
| `Indexes` | data: the indexes of `ensureIndexes` and of each migration, up and down | - | - |
| `Schema` | EXTENDS `Indexes`: `getDb`, the processes that wait for it, migrate-mongo | `MCSchema` | `DatabaseProofs` |

Three conventions hold in all of them. An action is the code from one `await` to the
next, and a program counter (`pc`, `cpc`, `at`) names the await an actor waits at. A
database or queue call is applied when its action is taken; where the code
distinguishes success from failure there is a disjunct for a call reported as
failed, *applied or not*. Where failures multiply the states and are of no
interest to a run, the constant `Faults` (`CallsFail` in `Users`) turns them off. History variables
(`admissions`, `starts`, `claims`, `taken`, `paid`, `runs`, `held`, ...) are read by no
action that models code and exist for the properties.

A definition that stands before another and differs from its name by a suffix
(`FreshIgnored` before `Fresh`, `HoldsAnyway` before `HoldsLock`) is a plausible bug: put in
the place of the definition that follows, it must make a run fail. None is part of a
specification.

### Webhook

`pc[r]` walks `unsent`, `arrive`, `guard` (the insert of `signature_replays`), `idem`
(the insert of `idempotency_keys`), `lookup` (the find after a duplicate key), `dedup` (the
insert of `processed_events`), `forward` (a post to n8n), `finish` (the update by the
`finish` listener), `done`, or `lost` with its process. A collection is a set of
documents `[key, exp, ...]`; its unique index is `Fresh`, its TTL index `TtlDelete`, which
may delete an expired document at any later time, as MongoDB's monitor and the
daily cleanup do. A message is `[ts, body, key, sig]`. The signature is computed
from path and body, not from the stamp, and compared after its hex text is decoded (`Signed`, `lib/hmac.ts`), while
the replay guard has the stamp, the text and the body in its key (`GuardKey`): so `sig` is the text, one of
`Texts` if it decodes to the signature of the body, `None` if not. `Canon` maps a raw body to its normalised
payload, so that different bytes can be one event.

* `Arrive` is body parser, block list, rate limiter and the signature check up to its
  first write; 413, 403 and 429 are one outcome, `turned_away`, and may happen to any request.
* In `signature.ts` and `idempotency.ts` an error that is not a duplicate key is
  rethrown from a promise Express 4 does not await. Node then ends the process: this is
  `Crash`, which loses every request of that instance. In `dedup.ts` the wrapper of
  `api/webhook.ts` catches it and answers 500 (`DedupError`).
* Reading the clock and the insert that uses it are one step; the clock ticks between steps.
* `Post` is one iteration of `forwardWithRetry`; a post that failed from our side may
  have been taken by n8n. The backoff is the interleaving of other actions.
* The 16 KB cap on stored answers and the `_idempotent` flag in a replayed body are left out:
  a stored answer is its outcome, a replayed one is marked `replay`.
* `MaxNow` bounds the clock; nothing else is bounded by it.

`EventLedger` has a clock, claims and deliveries: a claim on an event can be taken only if
none is younger than `Window`, and its holder makes n8n take the event at most `MaxPosts`
times. `Webhook` refines it with `Window <- DedupTTL`, `MaxPosts <- MaxAttempts`.

### JobQueue and JobContract

BullMQ is not in the repository; it is modelled from the options `queue/processor.ts` and
`queue/worker.ts` give it (attempts, backoff, lock and stall settings) and marked external.
`state[j]` is the job in Redis, `owner[j]` the slot that holds its lock, `work[w]` what the
slot is running. The two are separate because a slot that cannot renew its lock
runs on: `StallFound` gives the job back while the old run continues, and only
the holder of the lock may move the job (`HoldsLock`). A job found stalled more than
`maxStalledCount` (BullMQ's default, 1) times is failed without being run (`FailStalled`). The
`failed` handler of `worker.ts` awaits `dlq.add` (`leaving`), which is logged if it fails
and lost if the process dies. `Crash` is death and restart by pm2 in one step, bounded
by `MaxCrashes`; the backoff delay is part of `waiting`. At SIGTERM `stopWorkers` closes the workers
one after the other, each waiting for its runs (`StopWorkers`: the slots take nothing more), then
the process exits (`ExitIdle`), whether or not a `failed` handler still waits for `dlq.add`; pm2 kills
a process that takes longer (`Crash` again). `workers/index.ts` and `queue/worker.ts` each
install a handler for the signal; both await the same closing.

`JobContract` forgets slots, locks and reasons: a job is `new`, `open`, `closed`, and is run
only while open, at most `MaxRuns` times; `JobQueue` refines it with
`MaxRuns <- MaxAttempts + MaxStalls`. A processor module extends `JobQueue` and conjoins its own
step with `Take`, `Complete`, `FailRun`, the stop or the crash, and leaves the queue alone otherwise (a lemma of each
proof module), so that what is proved of the queue holds of it.

### Refund

`Create`, `CheckTransaction`, `CheckExisting`, `EnqueueRefund` are `createRefundController`; a
request and its `refund_id` are one. `Begin` to `ThrowJob` are `processRefundExecute`, one
action per await, with the catch block `RecordFailure`, which sets `failed` on whatever
status was reached. The call of the provider is a placeholder in the code and
succeeds: `paid` counts it in the step that continues after the write of `processing`. `met` remembers the
transactions that two runs, of one job or of two, were at work on at once (`Meet`).
`PurgeRefund` is step 8 of the daily cleanup (documents unchanged for 90 days, which no job
can still be working on), `RemoveTransaction` another service. `ENABLE_REFUNDS` is on. The
controller sees only documents that carry a `transaction_id`, which a worker writes: a
queued refund leaves no trace. `RequestRefund` is POST /refunds/request: one document, `accepted` or
`pending_approval`, that no job is made for and that nothing removes. `RefundStatus` is what GET
/refunds/:id answers.

### Otp

One document; verifiers interleave at the find, at argon2, at the delete or the `$inc`,
and at the second find. The handlers have no `try`: a failing call is `Break`. A second
find that finds nothing reports three tries left, as the code does.

### Flow

A plan is the sequence of `on_error` modes of the steps; a step may return or
throw, whatever it does. Every run inserts a record of its own (`execution_id` has the time
in it) and updates that one. Condition steps do not change the path in the code
either. `PurgeRecords` is step 7 of the daily cleanup, which deletes the completed records and leaves
the failed ones: `records` keeps what was ever written, `purged` says what of it is deleted, and `Stored` is
what a query finds. `StatusOf` is what GET /flow/:id answers: the first record of the flow there is.

### Messaging

`sendMessageWithFallback` is three actions: `InsertCopy` up to the insert of its document,
`AskProvider`, and `RecordAttempt`, the update and what follows it, which may be a second
`AskProvider` on the other channel. A provider takes the message and says so, takes it and the
answer is lost, or does not take it; `attempt()` cannot tell the last two apart. The same
three actions serve the callers of the API (`Request`: POST /messages, the code of a one-time password,
the alert of a refund request; they differ in what they do with an exception, which is nothing the
documents show) and the slots that run `processMessagingRetry` (`Find` to `ThrowJob`). `status` and
`count` are the document a retry job names, `sentDocs` the documents of the sends themselves.
Nothing in the repository stores a `message_id` or enqueues such a job: `Schedule` and the
documents of `MessagingInit` are external. `PurgeDelivered` is step 6 of the daily cleanup.
`met` remembers the messages two runs were at work on at once, for which less holds.

### Cleanup

An audit log is named by the day it was written and by whether its `at` is a date (`LogsOf`). What
`auditLog` writes has none: it stores its event masked, and `maskPII` rebuilds every object from its entries, of which a
`Date` has none, so `at` is `{}` and `{ at: { $lt: archiveDate } }` never matches (`OlderThan`). Refunds and
verifications write their logs themselves, with a date. Every day has a log of each kind. `archiveDate`, the find, the ordered
`insertMany`, the `deleteMany` by date and the two ends of the job are actions; the deletes
before and after are two steps that may fail, and are modelled as `TtlDelete`, `PurgeRefund`,
`PurgeRecords` and `PurgeDelivered` where their documents are. `retention_days` belongs to the job, so that
overlapping cleanups can have different dates. Nothing in the repository schedules the job;
`Schedule` is external.

### Users

POST looks for a holder of the email or phone and then inserts; PATCH sets what it is given. The
driver stores an absent field as null and the sparse unique indexes count null as a
value (`NewUser`, `Fresh`). Nothing deletes a user.

### Indexes and Schema

`Indexes` has no variables: it lists, in the order of the code, what `ensureIndexes` creates and the steps of
each migration, with what an error of the step skips (nothing in a `try` of its own, the
rest of the script without one). An index is its collection, key, option and name.

`catalog` is the indexes there are; `Clash` is MongoDB's rule that a name or a key already taken by
another index is an error (codes 85 and 86), and an equal index none. A caller of `getDb`, an API
process before it listens or a job of the worker, connects, and sets `db` (`connected`) before
it awaits `ensureIndexes`, one index at a time (`Ensure`); when that fails the API exits, the job
fails, and `db` stays set. migrate-mongo applies the scripts that are not in the changelog one by one
(`CreateStep`, `DropStep`, `ListStep`, `DropListed`, `Record`) and may die anywhere. `dropped` remembers what a
rollback has dropped. Validators are left out: those of `ensureIndexes` are best effort, and
those of the migrations only warn.

## 4. The runs

Distinct states are those of the last complete search. Runs on `JobQueue` and `Users` say
`CHECK_DEADLOCK FALSE` because their jobs and requests are finite: when all are settled
nothing is left to do. In `Webhook` a crashed instance can always restart, and in `Otp` a verifier
can always ask again, so there deadlock is checked.

**WebhookForward** (`MCWebhook`, 1,076,093 states). Two instances, two requests without header, six
messages: two bodies with one payload, one of them under two texts of its signature, another payload, an invalid
one, an unsigned one, stamps 0 and 1 with one unit of permitted skew. The clock runs to 2; a day and the
life of a claim are 2 units and that of a guard is 1, so a request can arrive on another day, and after the claim or the
guard of the other expired. Two posts at most. Two requests are enough because every property is about a pair of
requests or fewer; the third actor is the environment (clock, TTL, crashes).
Shows: two claims on one event, and two admissions of one stamp, body and text of its signature, lie a whole TTL
apart (`ClaimsSpaced`, `AdmissionsSpaced`); n8n takes only what was signed, admitted, valid
and claimed, in that order (`OnlyVettedForwarded`); "duplicate" has an original
(`DuplicateHasOriginal`), and an original that claimed the event was taken by n8n, is still at
it, died at it, or was refused by n8n; the refinement of `EventLedger` (`ImplementsLedger`).

**WebhookIdempotency** (`MCWebhook`, 721,361 states). Two requests with one key and different bodies
and stamps, records that live one unit of a clock that runs to 2, n8n not
configured, crashes. Shows: record creations of one key lie a TTL apart (`StartsSpaced`);
who executes without having created a record met one that has expired since
(`ExecutionHasCause`); a replayed answer was another request's, for the same body unless the record
was created twice (`ReplayIsGenuine`); an answer is sent once (`AnsweredOnce`); every
request that arrives is answered or lost with its process (`EveryRequestSettles`). One
instance, because what is between two requests here is the collection, not the
process; no symmetry, because a liveness property is checked.

**RefundRetries** (`MCRefund`, 1,459,486 states). Two refund requests and one transaction, two slots, two
attempts, one stall, a crash or a shutdown, purges, a transaction that disappears, any call
failing, amounts above and below the limit: the second request meets every state of the first, and
every retry meets what its first run left. Locks do not lapse here: overlap of two runs comes from two
jobs, and of one job's runs in FlowRuns and MessagingRetries. Shows: the provider is asked neither
over the limit nor without a document (`PaymentsRecorded`); marks and audit entries are evidence of a
payment for that very transaction (`MarksArePaid`); a transaction left unmarked is the trace of a
rerun (`UnmarkedWasRerun`); what GET /refunds/:id answers when the job is completed has a cause
(`StatusHasCause`); a transaction is paid for again only where two runs met at it, or where every refund of it
that was paid is not, or no longer, on record as completed, after a run that failed, stalled or died, or a
purge (`PaidAgainHasCause`).

**RefundTwoJobs** (`MCRefund`, violation). See section 7.

**OtpVerify** (`MCOtp`, 371,557 states). Three verifiers on one password with two tries, expiry after one
unit of a clock that runs to 2. Two tries and three verifiers put more requests in
flight than there are tries. Shows: wrong answers exceed the limit by at most the overlap
(`WrongBounded`), none goes uncounted (`WrongIsCounted`), a refusal never promises more than is
left (`RemainingHonest`), and only verifications that overlap are accepted together
(`AcceptedTogether`).

**FlowRuns** (`MCFlow`, 884,712 states). One flow, plans that combine the three modes and one without
steps, two attempts, one stall, two slots, lapsing locks, a crash or a shutdown, the purge of its
records, any call failing, under fairness (no symmetry). Shows: a completed record has a result for
every step and none that should have stopped it (`CompletedIsHonest`); a completed job has
left a completed record though two runs overlap, and the status endpoint says so unless the
job was run more than once (`CompletedIsReported`); the job is settled (`EveryJobSettles`), whatever
crashes, lapsed locks and the shutdown leave behind.

**MessagingRetries** (`MCMessaging`, 1,522,728 states). The retry job of one message with a second channel, two
attempts, one stall, two slots, lapsing locks, a crash or a shutdown, a limit of two retries, beside a request
without second channel, providers and calls failing either way. The job can be run three times, so it
meets the limit; two runs can meet. Shows: no document says sent, no message delivered and no
caller is told ok unless a provider took it (`ReportedWasTaken`); the retry limit and the end of a
delivered message, both except where two runs met (`RetriesWithinLimit`, `DeliveredIsFinal`); no job ends as
completed with work left (`CompletedLeavesNothing`); and, on this extension of it, what the queue promises:
`DlqIsExhausted` and the refinement `KeepsContract`.

**CleanupRuns** (`MCCleanup`, 555,505 states). Two jobs with retentions 1 and 2 on two slots, two attempts, one
stall, a crash, any call failing, logs of four days, of each day one with a date and one without. Shows: `NoLogLost`,
and that a completed cleanup has archived and deleted the dated logs older than its retention and left the
others where they were (`CompletedMeansArchived`).

**UsersRaces** (`MCUsers`, 636,440 states). Three creations and a change over two emails and a phone, any
call failing. Shows: `ContactsUnique`.

**UsersOptional** (`MCUsers`, violation). See section 7.

**SchemaRuns** (`MCSchema`, 989,635 states). The lists of two collections, `idempotency_keys` (first migration,
dropped by listing) and `audit_rate_limits` (later migrations, dropped by name); an API process, two runs of
jobs, every migration up and down, failing calls, deaths and restarts of everything, at every step.
Two collections are enough because no step relates two of them but by its place in the script.
Shows: an API process that takes requests has its indexes, but for what a rollback dropped since
(`ServedIndexed`); a job that works without one does so beside a job that still ensures them, or in a process
where that failed (`UnindexedHasCause`); no API process takes requests where a migration is applied
and nothing is dropped (`ServerOrMigrations`). Deadlock is checked: a process can always restart.

**SchemaSetup** (`MCSchema`, violation). The full lists, without failures or rollbacks. See section 7.

## 5. Fairness

* `Webhook!Fairness`: a handler that can take its next step does. MongoDB answers, the event loop
  is not blocked, `lib/http` has a timeout of 10 s and the loop of `forwardWithRetry` an upper
  bound. A process may die at any time, which settles its requests as `lost`. Nothing is assumed of
  senders, restarts, the clock or the TTL monitor.
* `JobQueue!QueueFairness`: a waiting job is picked up by some slot, a run ends, and an active job
  that nobody runs is found stalled. pm2 restarts the worker, BullMQ's stalled checker runs
  in it. Weak fairness is per job, not per slot. Crashes stop in the end (`MaxCrashes`): a
  worker that always dies before it takes a job settles nothing, in the code as in the
  model. No fairness on `DlqAdded`: nothing needs it.
* `ExitIdle`: a process that was told to stop and has nothing to run ends, and pm2 starts it again.
* `Flow!FlowFairness` and `Refund!RefundFairness`: the same for the composed actions; every step of a
  flow ends (an http step by its timeout, a delay by its length), every call of the driver is answered.

`FlowRuns` checks liveness under it. `Otp`, `Cleanup`, `Users`, `Messaging` and `Schema` have safety properties
only: what would be their liveness is that of the queue, depends on a sender or an operator, or, for
the cleanup, is false (section 7).

## 6. The proofs

All hold for every value of the constants that satisfies the assumptions of the modules, which TLC
evaluates on every run: any number of requests, instances, jobs, slots, attempts, stalls, tries, TTLs,
any plans of flows, any lists of indexes and scripts. Every invariant and every action property of a run that
must pass is a theorem. The assumptions say

* that times and bounds are natural numbers, that attempts and TTLs are not zero, that `None` is none of the
  values it is absent for, and that different kinds of actors have different names;
* that the slots, the verifiers and the callers are finitely many (`QueueAssumption`, `OtpAssumption`,
  `MessagingAssumption`), where a proof counts them;
* that no key a sender puts into `x-idempotency-key` is the digest of a payload and a day
  (`WebhookAssumption`): the two share the index of `processed_events`, and a sender that computes such a
  digest could be told "duplicate" of an event with another payload;
* that a script never lists and drops on the way up and that the first migration is one strict `createIndex` after
  another (`SchemaAssumption`, `ListsConflict`), one of which gives a name or the fields of an index of
  `ensureIndexes` to another. Both are facts about the lists in `Indexes`; `SchemaRuns` evaluates them on two of
  the collections, `SchemaSetup` on all.

**`WebhookProofs`.**

* `TypeCorrect`. `TypeOK` is not inductive: that an event id has its type depends on the
  message being valid where it is computed, that a stored answer has its type on the request having one.
  `PlaceInv` says for each await what is known there (`WellPlaced`: at `dedup` the body is
  valid and the id set, at `idem` there is a key, at `finish` an answer). Each action is shown to be a
  step of one request that leaves it well placed (`StepOf`).
* `DedupExcludes`, `GuardExcludes` (for the key of the guard, text of the signature included), `FirstWriterWins`. A history spaced by the TTL is not inductive
  either: one must know that while an entry of the history is young, its document is
  still there, so that the unique index refuses a second one. `SpacingInv` says that
  (every entry younger than the TTL has a document that expires no earlier), and that
  no entry is from the future. One lemma says that an insert into a fresh
  collection keeps it (`InsertSpaces`), one that deleting the expired does (`DeleteGuards`), one that time
  does (`LaterGuards`); the three collections use them.
* `IngressImplementsLedger`. Needs, besides, that who forwards holds a claim, who has not reached the
  deduplication has none, and the posts counted bound what n8n took (`ClaimInv`).
  `LedgerStep` maps each action to a step of the ledger or to none.
* `AnswersAreFinal` (`AnsweredOnce`): an answer is given only where `PlaceInv` says there is none yet, and nobody
  gives one at `finish` or later.
* `ForwardedIsVetted`. `VettedInv` carries through the chain what each middleware has established: signed and not
  too early at `guard`, admitted after it, claimed after that at `forward`.
* `DuplicatesHaveOriginals`. A document of `processed_events` always has an owner that is at the forwarding, died
  at it or is done with it (`OriginInv`). `SentInv` relates the event id to message and day: equal ids of requests without
  a key are equal payloads.
* `ExecutionsHaveCause`, `ReplaysAreGenuine`. Who executes without having created its record met one; that it has
  expired must be known of every later moment, so `CauseInv` adds that what the key has now is younger.
  `RecordInv` says of every record which delivery created it and which request of its key gave the answer it holds.

**`JobQueueProofs`.** The invariant is `QueueTypeOK`, `RunsCounted`, `LockInv`, `DlqIsExhausted` and `RunnersInv`.
`RunsCounted`: the runs of a job are its attempts counted, plus its stalls, plus one while it is active; this
is what bounds them. It needs `LockInv`, or a slot that lost its lock could count an
attempt twice. `RunnersInv` is for the modules that extend the queue: two slots that run one job took it
twice, and the only runner of a job that never stalled holds its lock. `QueueKeepsContract` maps the actions to
`Submit`, `Run`, `Close` or a stutter. Every extension is shown to take only steps of the queue or to leave it alone, so
that the contract holds of it too: `RefundKeepsContract`, `FlowKeepsContract`, `RetriesKeepContract`,
`CleanupKeepsContract`, `OnlyExhaustedRetriesLeave`.

**`RefundProofs`.** `RequestInv` and `RunInv` say what is known at each await of the controller and of a run; types and
`PaymentsAreRecorded` follow.

* `MarksAndAuditsArePaid`. Audit entries are bounded by payments only together with the runs that have paid and not
  yet audited (`AuditInv`); without the transaction a mark is for, a mark could be of a request not made yet (`MarksInv`).
* `UnmarkedMeansRerun`. While a refund that is completed and run once is not marked, its only run is about to mark
  it or to fail (`UnmarkedInv`); `RunnersInv` excludes any other.
* `StatusIsExplained`. A run that returns has met a limit, a missing transaction or a payment (`ReturnInv`), and the
  document of a job that never stalled says what its run has written (`OwnInv`).
* `PaidAgainIsExplained`. A run that is about to pay has seen no completed refund of its transaction, and there is still none
  unless another run met it (`CheckedInv`, `MetInv`). A refund that was paid while its job counts neither an attempt nor a stall is
  completed, purged, or in the hands of the run that had it paid, past the payment (`OnceInv`): if that run is alive, the one
  about to pay has met it; if not, the job is orphaned.

**`FlowProofs`.** A run knows what it has passed (`RunInv`), so the record it completes is honest (`CompletedRecordsAreHonest`),
and changes no record but its own: two runs of a job have different ones (`OwnRecords`). That a completed job has a completed
record is not inductive, because a run that completes its record may still fail and write `failed` over it. `CompletedInv` says
there is one that is of no run still going on. For the endpoint, a run adds one record at most (`OneRunInv`).

**`MessagingProofs`.** `ReportsAreTaken` counts what is recorded as sent together with the answers still carried by a run
or a request, and bounds both by what was taken (`TakenInv`). The other three hold where two runs of a message have not met:
a run alone with its message finds the document as it read it (`AloneInv`, `OwnInv`), so the count it writes is one
more than the count there is (`LimitInv`, `TriedInv`) and what a run that returns has seen is still so (`NothingInv`).

**`CleanupProofs`.** The delete goes by date, not by what was archived. Nothing is lost because
no log older than `archiveDate` appears after it was computed (`cut[w] <= day`): until its
delete, whatever the filter of a run matches is in what it found, and after its insert
in the archive (`ArchivedFirst`). `LogsAreKept` follows from `CleanupTypeOK`, `ArchivedFirst` and `NoLogLost`
together. What is archived and deleted up to a date stays so, since logs are written for new days only; that is what
`CompletedHasArchived` rests on (`DoneInv`), together with the fact that no run ever finds, archives or deletes a log without a
date (`DatedOnly`).

**`OtpProofs`.** Neither bound is inductive: a verification that has read the document is counted later. `WrongInv` bounds the
refusals given together with the verifications that may still become one, and `AcceptInv` does so for the acceptances. A
verification enters the sum at the find, while the document is there, and there the count of tries bounds the rest.
`PromiseIsHonest` is an action property that follows from the first part of `WrongInv`.

**`DatabaseProofs`.** On `Users`: the look before the insert plays no part in `ContactsStayUnique`: `WriteUnique` needs only
that the indexes let the document in, and `DifferentIsDisjoint` that no email is a phone. The invariant adds that a
request that waits has what it goes on with (`Waiting`).

On `Schema`, for any lists of indexes, any migrations, processes and failures: who
is at index *k* of the list has the first *k* - 1 indexes, in the catalog or dropped since
(what ensures never removes, what removes remembers), and a process whose `db` is set has finished, is at it, or has
failed; `ApiIsIndexed` and `OnlyEnsuringOrFailure` follow. `ServerExcludesMigrations` needs that no two indexes of the catalog
conflict (`CatalogInv`) and that an applied first migration has created all it creates, or a rollback has dropped some
since (`FirstInv`); the two lists conflict, so an API process that has ensured its own cannot be there as well.

What is only model-checked is liveness, `EveryRequestSettles` and `EveryJobSettles`: it rests on fairness, and neither fairness nor
ENABLED is in the prover's reach. What the three violation runs show is a counterexample and needs no proof. No module has
a recursive definition.

## 7. Where code and documents disagree

Three disagreements are runs that TLC must find violated:

* **RefundTwoJobs**, `OneRefundPerTransaction`. `tests/refund.test.ts:64` expects the second refund of
  a transaction to be refused. Controller and worker look for a completed refund and write one
  later; two jobs on two slots both pay, without any failure.
* **UsersOptional**, `OptionalContacts`. `src/db/indexes.ts:98` calls the indexes "unique sparse for
  optional email/phone". The second user without a phone collides with the null of the first.

* **SchemaSetup**, `SetupWorks`. `README.md:25-31` starts the services, then runs the migrations; `README.md:57-61`
  runs the migrations, then starts the API; `README.md:331` runs them after any upgrade. `ensureIndexes` puts
  `ttl_processed_events_72h` on `created_at` (`src/db/indexes.ts:9`), the first migration on `createdAt`
  (`migrations/20241120000001-create-indexes.js:8`), and likewise six other names: after the server the first migration
  throws and none is applied; after the migrations `ensureIndexes` throws and the API exits
  (`server.ts:118-121`). `ServerOrMigrations` is the general form: one excludes the other.

Others were met while modelling. They are behaviours of the models, and the properties
above are stated so as to say exactly how far the code keeps the intention:

* *Events that are lost* (`dedup.ts:27,35`, "already processed"). The claim is stored before the event is forwarded and
  not taken back: if the process dies, or every post fails (`webhookController.ts:14` logs it and
  answers 200), retries of the sender are told "duplicate" for 72 hours and n8n never has the
  event. `DuplicateHasOriginal` says only then.
* *Retransmissions get 401* (`signature.ts:131`). The replay guard comes before idempotency and
  deduplication, so a sender that repeats its bytes within the tolerance is answered 401, where
  `tests/e2e/webhook-flow.test.ts:91` expects 200 or 202.
* *A message is admitted twice* (`signature.ts:118,122,124`). A guard lives a tolerance from the arrival,
  a signature a tolerance from its stamp; a stamp from the permitted future outlives its
  guard. The key of the guard has the text of the signature in it, which is compared after decoding
  (`hmac.ts:9-12`), so one signature written in another way has another key. `AdmissionsSpaced` is what remains
  true: of deliveries that repeat stamp, body and text.
* *Execution without a record* (`idempotency.ts:108`). If the record expires between the insert it
  refused and the find, nothing is created again, though the comment says so; two
  requests with one key may then execute at once. `ExecutionHasCause` says only then.
* *An answer of another body* (`idempotency.ts:182`). The `finish` listener updates by key; a
  request that outlives its record writes into the next one. Second disjunct of `ReplayIsGenuine`.
* *Failed jobs that reach no dead letter queue* (`worker.ts:115,129`), against `README.md:289`. An error
  of `dlq.add` is logged, a crash loses it, and a job failed as stalled has attempts left.
  `DlqIsExhausted` is the converse, which holds.
* *A refund is paid again by its own retry* (`refundExecutor.ts:75,124`). The check looks for a
  completed document, which is written after the provider is asked, and reset to `failed`
  when a later write fails. `PaidAgainHasCause` says only then, `KeepsContract` bounds how often.
* *A purge allows a second refund* (`cleanupDaily.ts:94`): neither controller nor worker looks at
  `transaction.refunded`. The fourth cause of `Unfinished`.
* *Processing for ever* (`refundExecutor.ts:92`, `refundController.ts:38`). A job failed as stalled
  leaves its document `processing`, which keeps the controller from taking another refund of the transaction and
  is never purged. When the job is completed, `StatusHasCause` says what else it takes.
* *Accepted, then not found* (`refundExecutor.ts:83`). A refund whose transaction is refunded by another is
  answered 202, and 404 when its status is asked for: the job returns before it writes anything.
* *The status of a flow is that of its first run* (`flowController.ts:54`): `failed` for a flow that was
  completed by a retry, and for good once the completed record is purged. `CompletedIsReported`.
* *A retry limit that is exceeded* (`messagingRetry.ts:40,64`, "max 5 retries"): `retry_count` is read, and what was read
  plus one is written, so two runs at once count as one. `RetriesWithinLimit` says only then.
* *Messages that cannot be retried* (`messaging.ts:55`): the service stores no `message_id`, the worker looks
  for one.
* *A refunded transaction that is not marked* (`refundExecutor.ts:81,137`). After a crash between the two
  updates the retry returns early. `UnmarkedWasRerun` says only then.
* *More than three tries* (`otp.ts:35`), against `TESTING_GUIDE.md:678`. As many more as overlap:
  `WrongBounded`.
* *on_error retry retries nothing* (`flowExecutor.ts:105`). Only `stop` rethrows; `CompletedIsHonest`
  leaves the other two modes out for that reason.
* *A cleanup that is stuck* (`cleanupDaily.ts:60-63`). After a crash between insert and delete every
  later run inserts the same `_id`s, fails, and gets no further. No log is lost: `NoLogLost`.
* *Audit logs that are never archived* (`cleanupDaily.ts:50`, "Archive old audit logs (older than 90 days)"). What `auditLog`
  writes has `at: {}` (`audit.ts:22-25`, `logger.ts:52-63`), which no filter by date matches: it stays in `audit_logs`
  for good. `CompletedMeansArchived` is about the logs that have a date.
* *A worker without indexes* (`mongo.ts:9,16`). `db` is set before the indexes are ensured and stays set when that
  fails; later jobs of that process never try again. `UnindexedHasCause` says only then.
* *No capped collection* (`README.md:329`, `PATCH_NOTES.md:72`). `20251205000001-final-indexes.js:37` calls
  `Collection.stats()`, which the installed driver (`package-lock.json`, 6.21.0) no longer has: the block
  ends with a warning and `idempotency_keys` stays as it was.

## 8. What is not modelled

* The API's stop: requests accepted in the ten seconds between SIGTERM and exit
  (`server.ts:137`), or the five after which pm2 kills it, end as `lost`, which `Crash` covers.
* The audit rate limit. Nothing calls it: no behaviour of the program has a step of it.
* Health checks. Those of one process share a Redis client (`healthController.ts:84-85`), and two at once can answer
  503 and close it; nothing else reads what they change.
* The queue's limiter of 100 jobs per second, `removeOnComplete` and `removeOnFail`, worker health.
* OCR (a placeholder that nothing enqueues), authentication, storage, verification, alerts, templates,
  metrics, configuration, logging: one call each, or no state. The storage endpoint writes to collections by name,
  those of the models included; the models assume it does not.
* Validators of the collections, the rename and copy behind the capped collection (never reached, section 7),
  and documents written under other field names: the modules of the components have the collections as
  `src/db/indexes.ts` declares them; what else the catalog may be is the matter of `Schema`.
* Bodies, amounts, templates, provider calls and payload schemas: abstracted to what a
  property tells apart.

## 9. Plan

The modules are written, and every safety property of a run is a theorem. What is left is to prove what the runs do
not ask:

1. Step by step, towards liveness: that a request that is not settled, and a job that is not settled, always has a step that
   its fairness names, and that no such step takes it back. ENABLED stays with TLC.
2. That `DlqIsExhausted` holds of `Refund`, `Flow` and `Cleanup` as it does of `Messaging`.
3. `SetupWorks` from the other side: what order of server and migrations does what, for any lists that conflict.
