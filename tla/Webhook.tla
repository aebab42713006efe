-------------------------------- MODULE Webhook --------------------------------
(***************************************************************************)
(* The webhook ingress: POST /webhook/entry, as the middleware chain of    *)
(* src/api/webhook.ts runs it in every instance of the API.                *)
(*                                                                         *)
(* A request holds no lock.  Between two awaits its handler runs alone in  *)
(* its process; at an await every other request of every instance may run, *)
(* time may pass, the TTL monitor may delete documents and the process may *)
(* die.  So each action below is the code from one await to the next, and  *)
(* pc[r] names the await that request r is waiting for.                    *)
(*                                                                         *)
(* The collections are sets of documents.  What keeps a request from being *)
(* handled twice is the unique index of a collection (Fresh) together with *)
(* its TTL index (TtlDelete).                                              *)
(***************************************************************************)
EXTENDS Integers, FiniteSets

CONSTANTS Requests,       \* deliveries made by senders, retransmissions included
          Instances,      \* processes of the pm2 cluster
          Messages,       \* what a delivery can be: see MessageSpace
          Keys,           \* values of the X-Idempotency-Key header
          Bodies,         \* raw bodies
          Texts,          \* texts that decode to one signature: hex in upper or lower case ...
          Payloads,       \* canonical forms of the valid, normalised bodies
          Canon,          \* body -> its canonical payload, or None if invalid
          None,           \* absent header, signature, payload, instance, id or answer
          IdempotencyOn,  \* ENABLE_IDEMPOTENCY_MW
          N8nConfigured,  \* N8N_INGEST_URL is set
          Tolerance,      \* SIGNATURE_TOLERANCE_SEC
          FutureSkew,     \* seconds a timestamp may lie in the future
          IdemTTL,        \* IDEMPOTENCY_TTL_SEC
          DedupTTL,       \* life of a processed_events document
          DayLength,      \* one UTC day
          MaxAttempts,    \* MAX_N8N_RETRIES
          MaxNow          \* bound of the clock, for model checking only

Time     == 0 .. MaxNow
Day(t)   == t \div DayLength
EventIds == Keys \cup (Payloads \X {Day(t) : t \in Time})

\* Everything the pipeline can tell apart about a delivery.  The signature is that
\* of the body, whatever ts is; sig is the text of it in X-Signature, None if what
\* the header says does not decode to it.
MessageSpace ==
    [ts : Nat, body : Bodies, key : Keys \cup {None}, sig : Texts \cup {None}]

\* The answers the chain can give.  "turned_away" stands for 413, 403 and 429,
\* "conflict" and "mismatch" for the two 409s, "invalid" for 400, "error" for 500,
\* "accepted" and "duplicate" for 200.
Outcomes == {"turned_away", "unauthorized", "conflict", "mismatch", "invalid",
             "error", "accepted", "duplicate"}
Answer(out)  == [out |-> out, replay |-> FALSE]
Answers      == [out : Outcomes \cup {None}, replay : BOOLEAN]

ASSUME WebhookAssumption ==
    /\ Messages \subseteq MessageSpace
    /\ Canon \in [Bodies -> Payloads \cup {None}]
    /\ None \notin EventIds \cup Payloads \cup Instances \cup Messages \cup Answers \cup Texts
    /\ Keys \cap (Payloads \X {Day(t) : t \in Time}) = {}  \* no header is a digest
    /\ IdempotencyOn \in BOOLEAN
    /\ N8nConfigured \in BOOLEAN
    /\ Tolerance \in Nat \ {0}
    /\ FutureSkew \in Nat
    /\ IdemTTL \in Nat \ {0}
    /\ DedupTTL \in Nat \ {0}
    /\ DayLength \in Nat \ {0}
    /\ MaxAttempts \in Nat \ {0}
    /\ MaxNow \in Nat

VARIABLES
    now,         \* the clock all processes read
    up,          \* up[i]: process i is alive
    pc,          \* where request r waits
    inst,        \* the process that handles r
    msg,         \* what r delivers
    eid,         \* req.internal_event_id
    tries,       \* posts made by forwardWithRetry for r
    resp,        \* the answer to r, None while there is none
    replays,     \* collection signature_replays
    idem,        \* collection idempotency_keys
    events,      \* collection processed_events
    admissions,  \* history: every accepted signature, [req, key, at]
    starts,      \* history: every idempotency record created, [req, key, at]
    claims,      \* history: every dedup claim that let r go on, [req, key, at]
    taken        \* history: how often n8n took the event of r

local   == <<pc, inst, msg, eid, tries, resp>>
store   == <<replays, idem, events>>
history == <<admissions, starts, claims, taken>>
vars    == <<now, up, local, store, history>>

\* The guard has the text of the signature in its key, not what the text decodes to.
GuardKey(m) == <<m.ts, m.sig, m.body>>

InFlight == {"arrive", "guard", "idem", "lookup", "dedup", "forward", "finish"}
Places   == InFlight \cup {"unsent", "done", "lost"}

Init ==
    /\ now = 0
    /\ up = [i \in Instances |-> TRUE]
    /\ pc = [r \in Requests |-> "unsent"]
    /\ inst = [r \in Requests |-> None]
    /\ msg = [r \in Requests |-> None]
    /\ eid = [r \in Requests |-> None]
    /\ tries = [r \in Requests |-> 0]
    /\ resp = [r \in Requests |-> None]
    /\ replays = {} /\ idem = {} /\ events = {}
    /\ admissions = {} /\ starts = {} /\ claims = {}
    /\ taken = [r \in Requests |-> 0]
--------------------------------------------------------------------------------
(* Helpers *)

\* The unique index of a collection lets a document with key k in.
FreshIgnored(coll, k) == TRUE
Fresh(coll, k) == \A d \in coll : d.key # k

ExpiredEarly(d) == d.exp <= now + 1
Expired(d) == d.exp <= now

\* timingSafeEqualHex: the text decodes to the signature of the body.
Signed(m) == m.sig # None

\* verifyHmacSignature up to the replay guard.
SignatureValidUnsigned(m) == m.ts <= now + FutureSkew /\ now - m.ts <= Tolerance
SignatureValid(m) ==
    /\ Signed(m)
    /\ m.ts <= now + FutureSkew
    /\ now - m.ts <= Tolerance
    /\ m.ts - now <= Tolerance

\* Requests the idempotency middleware looks at.
Keyed(r) == IdempotencyOn /\ msg[r].key # None

\* deduplicate's choice of internal_event_id.
EventIdOfNothing(r) ==
    IF msg[r].key # None THEN msg[r].key ELSE <<CHOOSE p \in Payloads : TRUE, Day(now)>>
EventId(r) ==
    IF msg[r].key # None THEN msg[r].key ELSE <<Canon[msg[r].body], Day(now)>>

Goto(r, where)   == pc' = [pc EXCEPT ![r] = where]
AnswerWith(r, a) == resp' = [resp EXCEPT ![r] = a]

\* res.status(..).json(..) before the idempotency middleware wraps res.
Reject(r, a) ==
    /\ AnswerWith(r, a)
    /\ Goto(r, "done")
    /\ UNCHANGED <<eid, tries>>

\* The same call after it: the 'finish' listener of the middleware is due.
Respond(r, out) ==
    /\ AnswerWith(r, Answer(out))
    /\ Goto(r, IF Keyed(r) THEN "finish" ELSE "done")

\* next() after the last middleware that awaits: validateAndNormalizePayload,
\* then deduplicate up to its insert, run in the same turn.
Validate(r) ==
    /\ IF Canon[msg[r].body] = None
       THEN Respond(r, "invalid") /\ UNCHANGED eid
       ELSE /\ eid' = [eid EXCEPT ![r] = EventId(r)]
            /\ Goto(r, "dedup")
            /\ UNCHANGED resp
    /\ UNCHANGED tries
--------------------------------------------------------------------------------
(* The sender and the network *)

\* A sender delivers any message, one it has delivered before included, and
\* the cluster hands the connection to a live process.
Send(r) ==
    /\ pc[r] = "unsent"
    /\ \E m \in Messages, i \in Instances :
         /\ up[i]
         /\ msg' = [msg EXCEPT ![r] = m]
         /\ inst' = [inst EXCEPT ![r] = i]
    /\ Goto(r, "arrive")
    /\ UNCHANGED <<now, up, eid, tries, resp, store, history>>
--------------------------------------------------------------------------------
(* The middleware chain *)

\* blockList refuses the sender, unless the database does not answer; so may the
\* body parser before it and the rate limiter after it.
TurnAway(r) == Reject(r, Answer("turned_away"))

\* Past those, verifyHmacSignature runs up to the insert of its replay guard.
Arrive(r) ==
    /\ pc[r] = "arrive"
    /\ \/ TurnAway(r)
       \/ /\ ~SignatureValid(msg[r])
          /\ Reject(r, Answer("unauthorized"))
       \/ /\ SignatureValid(msg[r])
          /\ Goto(r, "guard")
          /\ UNCHANGED <<eid, tries, resp>>
    /\ UNCHANGED <<now, up, inst, msg, store, history>>

\* The insert into signature_replays and, when it succeeds, the chain up to
\* the next await.  Any other error than a duplicate key is rethrown from a
\* promise nobody awaits and ends the process: Crash.
GuardInsert(r) ==
    /\ pc[r] = "guard"
    /\ LET key == GuardKey(msg[r]) IN
       \/ /\ ~Fresh(replays, key)
          /\ Reject(r, Answer("unauthorized"))
          /\ UNCHANGED <<replays, admissions>>
       \/ /\ Fresh(replays, key)
          /\ replays' = replays \cup {[key |-> key, exp |-> now + Tolerance]}
          /\ admissions' = admissions \cup {[req |-> r, key |-> key, at |-> now]}
          /\ IF Keyed(r)
             THEN Goto(r, "idem") /\ UNCHANGED <<eid, tries, resp>>
             ELSE Validate(r)
    /\ UNCHANGED <<now, up, inst, msg, idem, events, starts, claims, taken>>

NewRecord(r) ==
    [key |-> msg[r].key, hash |-> msg[r].body, status |-> "in_progress",
     out |-> None, exp |-> now + IdemTTL]

\* idempotency: insertOne of the in_progress record.  An error that is not a
\* duplicate key is rethrown: Crash.
IdemInsert(r) ==
    /\ pc[r] = "idem"
    /\ \/ /\ ~Fresh(idem, msg[r].key)
          /\ Goto(r, "lookup")
          /\ UNCHANGED <<eid, tries, resp, idem, starts>>
       \/ /\ Fresh(idem, msg[r].key)
          /\ idem' = idem \cup {NewRecord(r)}
          /\ starts' = starts \cup {[req |-> r, key |-> msg[r].key, at |-> now]}
          /\ Validate(r)
    /\ UNCHANGED <<now, up, inst, msg, replays, events, admissions, claims, taken>>

Stored(d) == [out |-> d.out, replay |-> TRUE]

\* What the middleware answers from an existing record.
AnswerFromRecord(r, d) ==
    IF d.hash # msg[r].body THEN Answer("mismatch")
    ELSE IF d.status = "in_progress" THEN Answer("conflict")
    ELSE Stored(d)

IdemLookupHangs(r) ==
    /\ pc[r] = "lookup"
    /\ \E d \in idem : d.key = msg[r].key /\ Reject(r, AnswerFromRecord(r, d))
    /\ UNCHANGED <<now, up, inst, msg, store, history>>
IdemLookupNoReturn(r) ==
    /\ pc[r] = "lookup"
    /\ \/ \E d \in idem : /\ d.key = msg[r].key
                          /\ AnswerWith(r, AnswerFromRecord(r, d))
                          /\ eid' = [eid EXCEPT ![r] = EventId(r)]
                          /\ Goto(r, "dedup")
       \/ Fresh(idem, msg[r].key) /\ UNCHANGED <<pc, eid, resp>>
    /\ UNCHANGED <<now, up, inst, msg, tries, store, history>>

\* idempotency: findOne after a duplicate key.  The record may have been
\* deleted since; then the request goes on without creating one.
IdemLookup(r) ==
    /\ pc[r] = "lookup"
    /\ \/ \E d \in idem : d.key = msg[r].key /\ Reject(r, AnswerFromRecord(r, d))
       \/ Fresh(idem, msg[r].key) /\ Validate(r)
    /\ UNCHANGED <<now, up, inst, msg, store, history>>

\* deduplicate: the insert into processed_events.
DedupInsert(r) ==
    /\ pc[r] = "dedup"
    /\ \/ /\ ~Fresh(events, eid[r])
          /\ Respond(r, "duplicate")
          /\ UNCHANGED <<events, claims>>
       \/ /\ Fresh(events, eid[r])
          /\ events' = events \cup {[key |-> eid[r], exp |-> now + DedupTTL]}
          /\ claims' = claims \cup {[req |-> r, key |-> eid[r], at |-> now]}
          /\ Goto(r, "forward")
          /\ UNCHANGED resp
    /\ UNCHANGED <<now, up, inst, msg, eid, tries, replays, idem, admissions,
                   starts, taken>>

\* The same insert reported as failed, whether or not it was applied: the
\* wrapper in webhook.ts hands the error to errorHandler, which answers 500.
DedupError(r) ==
    /\ pc[r] = "dedup"
    /\ Respond(r, "error")
    /\ \/ UNCHANGED events
       \/ /\ Fresh(events, eid[r])
          /\ events' = events \cup {[key |-> eid[r], exp |-> now + DedupTTL]}
    /\ UNCHANGED <<now, up, inst, msg, eid, tries, replays, idem, history>>
--------------------------------------------------------------------------------
(* Forwarding to n8n *)

\* n8n took the event: 2xx, or a timeout or lost answer after it was received.
Took(r, yes) == taken' = [taken EXCEPT ![r] = @ + yes]

\* Whatever forwardToN8n returns, handleWebhookEntry answers 200.
Accept(r) == Respond(r, "accepted")

\* One post of forwardWithRetry.  A 2xx ends the loop, so does a 4xx other
\* than 429; anything else is tried again while attempts are left.
LastTryOffByOne(r) == tries[r] + 1 > MaxAttempts
LastTry(r) == tries[r] + 1 >= MaxAttempts

Post(r) ==
    /\ pc[r] = "forward" /\ N8nConfigured
    /\ tries' = [tries EXCEPT ![r] = @ + 1]
    /\ \/ Took(r, 1) /\ Accept(r)                                \* 2xx
       \/ UNCHANGED taken /\ Accept(r)                          \* 4xx
       \/ /\ UNCHANGED taken \/ Took(r, 1)                     \* 429, 5xx, no answer
          /\ IF LastTry(r)
             THEN Accept(r)
             ELSE UNCHANGED <<pc, resp>>
    /\ UNCHANGED <<now, up, inst, msg, eid, store, admissions, starts, claims>>

SkipPost(r) ==
    /\ pc[r] = "forward" /\ ~N8nConfigured
    /\ Accept(r)
    /\ UNCHANGED <<now, up, inst, msg, eid, tries, store, history>>

\* The 'finish' listener of the idempotency middleware: an update by key, of
\* whatever record the key has by now.  A failed update is only logged.
OutcomeAlwaysAccepted(r, d) == [d EXCEPT !.status = "succeeded", !.out = "accepted"]
Outcome(r, d) ==
    [d EXCEPT !.status = IF resp[r].out = "error" THEN "failed" ELSE "succeeded",
              !.out = resp[r].out]

Finish(r) ==
    /\ pc[r] = "finish"
    /\ Goto(r, "done")
    /\ \/ UNCHANGED idem
       \/ \E d \in idem : /\ d.key = msg[r].key
                          /\ idem' = (idem \ {d}) \cup {Outcome(r, d)}
    /\ UNCHANGED <<now, up, inst, msg, eid, tries, resp, replays, events, history>>
--------------------------------------------------------------------------------
(* Time, the TTL monitor, crashes *)

Tick == now < MaxNow /\ now' = now + 1 /\ UNCHANGED <<up, local, store, history>>

\* The TTL monitor, or the daily cleanup, deletes an expired document, some
\* time after it expired.
TtlDelete ==
    /\ \/ \E d \in replays : Expired(d) /\ replays' = replays \ {d} /\ UNCHANGED <<idem, events>>
       \/ \E d \in idem : Expired(d) /\ idem' = idem \ {d} /\ UNCHANGED <<replays, events>>
       \/ \E d \in events : Expired(d) /\ events' = events \ {d} /\ UNCHANGED <<replays, idem>>
    /\ UNCHANGED <<now, up, local, history>>

\* A process dies: an unhandled rejection, a restart by pm2, a kill.  Its
\* requests get no further.
Crash(i) ==
    /\ up[i]
    /\ up' = [up EXCEPT ![i] = FALSE]
    /\ pc' = [r \in Requests |->
                IF inst[r] = i /\ pc[r] \in InFlight THEN "lost" ELSE pc[r]]
    /\ UNCHANGED <<now, inst, msg, eid, tries, resp, store, history>>

Restart(i) ==
    /\ ~up[i]
    /\ up' = [up EXCEPT ![i] = TRUE]
    /\ UNCHANGED <<now, local, store, history>>
--------------------------------------------------------------------------------
Handle(r) ==
    \/ Arrive(r) \/ GuardInsert(r) \/ IdemInsert(r) \/ IdemLookup(r)
    \/ DedupInsert(r) \/ DedupError(r) \/ Post(r) \/ SkipPost(r) \/ Finish(r)

Next ==
    \/ Tick
    \/ TtlDelete
    \/ \E i \in Instances : Crash(i) \/ Restart(i)
    \/ \E r \in Requests : Send(r) \/ Handle(r)

\* The database, the event loop and the 10 s timeout of lib/http answer every
\* call in the end, so a handler that can go on does.  Nothing obliges a
\* sender to send, a process to crash or a document to expire.
Fairness == \A r \in Requests : WF_vars(Handle(r))

Spec == Init /\ [][Next]_vars
FairSpec == Spec /\ Fairness
--------------------------------------------------------------------------------
(* Properties *)

HistorySpace(K)  == [req : Requests, key : K, at : Nat]
TtlSpace(K)      == [key : K, exp : Nat]
RecordSpace ==
    [key : Keys, hash : Bodies, status : {"in_progress", "succeeded", "failed"},
     out : Outcomes \cup {None}, exp : Nat]
GuardKeys == Nat \X Texts \X Bodies

\* Every variable holds a value of its type.
TypeOK ==
    /\ now \in Time
    /\ up \in [Instances -> BOOLEAN]
    /\ pc \in [Requests -> Places]
    /\ inst \in [Requests -> Instances \cup {None}]
    /\ msg \in [Requests -> Messages \cup {None}]
    /\ eid \in [Requests -> EventIds \cup {None}]
    /\ tries \in [Requests -> Nat]
    /\ resp \in [Requests -> Answers \cup {None}]
    /\ replays \subseteq TtlSpace(GuardKeys)
    /\ idem \subseteq RecordSpace
    /\ events \subseteq TtlSpace(EventIds)
    /\ admissions \subseteq HistorySpace(GuardKeys)
    /\ starts \subseteq HistorySpace(Keys)
    /\ claims \subseteq HistorySpace(EventIds)
    /\ taken \in [Requests -> Nat]

\* Two entries of a history for one key lie a whole TTL apart.
Spaced(hist, ttl) ==
    \A a, b \in hist :
        a.key = b.key /\ a # b => a.at + ttl <= b.at \/ b.at + ttl <= a.at

\* Deduplication: of all the requests that carry one internal_event_id, in all
\* instances, at most one per DedupTTL gets past deduplicate (dedup.ts).
ClaimsSpaced == Spaced(claims, DedupTTL)

\* Replay guard: of the deliveries that repeat a stamp, a body and the text of its
\* signature, in all instances, at most one passes verifyHmacSignature in any
\* Tolerance units of time (signature.ts:118-129).
AdmissionsSpaced == Spaced(admissions, Tolerance)

\* Idempotency: at most one request per IdemTTL creates the record of a key
\* (idempotency.ts, "first writer wins").
StartsSpaced == Spaced(starts, IdemTTL)

\* n8n takes an event only from a request that was signed, passed the replay
\* guard, is valid and claimed the id: the order of the chain in webhook.ts.
OnlyVettedForwarded ==
    \A r \in Requests : taken[r] > 0 =>
        /\ Signed(msg[r]) /\ Canon[msg[r].body] # None
        /\ \E a \in admissions :
              /\ a.req = r /\ a.key = GuardKey(msg[r])
              /\ msg[r].ts - FutureSkew <= a.at
              /\ \E c \in claims : c.req = r /\ a.at <= c.at

\* A replayed answer was given, first hand, to another request with the same key
\* and, unless the record of the key expired and was created anew meanwhile, the
\* same body (idempotency.ts: the record is updated by key, with what res captured).
ReplayIsGenuine ==
    \A r \in Requests : resp[r] # None /\ resp[r].replay =>
        \E q \in Requests :
            /\ q # r /\ msg[q].key = msg[r].key /\ resp[q] = Answer(resp[r].out)
            /\ \/ msg[q].body = msg[r].body
               \/ \E a, b \in starts : a # b /\ a.key = msg[r].key /\ b.key = msg[r].key

\* Whoever executes under a key has created its record, or met one that has
\* expired since: two requests with one key execute at once only across the end
\* of a record's life (idempotency.ts:108).
ExecutionHasCause ==
    \A r \in Requests : pc[r] \in {"dedup", "forward"} /\ Keyed(r) =>
        \E s \in starts : s.key = msg[r].key /\ (s.req = r \/ s.at + IdemTTL <= now)

\* Nobody is told "duplicate" unless another request got as far as the insert for
\* the same header key or, without one, the same payload on the same day; and if
\* that one has claimed the event, n8n has taken it, the request is still at it or
\* died at it, or n8n refused its posts (dedup.ts:35, "already processed").
DuplicateHasOriginal ==
    \A r \in Requests : resp[r] = Answer("duplicate") =>
        \E q \in Requests \ {r} :
            /\ eid[q] = eid[r]
            /\ msg[r].key = None => Canon[msg[q].body] = Canon[msg[r].body]
            /\ \/ resp[q] = Answer("error")
               \/ /\ \E c \in claims : c.req = q
                  /\ \/ taken[q] > 0 \/ pc[q] \in {"forward", "lost"}
                     \/ tries[q] > 0 \/ ~N8nConfigured

\* The ingress keeps the promise of EventLedger: claims exclude each other for
\* DedupTTL, and n8n takes a claimed event at most MaxAttempts times.
Ledger == INSTANCE EventLedger WITH Window <- DedupTTL, MaxPosts <- MaxAttempts
ImplementsLedger == Ledger!LedgerSpec

\* Every request that reaches an instance is answered, or its instance died.
\* No branch of the chain forgets both res and next().
EveryRequestSettles ==
    \A r \in Requests : pc[r] = "arrive" ~> pc[r] \in {"done", "lost"}

\* An answer is sent once: no branch answers and then goes on to answer again
\* (Express would throw ERR_HTTP_HEADERS_SENT).
AnsweredOnce ==
    [][\A r \in Requests : resp[r] # None => resp'[r] = resp[r]]_vars
================================================================================
