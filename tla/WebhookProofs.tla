----------------------------- MODULE WebhookProofs -----------------------------
(***************************************************************************)
(* Theorems about Webhook, for every value of its constants.               *)
(*                                                                         *)
(* TypeOK is not inductive: that the event id of a request has its type    *)
(* depends on which message the request carries, and that the record it    *)
(* creates has one depends on how it got to where it waits.  PlaceInv says *)
(* what is known of a request at each of its awaits; TypeOK /\ PlaceInv is *)
(* inductive, and the other theorems start from it.                        *)
(*                                                                         *)
(* Claims, admissions and records that exclude each other rest on the      *)
(* documents that guard them (SpacingInv); what n8n takes, and that a      *)
(* duplicate has an original, on what each place of the chain says of      *)
(* the request that got there (VettedInv, OriginInv); execution and replay *)
(* under a key on what every record was created by and answered with       *)
(* (CauseInv, RecordInv, ReplayInv).                                       *)
(***************************************************************************)
EXTENDS Webhook, TLAPS

\* What is known of a request that waits at p, carries m, has event id e and
\* answer a.
WellPlaced(p, m, e, a) ==
    /\ p # "unsent" => m # None
    /\ p = "guard" => Signed(m)
    /\ p \in {"idem", "lookup", "finish"} => IdempotencyOn /\ m.key # None
    /\ p \in {"dedup", "forward"} => e # None /\ Canon[m.body] # None
    /\ p \in (InFlight \ {"finish"}) \cup {"unsent"} => a = None
    /\ p = "finish" => \E out \in Outcomes : a = Answer(out)

PlaceInv == \A r \in Requests : WellPlaced(pc[r], msg[r], eid[r], resp[r])

TypeInv == TypeOK /\ PlaceInv

\* The locals of every other request are left alone, and r ends up well placed.
StepOf(r) ==
    /\ pc' \in [Requests -> Places]
    /\ resp' \in [Requests -> Answers \cup {None}]
    /\ eid' \in [Requests -> EventIds \cup {None}]
    /\ \A q \in Requests \ {r} : pc'[q] = pc[q] /\ resp'[q] = resp[q] /\ eid'[q] = eid[q]
    /\ WellPlaced(pc'[r], msg[r], eid'[r], resp'[r])
--------------------------------------------------------------------------------
(* Lemmas about the helpers *)

\* A message that was delivered is in the message space.
LEMMA MessageType ==
    ASSUME TypeInv, NEW r \in Requests, pc[r] # "unsent"
    PROVE  msg[r] # None /\ msg[r] \in Messages /\ msg[r] \in MessageSpace
BY WebhookAssumption DEF TypeInv, TypeOK, PlaceInv, WellPlaced

\* The clock is a natural number.
LEMMA ClockType == ASSUME TypeInv PROVE now \in Nat /\ now \in Time
BY WebhookAssumption DEF TypeInv, TypeOK, Time

\* The event id a valid body yields is one of EventIds.
LEMMA EventIdType ==
    ASSUME TypeInv, NEW r \in Requests, pc[r] # "unsent", Canon[msg[r].body] # None
    PROVE  EventId(r) \in EventIds /\ EventId(r) # None
<1>1. msg[r] \in MessageSpace
  BY MessageType
<1>2. Canon[msg[r].body] \in Payloads
  BY <1>1, WebhookAssumption DEF MessageSpace
<1>3. EventId(r) \in EventIds
  <2>1. CASE msg[r].key # None
    BY <1>1, <2>1 DEF MessageSpace, EventId, EventIds
  <2>2. CASE msg[r].key = None
    BY <1>2, <2>2, ClockType DEF EventId, EventIds
  <2>3. QED
    BY <2>1, <2>2
<1>4. QED
  BY <1>3, WebhookAssumption

\* The answers of the chain have their type.
LEMMA AnswerType == \A out \in Outcomes : Answer(out) \in Answers
BY DEF Answer, Answers
\* Moving on without an answer.
LEMMA GotoStep ==
    ASSUME TypeInv, NEW r \in Requests, NEW p \in Places, Goto(r, p),
           UNCHANGED <<eid, resp>>, WellPlaced(p, msg[r], eid[r], resp[r])
    PROVE  StepOf(r)
BY DEF TypeInv, TypeOK, Goto, StepOf

\* Answering before the idempotency middleware.
LEMMA RejectStep ==
    ASSUME TypeInv, NEW r \in Requests, pc[r] # "unsent", NEW a \in Answers,
           Reject(r, a)
    PROVE  StepOf(r) /\ UNCHANGED tries
<1>1. msg[r] # None
  BY MessageType
<1>2. pc'[r] = "done" /\ WellPlaced("done", msg[r], eid[r], a)
  BY <1>1 DEF Reject, Goto, TypeInv, TypeOK, WellPlaced, InFlight
<1>3. QED
  BY <1>2 DEF TypeInv, TypeOK, Reject, AnswerWith, Goto, StepOf, Places

\* Answering after it.
LEMMA RespondStep ==
    ASSUME TypeInv, NEW r \in Requests, pc[r] # "unsent", NEW out \in Outcomes,
           Respond(r, out), UNCHANGED eid
    PROVE  StepOf(r)
<1> DEFINE p == IF Keyed(r) THEN "finish" ELSE "done"
<1>1. Answer(out) \in Answers /\ p \in Places
  BY AnswerType DEF Places, InFlight
<1>2. msg[r] # None
  BY MessageType
<1>3. WellPlaced(p, msg[r], eid[r], Answer(out))
  BY <1>2 DEF WellPlaced, Keyed, InFlight
<1>4. pc' = [pc EXCEPT ![r] = p] /\ resp' = [resp EXCEPT ![r] = Answer(out)]
  BY DEF Respond, AnswerWith, Goto
<1> HIDE DEF p
<1>5. QED
  BY <1>1, <1>3, <1>4 DEF TypeInv, TypeOK, StepOf

\* The end of the chain up to the insert of deduplicate.
LEMMA ValidateStep ==
    ASSUME TypeInv, NEW r \in Requests, pc[r] \in {"guard", "idem", "lookup"},
           Validate(r)
    PROVE  StepOf(r) /\ UNCHANGED tries
<1>1. pc[r] # "unsent" /\ msg[r] # None /\ resp[r] = None
  BY MessageType DEF TypeInv, PlaceInv, WellPlaced, InFlight
<1>2. CASE Canon[msg[r].body] = None
  <2>1. Respond(r, "invalid") /\ UNCHANGED <<eid, tries>>
    BY <1>2 DEF Validate
  <2>2. QED
    BY <1>1, <2>1, RespondStep DEF Outcomes
<1>3. CASE Canon[msg[r].body] # None
  <2>1. EventId(r) \in EventIds /\ EventId(r) # None
    BY <1>1, <1>3, EventIdType
  <2>2. WellPlaced("dedup", msg[r], EventId(r), None)
    BY <1>1, <1>3, <2>1 DEF WellPlaced, InFlight
  <2>3. /\ eid' = [eid EXCEPT ![r] = EventId(r)]
        /\ pc' = [pc EXCEPT ![r] = "dedup"]
        /\ UNCHANGED <<resp, tries>>
    BY <1>3 DEF Validate, Goto
  <2>4. QED
    BY <1>1, <2>1, <2>2, <2>3 DEF TypeInv, TypeOK, StepOf, Places, InFlight
<1>4. QED
  BY <1>2, <1>3

\* A step of r that keeps the messages keeps every request well placed.
LEMMA StepPlaces ==
    ASSUME PlaceInv, NEW r \in Requests, StepOf(r), UNCHANGED msg
    PROVE  PlaceInv'
BY DEF PlaceInv, StepOf
--------------------------------------------------------------------------------
(* TypeOK and PlaceInv *)

LEMMA TypeInvInit == Init => TypeInv
BY WebhookAssumption
DEF Init, TypeInv, TypeOK, PlaceInv, WellPlaced, Time, Places, InFlight

\* A handler's step keeps TypeInv when it keeps the types of the shared state.
LEMMA HandlerStep ==
    ASSUME TypeInv, NEW r \in Requests, StepOf(r), UNCHANGED <<now, up, inst, msg>>,
           tries' \in [Requests -> Nat], taken' \in [Requests -> Nat],
           replays' \subseteq TtlSpace(GuardKeys), idem' \subseteq RecordSpace,
           events' \subseteq TtlSpace(EventIds),
           admissions' \subseteq HistorySpace(GuardKeys),
           starts' \subseteq HistorySpace(Keys), claims' \subseteq HistorySpace(EventIds)
    PROVE  TypeInv'
<1>1. PlaceInv'
  BY StepPlaces DEF TypeInv
<1>2. TypeOK'
  BY DEF TypeInv, TypeOK, StepOf
<1>3. QED
  BY <1>1, <1>2 DEF TypeInv

\* What an insert stores has the type of its collection.
LEMMA TtlDocType ==
    ASSUME NEW K, NEW k \in K, NEW e \in Nat
    PROVE  [key |-> k, exp |-> e] \in TtlSpace(K)
BY DEF TtlSpace

LEMMA HistoryType ==
    ASSUME TypeInv, NEW K, NEW k \in K, NEW r \in Requests
    PROVE  [req |-> r, key |-> k, at |-> now] \in HistorySpace(K)
BY ClockType DEF HistorySpace

LEMMA ArriveType ==
    ASSUME TypeInv, NEW r \in Requests, Arrive(r)
    PROVE  TypeInv'
<1>1. pc[r] = "arrive" /\ msg[r] # None /\ resp[r] = None
  BY MessageType DEF Arrive, TurnAway, TypeInv, PlaceInv, WellPlaced, InFlight
<1>2. StepOf(r) /\ UNCHANGED tries
  <2>1. CASE Reject(r, Answer("turned_away"))
    BY <1>1, <2>1, AnswerType, RejectStep DEF Outcomes
  <2>2. CASE Reject(r, Answer("unauthorized"))
    BY <1>1, <2>2, AnswerType, RejectStep DEF Outcomes
  <2>3. CASE SignatureValid(msg[r]) /\ Goto(r, "guard") /\ UNCHANGED <<eid, tries, resp>>
    <3>1. WellPlaced("guard", msg[r], eid[r], resp[r])
      BY <1>1, <2>3 DEF WellPlaced, SignatureValid
    <3>2. QED
      BY <2>3, <3>1, GotoStep DEF Places, InFlight
  <2>4. QED
    BY <2>1, <2>2, <2>3 DEF Arrive, TurnAway
<1>3. QED
  BY <1>2, HandlerStep DEF Arrive, TurnAway, store, history, TypeInv, TypeOK

LEMMA GuardInsertType ==
    ASSUME TypeInv, NEW r \in Requests, GuardInsert(r)
    PROVE  TypeInv'
<1> DEFINE key == GuardKey(msg[r])
<1>1. pc[r] = "guard" /\ msg[r] # None /\ resp[r] = None /\ Signed(msg[r])
  BY MessageType DEF GuardInsert, TypeInv, PlaceInv, WellPlaced, InFlight
<1>2. key \in GuardKeys /\ now + Tolerance \in Nat
  BY <1>1, MessageType, ClockType, WebhookAssumption
  DEF GuardKey, GuardKeys, MessageSpace, Signed
<1>3. StepOf(r) /\ UNCHANGED tries
  <2>1. CASE Reject(r, Answer("unauthorized"))
    BY <1>1, <2>1, AnswerType, RejectStep DEF Outcomes
  <2>2. CASE Keyed(r) /\ Goto(r, "idem") /\ UNCHANGED <<eid, tries, resp>>
    <3>1. WellPlaced("idem", msg[r], eid[r], resp[r])
      BY <1>1, <2>2 DEF WellPlaced, Keyed
    <3>2. QED
      BY <2>2, <3>1, GotoStep DEF Places, InFlight
  <2>3. CASE Validate(r)
    BY <1>1, <2>3, ValidateStep
  <2>4. QED
    BY <2>1, <2>2, <2>3 DEF GuardInsert
<1>4. replays' \subseteq TtlSpace(GuardKeys) /\ admissions' \subseteq HistorySpace(GuardKeys)
  <2>1. CASE UNCHANGED <<replays, admissions>>
    BY <2>1 DEF TypeInv, TypeOK
  <2>2. CASE /\ replays' = replays \cup {[key |-> key, exp |-> now + Tolerance]}
             /\ admissions' = admissions \cup {[req |-> r, key |-> key, at |-> now]}
    BY <1>2, <2>2, TtlDocType, HistoryType DEF TypeInv, TypeOK
  <2>3. QED
    BY <2>1, <2>2 DEF GuardInsert
<1>5. QED
  BY <1>3, <1>4, HandlerStep DEF GuardInsert, TypeInv, TypeOK

LEMMA IdemInsertType ==
    ASSUME TypeInv, NEW r \in Requests, IdemInsert(r)
    PROVE  TypeInv'
<1>1. pc[r] = "idem" /\ msg[r] # None /\ resp[r] = None /\ Keyed(r)
  BY MessageType DEF IdemInsert, TypeInv, PlaceInv, WellPlaced, InFlight, Keyed
<1>2. msg[r].key \in Keys /\ msg[r].body \in Bodies
  BY <1>1, MessageType DEF Keyed, MessageSpace
<1>3. StepOf(r) /\ UNCHANGED tries
  <2>1. CASE Goto(r, "lookup") /\ UNCHANGED <<eid, tries, resp>>
    <3>1. WellPlaced("lookup", msg[r], eid[r], resp[r])
      BY <1>1 DEF WellPlaced, Keyed
    <3>2. QED
      BY <2>1, <3>1, GotoStep DEF Places, InFlight
  <2>2. CASE Validate(r)
    BY <1>1, <2>2, ValidateStep
  <2>3. QED
    BY <2>1, <2>2 DEF IdemInsert
<1>4. idem' \subseteq RecordSpace /\ starts' \subseteq HistorySpace(Keys)
  <2>1. CASE UNCHANGED <<idem, starts>>
    BY <2>1 DEF TypeInv, TypeOK
  <2>2. CASE /\ idem' = idem \cup {NewRecord(r)}
             /\ starts' = starts \cup {[req |-> r, key |-> msg[r].key, at |-> now]}
    <3>1. NewRecord(r) \in RecordSpace
      BY <1>2, ClockType, WebhookAssumption DEF NewRecord, RecordSpace
    <3>2. QED
      BY <1>2, <2>2, <3>1, HistoryType DEF TypeInv, TypeOK
  <2>3. QED
    BY <2>1, <2>2 DEF IdemInsert
<1>5. QED
  BY <1>3, <1>4, HandlerStep DEF IdemInsert, TypeInv, TypeOK

LEMMA IdemLookupType ==
    ASSUME TypeInv, NEW r \in Requests, IdemLookup(r)
    PROVE  TypeInv'
<1>1. pc[r] = "lookup" /\ msg[r] # None
  BY MessageType DEF IdemLookup
<1>2. StepOf(r) /\ UNCHANGED tries
  <2>1. ASSUME NEW d \in idem, Reject(r, AnswerFromRecord(r, d))
        PROVE  StepOf(r) /\ UNCHANGED tries
    <3>1. d.out \in Outcomes \cup {None}
      BY DEF TypeInv, TypeOK, RecordSpace
    <3>2. AnswerFromRecord(r, d) \in Answers
      BY <3>1 DEF AnswerFromRecord, Answer, Stored, Answers, Outcomes
    <3>3. QED
      BY <1>1, <2>1, <3>2, RejectStep
  <2>2. CASE Validate(r)
    BY <1>1, <2>2, ValidateStep
  <2>3. QED
    BY <2>1, <2>2 DEF IdemLookup
<1>3. QED
  BY <1>2, HandlerStep DEF IdemLookup, store, history, TypeInv, TypeOK
\* The document an insert into processed_events stores has its type.
LEMMA EventDocType ==
    ASSUME TypeInv, NEW r \in Requests, pc[r] \in {"dedup", "forward"}
    PROVE  /\ eid[r] \in EventIds
           /\ [key |-> eid[r], exp |-> now + DedupTTL] \in TtlSpace(EventIds)
           /\ [req |-> r, key |-> eid[r], at |-> now] \in HistorySpace(EventIds)
<1>1. eid[r] \in EventIds
  BY DEF TypeInv, TypeOK, PlaceInv, WellPlaced
<1>2. now + DedupTTL \in Nat
  BY ClockType, WebhookAssumption
<1>3. QED
  BY <1>1, <1>2, TtlDocType, HistoryType

LEMMA DedupType ==
    ASSUME TypeInv, NEW r \in Requests, DedupInsert(r) \/ DedupError(r)
    PROVE  TypeInv'
<1>1. pc[r] = "dedup" /\ msg[r] # None /\ resp[r] = None /\ eid[r] # None
      /\ Canon[msg[r].body] # None
  BY MessageType DEF DedupInsert, DedupError, TypeInv, PlaceInv, WellPlaced, InFlight
<1>2. UNCHANGED <<eid, tries>>
  BY DEF DedupInsert, DedupError
<1>3. StepOf(r)
  <2>1. CASE Respond(r, "duplicate") \/ Respond(r, "error")
    BY <1>1, <1>2, <2>1, RespondStep DEF Outcomes
  <2>2. CASE Goto(r, "forward") /\ UNCHANGED resp
    <3>1. WellPlaced("forward", msg[r], eid[r], resp[r])
      BY <1>1 DEF WellPlaced
    <3>2. QED
      BY <1>2, <2>2, <3>1, GotoStep DEF Places, InFlight
  <2>3. QED
    BY <2>1, <2>2 DEF DedupInsert, DedupError
<1>4. events' \subseteq TtlSpace(EventIds) /\ claims' \subseteq HistorySpace(EventIds)
  <2>1. \/ events' = events
        \/ events' = events \cup {[key |-> eid[r], exp |-> now + DedupTTL]}
    BY DEF DedupInsert, DedupError
  <2>2. \/ claims' = claims
        \/ claims' = claims \cup {[req |-> r, key |-> eid[r], at |-> now]}
    BY DEF DedupInsert, DedupError, history
  <2>3. QED
    BY <1>1, <2>1, <2>2, EventDocType DEF TypeInv, TypeOK
<1>5. QED
  BY <1>2, <1>3, <1>4, HandlerStep DEF DedupInsert, DedupError, history, TypeInv, TypeOK

LEMMA PostType ==
    ASSUME TypeInv, NEW r \in Requests, Post(r) \/ SkipPost(r)
    PROVE  TypeInv'
<1>1. pc[r] = "forward" /\ pc[r] # "unsent" /\ UNCHANGED eid
  BY DEF Post, SkipPost, Accept
<1>2. StepOf(r)
  <2>1. CASE Respond(r, "accepted")
    BY <1>1, <2>1, RespondStep DEF Outcomes
  <2>2. CASE UNCHANGED <<pc, resp>>
    BY <1>1, <2>2 DEF StepOf, TypeInv, TypeOK, PlaceInv
  <2>3. QED
    BY <2>1, <2>2 DEF Post, SkipPost, Accept
<1>3. tries' \in [Requests -> Nat]
  BY DEF Post, SkipPost, Accept, TypeInv, TypeOK
<1>4. taken' \in [Requests -> Nat]
  <2>1. taken' = taken \/ taken' = [taken EXCEPT ![r] = @ + 1]
    BY DEF Post, SkipPost, Accept, Took, history
  <2>2. QED
    BY <2>1 DEF TypeInv, TypeOK
<1>5. QED
  BY <1>2, <1>3, <1>4, HandlerStep DEF Post, SkipPost, Accept, store, history, TypeInv, TypeOK

LEMMA FinishType ==
    ASSUME TypeInv, NEW r \in Requests, Finish(r)
    PROVE  TypeInv'
<1>1. pc[r] = "finish" /\ msg[r] # None
  BY MessageType DEF Finish
<1>2. PICK out \in Outcomes : resp[r] = Answer(out)
  BY <1>1 DEF TypeInv, PlaceInv, WellPlaced
<1>3. StepOf(r)
  <2>1. WellPlaced("done", msg[r], eid[r], resp[r])
    BY <1>1 DEF WellPlaced, InFlight
  <2>2. QED
    BY <2>1, GotoStep DEF Finish, Places
<1>4. idem' \subseteq RecordSpace
  <2>1. CASE UNCHANGED idem
    BY <2>1 DEF TypeInv, TypeOK
  <2>2. ASSUME NEW d \in idem, idem' = (idem \ {d}) \cup {Outcome(r, d)}
        PROVE  idem' \subseteq RecordSpace
    <3>1. d \in RecordSpace /\ resp[r].out \in Outcomes
      BY <1>2 DEF TypeInv, TypeOK, Answer
    <3>2. Outcome(r, d) \in RecordSpace
      BY <3>1 DEF Outcome, RecordSpace
    <3>3. QED
      BY <2>2, <3>2 DEF TypeInv, TypeOK
  <2>3. QED
    BY <2>1, <2>2 DEF Finish
<1>5. QED
  BY <1>3, <1>4, HandlerStep DEF Finish, history, TypeInv, TypeOK

LEMMA EnvironmentType ==
    ASSUME TypeInv,
           \/ Tick \/ TtlDelete
           \/ \E i \in Instances : Crash(i) \/ Restart(i)
           \/ \E r \in Requests : Send(r)
    PROVE  TypeInv'
<1>1. CASE Tick
  BY <1>1, ClockType, WebhookAssumption
  DEF Tick, local, store, history, TypeInv, TypeOK, PlaceInv, Time
<1>2. CASE TtlDelete
  BY <1>2 DEF TtlDelete, local, history, TypeInv, TypeOK, PlaceInv
<1>3. ASSUME NEW i \in Instances, Crash(i)
      PROVE  TypeInv'
  <2>1. TypeOK'
    BY <1>3 DEF Crash, store, history, TypeInv, TypeOK, Places
  <2>2. PlaceInv'
    BY <1>3 DEF Crash, TypeInv, TypeOK, PlaceInv, WellPlaced, InFlight
  <2>3. QED
    BY <2>1, <2>2 DEF TypeInv
<1>4. ASSUME NEW i \in Instances, Restart(i)
      PROVE  TypeInv'
  BY <1>4 DEF Restart, local, store, history, TypeInv, TypeOK, PlaceInv
<1>5. ASSUME NEW r \in Requests, Send(r)
      PROVE  TypeInv'
  <2>1. PICK m \in Messages, i \in Instances :
           msg' = [msg EXCEPT ![r] = m] /\ inst' = [inst EXCEPT ![r] = i]
    BY <1>5 DEF Send
  <2>2. TypeOK'
    BY <1>5, <2>1 DEF Send, Goto, store, history, TypeInv, TypeOK, Places, InFlight
  <2>3. PlaceInv'
    BY <1>5, <2>1, WebhookAssumption
    DEF Send, Goto, TypeInv, TypeOK, PlaceInv, WellPlaced, InFlight
  <2>4. QED
    BY <2>2, <2>3 DEF TypeInv
<1>6. QED
  BY <1>1, <1>2, <1>3, <1>4, <1>5

LEMMA TypeInvNext == TypeInv /\ [Next]_vars => TypeInv'
<1> SUFFICES ASSUME TypeInv, [Next]_vars PROVE TypeInv'
  OBVIOUS
<1>1. ASSUME NEW r \in Requests, Handle(r)
      PROVE  TypeInv'
  BY <1>1, ArriveType, GuardInsertType, IdemInsertType, IdemLookupType, DedupType,
     PostType, FinishType
  DEF Handle
<1>2. CASE UNCHANGED vars
  BY <1>2 DEF vars, local, store, history, TypeInv, TypeOK, PlaceInv
<1>3. QED
  BY <1>1, <1>2, EnvironmentType DEF Next

\* Every variable keeps its type, in every execution of the ingress.
THEOREM TypeCorrect == Spec => []TypeOK
<1>1. TypeInv => TypeOK
  BY DEF TypeInv
<1>2. QED
  BY <1>1, TypeInvInit, TypeInvNext, PTL DEF Spec
--------------------------------------------------------------------------------
(* Unique index + TTL index = spacing.  The same argument serves the three *)
(* collections: an entry of the history younger than the TTL still has its *)
(* document, and while it has, the unique index lets no other one in.      *)

Guarded(hist, coll, ttl, t) ==
    \A h \in hist : /\ h.at <= t
                    /\ \/ h.at + ttl <= t
                       \/ \E d \in coll : d.key = h.key /\ h.at + ttl <= d.exp

\* An insert the unique index allows keeps the history spaced.
LEMMA InsertSpaces ==
    ASSUME NEW K, NEW hist, hist \subseteq HistorySpace(K), NEW coll, NEW ttl \in Nat,
           NEW t \in Nat, Guarded(hist, coll, ttl, t), Spaced(hist, ttl),
           NEW h, h.at = t, Fresh(coll, h.key),
           NEW d, d.key = h.key, d.exp = t + ttl
    PROVE  /\ Spaced(hist \cup {h}, ttl)
           /\ Guarded(hist \cup {h}, coll \cup {d}, ttl, t)
<1>1. \A g \in hist : g.at \in Nat
  BY DEF HistorySpace
<1>2. \A g \in hist : g.key = h.key => g.at + ttl <= t
  BY DEF Guarded, Fresh
<1>3. Spaced(hist \cup {h}, ttl)
  BY <1>1, <1>2 DEF Spaced
<1>4. Guarded(hist \cup {h}, coll \cup {d}, ttl, t)
  BY <1>1 DEF Guarded
<1>5. QED
  BY <1>3, <1>4

\* The TTL monitor only deletes documents that guard nothing any more.
LEMMA DeleteGuards ==
    ASSUME NEW K, NEW hist, hist \subseteq HistorySpace(K),
           NEW coll, \A x \in coll : x.exp \in Nat, NEW ttl \in Nat,
           NEW t \in Nat, Guarded(hist, coll, ttl, t), NEW d \in coll, d.exp <= t
    PROVE  Guarded(hist, coll \ {d}, ttl, t)
<1>1. \A g \in hist : g.at \in Nat
  BY DEF HistorySpace
<1>2. QED
  BY <1>1 DEF Guarded

\* Nothing is lost when time passes, or when each document of a key is replaced
\* by one of the same key that lives as long.
LEMMA LaterGuards ==
    ASSUME NEW K, NEW hist, hist \subseteq HistorySpace(K),
           NEW coll, NEW coll2, NEW ttl \in Nat,
           NEW t \in Nat, NEW t2 \in Nat, t <= t2, Guarded(hist, coll, ttl, t),
           \A d \in coll : \E d2 \in coll2 : d2.key = d.key /\ d2.exp = d.exp
    PROVE  Guarded(hist, coll2, ttl, t2)
<1>1. \A g \in hist : g.at \in Nat
  BY DEF HistorySpace
<1>2. ASSUME NEW g \in hist
      PROVE  /\ g.at <= t2
             /\ \/ g.at + ttl <= t2
                \/ \E d \in coll2 : d.key = g.key /\ g.at + ttl <= d.exp
  <2>1. g.at \in Nat /\ g.at <= t
    BY <1>1 DEF Guarded
  <2>2. CASE g.at + ttl <= t
    BY <2>1, <2>2
  <2>3. CASE \E d \in coll : d.key = g.key /\ g.at + ttl <= d.exp
    BY <2>1, <2>3
  <2>4. QED
    BY <2>2, <2>3 DEF Guarded
<1>3. QED
  BY <1>2 DEF Guarded

SpacedBy(hist, coll, ttl) == Spaced(hist, ttl) /\ Guarded(hist, coll, ttl, now)

SpacingInv ==
    /\ SpacedBy(admissions, replays, Tolerance)
    /\ SpacedBy(starts, idem, IdemTTL)
    /\ SpacedBy(claims, events, DedupTTL)

LEMMA SpacingInit == Init => SpacingInv
BY DEF Init, SpacingInv, SpacedBy, Spaced, Guarded

\* The clock never goes back, and stays put except in Tick.
LEMMA ClockStep ==
    ASSUME TypeInv, [Next]_vars
    PROVE  /\ now \in Nat /\ now' \in Nat /\ now <= now'
           /\ Tick \/ now' = now
<1>1. now \in Nat
  BY ClockType
<1>2. Tick \/ now' = now
  BY DEF Next, Handle, TtlDelete, Crash, Restart, Send, Arrive, TurnAway, GuardInsert, IdemInsert,
         IdemLookup, DedupInsert, DedupError, Post, SkipPost, Finish, vars
<1>3. QED
  BY <1>1, <1>2 DEF Tick

LEMMA AdmissionsStep ==
    ASSUME TypeInv, [Next]_vars, SpacedBy(admissions, replays, Tolerance)
    PROVE  SpacedBy(admissions, replays, Tolerance)'
<1>1. admissions \subseteq HistorySpace(GuardKeys) /\ Tolerance \in Nat
      /\ \A d \in replays : d.exp \in Nat
  BY WebhookAssumption DEF TypeInv, TypeOK, TtlSpace
<1>2. now \in Nat /\ now' \in Nat /\ now <= now' /\ (Tick \/ now' = now)
  BY ClockStep
<1>3. CASE UNCHANGED <<admissions, replays>>
  BY <1>1, <1>2, <1>3, LaterGuards DEF SpacedBy
<1>4. ASSUME NEW d \in replays, Expired(d), replays' = replays \ {d},
             UNCHANGED <<now, admissions>>
      PROVE  SpacedBy(admissions, replays, Tolerance)'
  BY <1>1, <1>2, <1>4, DeleteGuards DEF SpacedBy, Expired
<1>5. ASSUME NEW r \in Requests, NEW key, Fresh(replays, key), UNCHANGED now,
             replays' = replays \cup {[key |-> key, exp |-> now + Tolerance]},
             admissions' = admissions \cup {[req |-> r, key |-> key, at |-> now]}
      PROVE  SpacedBy(admissions, replays, Tolerance)'
  <2> DEFINE h == [req |-> r, key |-> key, at |-> now]
             d == [key |-> key, exp |-> now + Tolerance]
  <2>1. h.at = now /\ Fresh(replays, h.key) /\ d.key = h.key /\ d.exp = now + Tolerance
    BY <1>5
  <2>2. replays' = replays \cup {d} /\ admissions' = admissions \cup {h} /\ now' = now
    BY <1>5
  <2> HIDE DEF h, d
  <2>3. QED
    BY <1>1, <1>2, <2>1, <2>2, InsertSpaces DEF SpacedBy
<1>6. CASE TtlDelete
  BY <1>3, <1>4, <1>6 DEF TtlDelete, history
<1>7. ASSUME NEW r \in Requests, GuardInsert(r)
      PROVE  SpacedBy(admissions, replays, Tolerance)'
  BY <1>3, <1>5, <1>7 DEF GuardInsert
<1>8. QED
  BY <1>3, <1>6, <1>7
  DEF Next, Handle, Tick, Crash, Restart, Send, Arrive, TurnAway, IdemInsert, IdemLookup,
      DedupInsert, DedupError, Post, SkipPost, Finish, vars, store, history

LEMMA StartsStep ==
    ASSUME TypeInv, [Next]_vars, SpacedBy(starts, idem, IdemTTL)
    PROVE  SpacedBy(starts, idem, IdemTTL)'
<1>1. starts \subseteq HistorySpace(Keys) /\ IdemTTL \in Nat
      /\ \A d \in idem : d.exp \in Nat
  BY WebhookAssumption DEF TypeInv, TypeOK, RecordSpace
<1>2. now \in Nat /\ now' \in Nat /\ now <= now' /\ (Tick \/ now' = now)
  BY ClockStep
<1>3. CASE UNCHANGED <<starts, idem>>
  BY <1>1, <1>2, <1>3, LaterGuards DEF SpacedBy
<1>4. ASSUME NEW d \in idem, Expired(d), idem' = idem \ {d}, UNCHANGED <<now, starts>>
      PROVE  SpacedBy(starts, idem, IdemTTL)'
  BY <1>1, <1>2, <1>4, DeleteGuards DEF SpacedBy, Expired
<1>5. ASSUME NEW r \in Requests, IdemInsert(r)
      PROVE  SpacedBy(starts, idem, IdemTTL)'
  <2> DEFINE h == [req |-> r, key |-> msg[r].key, at |-> now]
  <2>1. CASE /\ Fresh(idem, msg[r].key) /\ idem' = idem \cup {NewRecord(r)}
             /\ starts' = starts \cup {h}
    <3>1. NewRecord(r).key = h.key /\ NewRecord(r).exp = now + IdemTTL
      BY DEF NewRecord
    <3>2. h.at = now /\ Fresh(idem, h.key)
      BY <2>1
    <3> HIDE DEF h
    <3>3. QED
      BY <1>1, <1>2, <1>5, <2>1, <3>1, <3>2, InsertSpaces DEF SpacedBy, IdemInsert
  <2>2. QED
    BY <1>3, <1>5, <2>1 DEF IdemInsert
<1>6. ASSUME NEW r \in Requests, Finish(r)
      PROVE  SpacedBy(starts, idem, IdemTTL)'
  <2>1. ASSUME NEW d \in idem, idem' = (idem \ {d}) \cup {Outcome(r, d)}
        PROVE  \A x \in idem : \E y \in idem' : y.key = x.key /\ y.exp = x.exp
    <3>1. d \in RecordSpace
      BY DEF TypeInv, TypeOK
    <3>2. Outcome(r, d).key = d.key /\ Outcome(r, d).exp = d.exp
      BY <3>1 DEF Outcome, RecordSpace
    <3>3. QED
      BY <2>1, <3>2
  <2>2. \A x \in idem : \E y \in idem' : y.key = x.key /\ y.exp = x.exp
    BY <1>6, <2>1 DEF Finish
  <2>3. starts' = starts
    BY <1>6 DEF Finish, history
  <2>4. QED
    BY <1>1, <1>2, <2>2, <2>3, LaterGuards DEF SpacedBy
<1>7. CASE TtlDelete
  BY <1>3, <1>4, <1>7 DEF TtlDelete, history
<1>8. QED
  BY <1>3, <1>5, <1>6, <1>7
  DEF Next, Handle, Tick, Crash, Restart, Send, Arrive, TurnAway, GuardInsert, IdemLookup,
      DedupInsert, DedupError, Post, SkipPost, vars, store, history

LEMMA ClaimsStep ==
    ASSUME TypeInv, [Next]_vars, SpacedBy(claims, events, DedupTTL)
    PROVE  SpacedBy(claims, events, DedupTTL)'
<1>1. claims \subseteq HistorySpace(EventIds) /\ DedupTTL \in Nat
      /\ \A d \in events : d.exp \in Nat
  BY WebhookAssumption DEF TypeInv, TypeOK, TtlSpace
<1>2. now \in Nat /\ now' \in Nat /\ now <= now' /\ (Tick \/ now' = now)
  BY ClockStep
<1>3. CASE events \subseteq events' /\ UNCHANGED claims
  BY <1>1, <1>2, <1>3, LaterGuards DEF SpacedBy
<1>4. ASSUME NEW d \in events, Expired(d), events' = events \ {d}, UNCHANGED <<now, claims>>
      PROVE  SpacedBy(claims, events, DedupTTL)'
  BY <1>1, <1>2, <1>4, DeleteGuards DEF SpacedBy, Expired
<1>5. ASSUME NEW r \in Requests, NEW key, Fresh(events, key), UNCHANGED now,
             events' = events \cup {[key |-> key, exp |-> now + DedupTTL]},
             claims' = claims \cup {[req |-> r, key |-> key, at |-> now]}
      PROVE  SpacedBy(claims, events, DedupTTL)'
  <2> DEFINE h == [req |-> r, key |-> key, at |-> now]
             d == [key |-> key, exp |-> now + DedupTTL]
  <2>1. h.at = now /\ Fresh(events, h.key) /\ d.key = h.key /\ d.exp = now + DedupTTL
    BY <1>5
  <2>2. events' = events \cup {d} /\ claims' = claims \cup {h} /\ now' = now
    BY <1>5
  <2> HIDE DEF h, d
  <2>3. QED
    BY <1>1, <1>2, <2>1, <2>2, InsertSpaces DEF SpacedBy
<1>6. CASE TtlDelete
  BY <1>3, <1>4, <1>6 DEF TtlDelete, history
<1>7. ASSUME NEW r \in Requests, DedupInsert(r)
      PROVE  SpacedBy(claims, events, DedupTTL)'
  BY <1>3, <1>5, <1>7 DEF DedupInsert
<1>8. ASSUME NEW r \in Requests, DedupError(r)
      PROVE  SpacedBy(claims, events, DedupTTL)'
  BY <1>3, <1>8 DEF DedupError, history
<1>9. QED
  BY <1>3, <1>6, <1>7, <1>8
  DEF Next, Handle, Tick, Crash, Restart, Send, Arrive, TurnAway, GuardInsert, IdemInsert,
      IdemLookup, Post, SkipPost, Finish, vars, store, history

LEMMA SpacingNext == TypeInv /\ SpacingInv /\ [Next]_vars => SpacingInv'
BY AdmissionsStep, StartsStep, ClaimsStep DEF SpacingInv

LEMMA SpacingCorrect == Spec => [](TypeInv /\ SpacingInv)
BY TypeInvInit, TypeInvNext, SpacingInit, SpacingNext, PTL DEF Spec

\* Of the requests that carry one event id, over all instances, at most one per
\* DedupTTL gets past deduplicate: whatever interleaving, crash or retry.
THEOREM DedupExcludes == Spec => []ClaimsSpaced
<1>1. SpacingInv => ClaimsSpaced
  BY DEF SpacingInv, SpacedBy, ClaimsSpaced
<1>2. QED
  BY <1>1, SpacingCorrect, PTL

\* One stamp, body and text of a signature pass the replay guard at most once per
\* Tolerance.
THEOREM GuardExcludes == Spec => []AdmissionsSpaced
<1>1. SpacingInv => AdmissionsSpaced
  BY DEF SpacingInv, SpacedBy, AdmissionsSpaced
<1>2. QED
  BY <1>1, SpacingCorrect, PTL

\* At most one request per IdemTTL creates the record of an idempotency key.
THEOREM FirstWriterWins == Spec => []StartsSpaced
<1>1. SpacingInv => StartsSpaced
  BY DEF SpacingInv, SpacedBy, StartsSpaced
<1>2. QED
  BY <1>1, SpacingCorrect, PTL
--------------------------------------------------------------------------------
(* The ingress implements EventLedger *)

\* Who holds a claim, and how many posts it has used.
ClaimInv ==
    /\ \A c \in claims : pc[c.req] \in {"forward", "finish", "done", "lost"}
    /\ \A r \in Requests :
         /\ pc[r] = "forward" => \E c \in claims : c.req = r
         /\ pc[r] = "forward" => tries[r] < MaxAttempts
         /\ pc[r] \in InFlight \ {"forward", "finish"} \/ pc[r] = "unsent" => tries[r] = 0
         /\ taken[r] <= tries[r]

LEMMA ClaimInit == Init => ClaimInv
BY WebhookAssumption DEF Init, ClaimInv, InFlight

\* A handler's step off the forwarding path.
LEMMA ClaimStays ==
    ASSUME TypeInv, ClaimInv, NEW r \in Requests, pc[r] # "forward",
           \A q \in Requests \ {r} : pc'[q] = pc[q],
           pc'[r] # "forward",
           pc[r] \in {"arrive", "guard", "idem", "lookup", "dedup", "finish"},
           pc[r] = "finish" => pc'[r] = "done",
           UNCHANGED <<claims, tries, taken>>
    PROVE  ClaimInv'
<1>1. \A c \in claims : c.req \in Requests
  BY DEF TypeInv, TypeOK, HistorySpace
<1>2. \A q \in Requests \ {r} : pc'[q] = pc[q]
  BY DEF StepOf
<1>3. \A c \in claims' : pc'[c.req] \in {"forward", "finish", "done", "lost"}
  <2>1. pc[r] = "finish" \/ \A c \in claims : c.req # r
    BY DEF ClaimInv
  <2>2. QED
    BY <1>1, <1>2, <2>1 DEF ClaimInv
<1>4. tries[r] = 0 \/ pc'[r] = "done"
  BY DEF ClaimInv, InFlight
<1>5. QED
  BY <1>2, <1>3, <1>4 DEF ClaimInv, InFlight

\* Where Reject, Respond and Validate leave r.
LEMMA WhereTo ==
    ASSUME TypeInv, NEW r \in Requests
    PROVE  /\ \A a : Reject(r, a) => pc'[r] = "done"
           /\ \A out : Respond(r, out) => pc'[r] \in {"finish", "done"}
           /\ Validate(r) => pc'[r] \in {"dedup", "finish", "done"}
           /\ \A p : Goto(r, p) => pc'[r] = p
<1>1. \A p : Goto(r, p) => pc'[r] = p
  BY DEF Goto, TypeInv, TypeOK
<1>2. \A out : Respond(r, out) => pc'[r] \in {"finish", "done"}
  BY <1>1 DEF Respond
<1>3. QED
  BY <1>1, <1>2 DEF Reject, Validate

\* An answer moves nobody else.
LEMMA RespondOthers ==
    ASSUME TypeInv, NEW r \in Requests
    PROVE  \A out : Respond(r, out) => \A q \in Requests \ {r} : pc'[q] = pc[q]
BY DEF Respond, Goto, TypeInv, TypeOK

\* StepOf and tries for each handler of the chain.
LEMMA ChainStep ==
    ASSUME TypeInv, NEW r \in Requests,
           Arrive(r) \/ GuardInsert(r) \/ IdemInsert(r) \/ IdemLookup(r)
           \/ DedupError(r) \/ Finish(r)
    PROVE  /\ pc[r] \in {"arrive", "guard", "idem", "lookup", "dedup", "finish"}
           /\ pc'[r] # "forward"
           /\ pc[r] = "finish" => pc'[r] = "done"
           /\ \A q \in Requests \ {r} : pc'[q] = pc[q]
           /\ UNCHANGED <<now, claims, tries, taken>>
<1>1. \A p : Goto(r, p) => \A q \in Requests \ {r} : pc'[q] = pc[q]
  BY DEF Goto, TypeInv, TypeOK
<1>2. \A out : Respond(r, out) => \A q \in Requests \ {r} : pc'[q] = pc[q]
  BY RespondOthers
<1>3. \A a : Reject(r, a) => UNCHANGED tries /\ \A q \in Requests \ {r} : pc'[q] = pc[q]
  BY <1>1 DEF Reject
<1>4. Validate(r) => UNCHANGED tries /\ \A q \in Requests \ {r} : pc'[q] = pc[q]
  BY <1>1, <1>2 DEF Validate
<1>5. CASE Arrive(r)
  BY <1>1, <1>3, <1>5, WhereTo DEF Arrive, TurnAway, history
<1>6. CASE GuardInsert(r)
  BY <1>1, <1>3, <1>4, <1>6, WhereTo DEF GuardInsert
<1>7. CASE IdemInsert(r)
  BY <1>1, <1>4, <1>7, WhereTo DEF IdemInsert
<1>8. CASE IdemLookup(r)
  BY <1>3, <1>4, <1>8, WhereTo DEF IdemLookup, history
<1>9. CASE DedupError(r)
  BY <1>2, <1>9, WhereTo DEF DedupError, history
<1>10. CASE Finish(r)
  BY <1>1, <1>10, WhereTo DEF Finish, history
<1>11. QED
  BY <1>5, <1>6, <1>7, <1>8, <1>9, <1>10

\* A claim is taken by a request that has none, on an id nobody holds.
LEMMA DedupClaims ==
    ASSUME TypeInv, ClaimInv, NEW r \in Requests, DedupInsert(r)
    PROVE  /\ \A c \in claims : c.req # r
           /\ ClaimInv'
<1>1. pc[r] = "dedup" /\ tries[r] = 0 /\ \A c \in claims : c.req # r /\ c.req \in Requests
  BY DEF DedupInsert, ClaimInv, InFlight, TypeInv, TypeOK, HistorySpace
<1>2. \A q \in Requests \ {r} : pc'[q] = pc[q]
  BY DEF DedupInsert, Respond, Goto, TypeInv, TypeOK
<1>3. CASE Respond(r, "duplicate") /\ UNCHANGED claims
  <2>1. pc'[r] \in {"finish", "done"}
    BY <1>3, WhereTo
  <2>2. UNCHANGED <<claims, tries, taken>>
    BY <1>3 DEF DedupInsert
  <2>3. QED
    BY <1>1, <1>2, <2>1, <2>2 DEF ClaimInv, InFlight
<1>4. ASSUME NEW h, h.req = r, claims' = claims \cup {h}, Goto(r, "forward")
      PROVE  ClaimInv'
  <2>1. pc'[r] = "forward"
    BY <1>4, WhereTo
  <2>2. UNCHANGED <<tries, taken>> /\ 0 < MaxAttempts
    BY WebhookAssumption DEF DedupInsert
  <2>3. \E c \in claims' : c.req = r
    BY <1>4
  <2>4. \A c \in claims' : c \in claims \/ c.req = r
    BY <1>4
  <2>5. claims \subseteq claims'
    BY <1>4
  <2>6. \A c \in claims' : pc'[c.req] \in {"forward", "finish", "done", "lost"}
    BY <1>1, <1>2, <2>1, <2>4 DEF ClaimInv
  <2>7. \A q \in Requests \ {r} : pc'[q] = "forward" => \E c \in claims' : c.req = q
    BY <1>2, <2>5 DEF ClaimInv
  <2>8. ASSUME NEW q \in Requests
        PROVE  /\ pc'[q] = "forward" => \E c \in claims' : c.req = q
               /\ pc'[q] = "forward" => tries'[q] < MaxAttempts
               /\ pc'[q] \in InFlight \ {"forward", "finish"} \/ pc'[q] = "unsent"
                    => tries'[q] = 0
               /\ taken'[q] <= tries'[q]
    <3>1. CASE q = r
      BY <1>1, <2>1, <2>2, <2>3, <3>1 DEF ClaimInv
    <3>2. CASE q # r
      BY <1>2, <2>2, <2>7, <3>2 DEF ClaimInv
    <3>3. QED
      BY <3>1, <3>2
  <2>9. QED
    BY <2>6, <2>8 DEF ClaimInv
<1>5. CASE /\ claims' = claims \cup {[req |-> r, key |-> eid[r], at |-> now]}
           /\ Goto(r, "forward")
  <2> DEFINE h == [req |-> r, key |-> eid[r], at |-> now]
  <2>1. h.req = r
    OBVIOUS
  <2>2. claims' = claims \cup {h}
    BY <1>5
  <2> HIDE DEF h
  <2>3. \E g : g.req = r /\ claims' = claims \cup {g}
    BY <2>1, <2>2
  <2>4. Goto(r, "forward")
    BY <1>5
  <2>5. QED
    BY <1>1, <1>4, <2>3, <2>4
<1>6. QED
  BY <1>1, <1>3, <1>5 DEF DedupInsert

\* A post uses up one of the attempts of the holder of a claim.
LEMMA PostClaims ==
    ASSUME TypeInv, ClaimInv, NEW r \in Requests, Post(r) \/ SkipPost(r)
    PROVE  /\ taken' = taken \/ taken' = [taken EXCEPT ![r] = @ + 1]
           /\ taken[r] < MaxAttempts /\ \E c \in claims : c.req = r
           /\ UNCHANGED <<now, claims>>
           /\ ClaimInv'
<1>1. /\ pc[r] = "forward" /\ UNCHANGED <<now, claims>>
      /\ tries[r] \in Nat /\ taken[r] \in Nat /\ MaxAttempts \in Nat
      /\ \A c \in claims : c.req \in Requests
  BY WebhookAssumption DEF Post, SkipPost, Accept, history, TypeInv, TypeOK, HistorySpace
<1>2. tries[r] < MaxAttempts /\ taken[r] <= tries[r] /\ \E c \in claims : c.req = r
  BY <1>1 DEF ClaimInv
<1>3. /\ \A q \in Requests \ {r} : pc'[q] = pc[q]
      /\ \/ pc'[r] \in {"finish", "done"}
         \/ pc'[r] = "forward" /\ tries[r] + 1 < MaxAttempts /\ tries' = [tries EXCEPT ![r] = @ + 1]
  <2>1. \/ Respond(r, "accepted")
        \/ /\ UNCHANGED pc
           /\ tries[r] + 1 < MaxAttempts /\ tries' = [tries EXCEPT ![r] = @ + 1]
    BY <1>1 DEF Post, SkipPost, Accept, LastTry
  <2>2. QED
    BY <1>1, <2>1, WhereTo, RespondOthers
<1>4. taken' = taken \/ taken' = [taken EXCEPT ![r] = @ + 1]
  BY DEF Post, SkipPost, Accept, Took, history
<1>5. \/ tries' = [tries EXCEPT ![r] = @ + 1]
      \/ UNCHANGED <<tries, taken>> /\ SkipPost(r)
  BY DEF Post, SkipPost, Accept, history
<1>6. \A q \in Requests : tries'[q] = tries[q] \/ q = r
  BY <1>5 DEF TypeInv, TypeOK
<1>7. \A q \in Requests : taken'[q] = taken[q] \/ q = r
  BY <1>4 DEF TypeInv, TypeOK
<1>8. taken'[r] <= tries'[r]
  BY <1>1, <1>2, <1>4, <1>5 DEF TypeInv, TypeOK
<1>9. pc'[r] = "forward" => tries'[r] < MaxAttempts
  BY <1>1, <1>3 DEF TypeInv, TypeOK
<1>10. ClaimInv'
  <2>1. \A c \in claims' : pc'[c.req] \in {"forward", "finish", "done", "lost"}
    <3>1. pc'[r] \in {"forward", "finish", "done", "lost"}
      BY <1>1, <1>3
    <3>2. QED
      BY <1>1, <1>3, <3>1 DEF ClaimInv
  <2>2. ASSUME NEW q \in Requests
        PROVE  /\ pc'[q] = "forward" => \E c \in claims' : c.req = q
               /\ pc'[q] = "forward" => tries'[q] < MaxAttempts
               /\ pc'[q] \in InFlight \ {"forward", "finish"} \/ pc'[q] = "unsent"
                    => tries'[q] = 0
               /\ taken'[q] <= tries'[q]
    <3>1. CASE q = r
      BY <1>1, <1>2, <1>3, <1>8, <1>9, <3>1 DEF InFlight
    <3>2. CASE q # r
      BY <1>1, <1>3, <1>6, <1>7, <3>2 DEF ClaimInv
    <3>3. QED
      BY <3>1, <3>2
  <2>3. QED
    BY <2>1, <2>2 DEF ClaimInv
<1>11. QED
  BY <1>1, <1>2, <1>4, <1>10

\* Time, the TTL monitor, senders, crashes and restarts take no claim and post
\* nothing.
LEMMA EnvironmentClaims ==
    ASSUME TypeInv, ClaimInv,
           \/ Tick \/ TtlDelete
           \/ \E i \in Instances : Crash(i) \/ Restart(i)
           \/ \E r \in Requests : Send(r)
    PROVE  ClaimInv' /\ UNCHANGED <<claims, taken>>
<1>1. UNCHANGED <<claims, taken, tries>>
  BY DEF Tick, TtlDelete, Crash, Restart, Send, local, history
<1>2. CASE UNCHANGED pc
  BY <1>1, <1>2 DEF ClaimInv
<1>3. ASSUME NEW i \in Instances, Crash(i)
      PROVE  ClaimInv'
  <2>1. \A q \in Requests : pc'[q] = pc[q] \/ pc'[q] = "lost"
    BY <1>3 DEF Crash
  <2>2. \A c \in claims : c.req \in Requests
    BY DEF TypeInv, TypeOK, HistorySpace
  <2>3. QED
    BY <1>1, <2>1, <2>2 DEF ClaimInv, InFlight
<1>4. ASSUME NEW r \in Requests, Send(r)
      PROVE  ClaimInv'
  <2>1. pc[r] = "unsent" /\ pc' = [pc EXCEPT ![r] = "arrive"] /\ pc'[r] = "arrive"
    BY <1>4 DEF Send, Goto, TypeInv, TypeOK
  <2>2. \A q \in Requests \ {r} : pc'[q] = pc[q]
    BY <2>1 DEF TypeInv, TypeOK
  <2>3. \A c \in claims : c.req \in Requests /\ c.req # r
    BY <2>1 DEF TypeInv, TypeOK, HistorySpace, ClaimInv
  <2>4. QED
    BY <1>1, <2>1, <2>2, <2>3 DEF ClaimInv, InFlight
<1>5. QED
  BY <1>1, <1>2, <1>3, <1>4 DEF Tick, TtlDelete, Restart, local

LEMMA ClaimNext == TypeInv /\ ClaimInv /\ [Next]_vars => ClaimInv'
<1> SUFFICES ASSUME TypeInv, ClaimInv, [Next]_vars PROVE ClaimInv'
  OBVIOUS
<1>1. ASSUME NEW r \in Requests,
             Arrive(r) \/ GuardInsert(r) \/ IdemInsert(r) \/ IdemLookup(r)
             \/ DedupError(r) \/ Finish(r)
      PROVE  ClaimInv'
  <2>1. \A c \in claims : c.req \in Requests
    BY DEF TypeInv, TypeOK, HistorySpace
  <2>2. /\ pc[r] \in {"arrive", "guard", "idem", "lookup", "dedup", "finish"}
        /\ pc'[r] # "forward"
        /\ pc[r] = "finish" => pc'[r] = "done"
        /\ \A q \in Requests \ {r} : pc'[q] = pc[q]
        /\ UNCHANGED <<claims, tries, taken>>
    BY <1>1, ChainStep
  <2>3. QED
    BY <2>2, ClaimStays
<1>2. CASE UNCHANGED vars
  BY <1>2 DEF vars, local, history, ClaimInv
<1>3. QED
  BY <1>1, <1>2, DedupClaims, PostClaims, EnvironmentClaims DEF Next, Handle

\* Every step of the ingress is a step of the ledger or leaves it alone.
LEMMA LedgerStep ==
    ASSUME TypeInv, SpacingInv, ClaimInv, [Next]_vars
    PROVE  [Ledger!LedgerNext]_Ledger!ledgerVars
<1>1. ASSUME NEW r \in Requests,
             Arrive(r) \/ GuardInsert(r) \/ IdemInsert(r) \/ IdemLookup(r)
             \/ DedupError(r) \/ Finish(r)
      PROVE  UNCHANGED <<now, claims, taken>>
  BY <1>1, ChainStep
<1>2. ASSUME NEW r \in Requests, DedupInsert(r)
      PROVE  \/ UNCHANGED <<now, claims, taken>>
             \/ \E e \in EventIds : Ledger!TakeClaim(r, e)
  <2>1. CASE Fresh(events, eid[r])
             /\ claims' = claims \cup {[req |-> r, key |-> eid[r], at |-> now]}
    <3>1. eid[r] \in EventIds
      BY <1>2 DEF DedupInsert, TypeInv, TypeOK, PlaceInv, WellPlaced
    <3>2. Ledger!Unclaimed(eid[r])
      BY <2>1 DEF Ledger!Unclaimed, SpacingInv, SpacedBy, Guarded, Fresh
    <3>3. \A c \in claims : c.req # r
      BY <1>2, DedupClaims
    <3>4. UNCHANGED <<now, taken>>
      BY <1>2 DEF DedupInsert
    <3>5. Ledger!TakeClaim(r, eid[r])
      BY <2>1, <3>2, <3>3, <3>4 DEF Ledger!TakeClaim
    <3>6. QED
      BY <3>1, <3>5
  <2>2. QED
    BY <1>2, <2>1 DEF DedupInsert
<1>3. ASSUME NEW r \in Requests, Post(r) \/ SkipPost(r)
      PROVE  UNCHANGED <<now, claims, taken>> \/ Ledger!DeliverOnce(r)
  BY <1>3, PostClaims DEF Ledger!DeliverOnce
<1>4. CASE Tick
  BY <1>4, EnvironmentClaims DEF Tick, Ledger!LedgerNext, Ledger!Advance
<1>5. CASE \/ TtlDelete
           \/ \E i \in Instances : Crash(i) \/ Restart(i)
           \/ \E r \in Requests : Send(r)
  <2>1. now' = now
    BY <1>5 DEF TtlDelete, Crash, Restart, Send
  <2>2. QED
    BY <1>5, <2>1, EnvironmentClaims DEF Ledger!ledgerVars
<1>6. CASE UNCHANGED vars
  BY <1>6 DEF vars, history, Ledger!ledgerVars
<1>7. QED
  BY <1>1, <1>2, <1>3, <1>4, <1>5, <1>6
  DEF Next, Handle, Ledger!LedgerNext, Ledger!ledgerVars

\* The ingress implements EventLedger, whatever is delivered, crashes or
\* expires: claims exclude each other for DedupTTL, only the holder of a claim
\* posts, and n8n takes its event at most MaxAttempts times.
THEOREM IngressImplementsLedger == Spec => ImplementsLedger
<1>1. Init => Ledger!LedgerInit
  BY DEF Init, Ledger!LedgerInit
<1>2. Spec => []ClaimInv
  <2>1. Spec => []TypeInv
    BY TypeInvInit, TypeInvNext, PTL DEF Spec
  <2>2. QED
    BY <2>1, ClaimInit, ClaimNext, PTL DEF Spec
<1>3. TypeInv /\ SpacingInv /\ ClaimInv /\ [Next]_vars
        => [Ledger!LedgerNext]_Ledger!ledgerVars
  BY LedgerStep
<1>4. QED
  BY <1>1, <1>2, <1>3, SpacingCorrect, PTL DEF Spec, ImplementsLedger, Ledger!LedgerSpec
--------------------------------------------------------------------------------
(* What a step leaves alone: the request that moves changes only itself, and *)
(* nothing that was said, stored in a history or answered is ever changed.    *)

\* Before a delivery there is no message and no event id; the event id is set
\* once, to the header key or, without one, to the payload and a day.
SentInv ==
    \A r \in Requests :
        /\ pc[r] = "unsent" => msg[r] = None
        /\ pc[r] \in {"unsent", "arrive", "guard", "idem", "lookup"} => eid[r] = None
        /\ eid[r] # None =>
              /\ msg[r] # None
              /\ \/ msg[r].key # None /\ eid[r] = msg[r].key
                 \/ /\ msg[r].key = None /\ Canon[msg[r].body] \in Payloads
                    /\ \E t \in Time : eid[r] = <<Canon[msg[r].body], Day(t)>>

\* A handler's step moves its request only, and changes no answer.
LEMMA HandlerFrame ==
    ASSUME TypeInv, NEW r \in Requests, Handle(r)
    PROVE  /\ UNCHANGED <<now, up, inst, msg>>
           /\ pc[r] \in InFlight
           /\ resp[r] = None \/ UNCHANGED resp
           /\ \A q \in Requests \ {r} :
                 /\ pc'[q] = pc[q] /\ resp'[q] = resp[q] /\ eid'[q] = eid[q]
                 /\ tries'[q] = tries[q] /\ taken'[q] = taken[q]
           /\ taken[r] <= taken'[r] /\ tries[r] <= tries'[r]
           /\ admissions \subseteq admissions' /\ starts \subseteq starts'
           /\ claims \subseteq claims'
<1> USE DEF Reject, Respond, Validate, AnswerWith, Goto, TypeInv, TypeOK
<1>1. resp[r] = None \/ pc[r] \notin InFlight \ {"finish"}
  BY DEF PlaceInv, WellPlaced
<1>2. CASE Arrive(r)
  BY <1>1, <1>2 DEF Arrive, TurnAway, store, history, InFlight
<1>3. CASE GuardInsert(r)
  BY <1>1, <1>3 DEF GuardInsert, InFlight
<1>4. CASE IdemInsert(r)
  BY <1>1, <1>4 DEF IdemInsert, InFlight
<1>5. CASE IdemLookup(r)
  BY <1>1, <1>5 DEF IdemLookup, store, history, InFlight
<1>6. CASE DedupInsert(r) \/ DedupError(r)
  BY <1>1, <1>6 DEF DedupInsert, DedupError, history, InFlight
<1>7. CASE Post(r) \/ SkipPost(r)
  BY <1>1, <1>7 DEF Post, SkipPost, Accept, Took, store, history, InFlight
<1>8. CASE Finish(r)
  BY <1>1, <1>8 DEF Finish, history, InFlight
<1> QED BY <1>2, <1>3, <1>4, <1>5, <1>6, <1>7, <1>8 DEF Handle

\* Time, deletions, crashes, restarts and deliveries change no answer, no event
\* id and no history; a delivery is made by a request that was not sent.
LEMMA EnvironmentFrame ==
    ASSUME TypeInv,
           \/ Tick \/ TtlDelete \/ UNCHANGED vars
           \/ \E i \in Instances : Crash(i) \/ Restart(i)
           \/ \E r \in Requests : Send(r)
    PROVE  /\ UNCHANGED <<eid, tries, resp, history>>
           /\ \A q \in Requests :
                \/ msg'[q] = msg[q] /\ pc'[q] = pc[q]
                \/ msg'[q] = msg[q] /\ pc[q] \in InFlight /\ pc'[q] = "lost"
                \/ pc[q] = "unsent" /\ pc'[q] = "arrive" /\ msg'[q] # None
           /\ Tick \/ UNCHANGED now
           /\ \A d \in idem' : d \in idem
           /\ \A d \in events' : d \in events
<1>1. CASE Tick \/ TtlDelete \/ UNCHANGED vars
  BY <1>1 DEF Tick, TtlDelete, vars, local, store, history
<1>2. ASSUME NEW i \in Instances, Crash(i) \/ Restart(i)
      PROVE  /\ UNCHANGED <<eid, tries, resp, history, now, msg, store>>
             /\ \A q \in Requests :
                   pc'[q] = pc[q] \/ (pc[q] \in InFlight /\ pc'[q] = "lost")
  BY <1>2 DEF Crash, Restart, local
<1>3. ASSUME NEW r \in Requests, Send(r)
      PROVE  /\ UNCHANGED <<eid, tries, resp, history, now, store>>
             /\ \A q \in Requests :
                  \/ msg'[q] = msg[q] /\ pc'[q] = pc[q]
                  \/ pc[q] = "unsent" /\ pc'[q] = "arrive" /\ msg'[q] # None
  BY <1>3, WebhookAssumption DEF Send, Goto, TypeInv, TypeOK
<1> QED BY <1>1, <1>2, <1>3 DEF store

\* What a step can never take back.
LEMMA Lasting ==
    ASSUME TypeInv, SentInv, [Next]_vars
    PROVE  /\ now \in Nat /\ now' \in Nat /\ now <= now'
           /\ admissions \subseteq admissions' /\ starts \subseteq starts'
           /\ claims \subseteq claims'
           /\ \A q \in Requests :
                 /\ msg[q] # None => msg'[q] = msg[q]
                 /\ resp[q] # None => resp'[q] = resp[q]
                 /\ taken[q] > 0 => taken'[q] > 0
                 /\ tries[q] > 0 => tries'[q] > 0
<1>0. now \in Nat /\ now' \in Nat /\ now <= now'
  BY ClockStep
<1>1. ASSUME NEW r \in Requests, Handle(r)
      PROVE  /\ admissions \subseteq admissions' /\ starts \subseteq starts'
             /\ claims \subseteq claims'
             /\ \A q \in Requests :
                 /\ msg[q] # None => msg'[q] = msg[q]
                 /\ resp[q] # None => resp'[q] = resp[q]
                 /\ taken[q] > 0 => taken'[q] > 0
                 /\ tries[q] > 0 => tries'[q] > 0
  <2>1. /\ taken[r] \in Nat /\ tries[r] \in Nat
        /\ taken'[r] \in Nat /\ tries'[r] \in Nat
    BY TypeInvNext DEF TypeInv, TypeOK
  <2> QED BY <1>1, <2>1, HandlerFrame
<1>2. CASE \/ Tick \/ TtlDelete \/ UNCHANGED vars
           \/ \E i \in Instances : Crash(i) \/ Restart(i)
           \/ \E r \in Requests : Send(r)
  <2>1. UNCHANGED <<admissions, starts, claims, taken, tries, resp>>
    BY <1>2, EnvironmentFrame DEF history
  <2>2. \A q \in Requests : msg[q] # None => msg'[q] = msg[q]
    BY <1>2, EnvironmentFrame DEF SentInv
  <2> QED BY <1>0, <2>1, <2>2
<1> QED BY <1>0, <1>1, <1>2 DEF Next

LEMMA SentInit == Init => SentInv
BY DEF Init, SentInv

\* Where Validate is entered, there is no event id yet.
LEMMA SentNext == TypeInv /\ SentInv /\ [Next]_vars => SentInv'
<1> SUFFICES ASSUME TypeInv, SentInv, [Next]_vars PROVE SentInv'
  OBVIOUS
<1>1. ASSUME NEW r \in Requests, Handle(r)
      PROVE  SentInv'
  <2>1. /\ UNCHANGED msg /\ pc[r] # "unsent"
        /\ \A q \in Requests \ {r} : pc'[q] = pc[q] /\ eid'[q] = eid[q]
    BY <1>1, HandlerFrame DEF InFlight
  <2>2. msg[r] # None /\ msg[r] \in MessageSpace
    BY <2>1, MessageType
  <2>3. \/ UNCHANGED eid /\ (pc'[r] = "lookup" => pc[r] \in {"idem", "lookup"})
           /\ (pc'[r] \in {"guard", "idem"} => pc[r] \in {"arrive", "guard", "idem"})
           /\ pc'[r] \notin {"unsent", "arrive"}
        \/ Validate(r) /\ Canon[msg[r].body] # None
    <3> USE DEF Reject, Respond, Validate, AnswerWith, Goto, TypeInv, TypeOK
    <3>1. CASE Arrive(r)
      BY <3>1 DEF Arrive, TurnAway
    <3>2. CASE GuardInsert(r)
      BY <3>2 DEF GuardInsert
    <3>3. CASE IdemInsert(r) \/ IdemLookup(r)
      BY <3>3 DEF IdemInsert, IdemLookup
    <3>4. CASE DedupInsert(r) \/ DedupError(r)
      BY <3>4 DEF DedupInsert, DedupError
    <3>5. CASE Post(r) \/ SkipPost(r) \/ Finish(r)
      BY <3>5 DEF Post, SkipPost, Accept, Finish
    <3> QED BY <1>1, <3>1, <3>2, <3>3, <3>4, <3>5 DEF Handle
  <2>4. CASE Validate(r) /\ Canon[msg[r].body] # None
    <3>1. eid'[r] = EventId(r) /\ pc'[r] = "dedup"
      BY <2>4 DEF Validate, Goto, TypeInv, TypeOK
    <3>2. Canon[msg[r].body] \in Payloads /\ now \in Time
      BY <2>2, <2>4, ClockType, WebhookAssumption DEF MessageSpace
    <3> QED BY <2>1, <2>2, <3>1, <3>2 DEF EventId, SentInv
  <2>5. CASE /\ UNCHANGED eid
             /\ pc'[r] = "lookup" => pc[r] \in {"idem", "lookup"}
             /\ pc'[r] \in {"guard", "idem"} => pc[r] \in {"arrive", "guard", "idem"}
             /\ pc'[r] \notin {"unsent", "arrive"}
    BY <2>1, <2>5 DEF SentInv
  <2> QED BY <2>3, <2>4, <2>5
<1>2. CASE \/ Tick \/ TtlDelete \/ UNCHANGED vars
           \/ \E i \in Instances : Crash(i) \/ Restart(i)
           \/ \E r \in Requests : Send(r)
  BY <1>2, EnvironmentFrame DEF SentInv, InFlight
<1> QED BY <1>1, <1>2 DEF Next

\* An answer given stays the answer: no branch of the chain answers and goes on
\* to answer again.
THEOREM AnswersAreFinal == Spec => AnsweredOnce
<1> DEFINE Final == \A r \in Requests : resp[r] # None => resp'[r] = resp[r]
<1>1. TypeInv /\ SentInv /\ [Next]_vars => [Final]_vars
  BY Lasting
<1>2. Spec => [](TypeInv /\ SentInv)
  BY TypeInvInit, TypeInvNext, SentInit, SentNext, PTL DEF Spec
<1> QED BY <1>1, <1>2, PTL DEF Spec, AnsweredOnce
--------------------------------------------------------------------------------
(* The order of the chain: n8n takes only what every middleware let through *)

\* The signature of r was accepted and recorded by the replay guard.
Vetted(r) ==
    /\ Signed(msg[r])
    /\ \E a \in admissions :
          a.req = r /\ a.key = GuardKey(msg[r]) /\ msg[r].ts - FutureSkew <= a.at

\* After that, r was found valid and claimed its event.
Cleared(r) ==
    /\ Signed(msg[r]) /\ Canon[msg[r].body] # None
    /\ \E a \in admissions :
          /\ a.req = r /\ a.key = GuardKey(msg[r]) /\ msg[r].ts - FutureSkew <= a.at
          /\ \E c \in claims : c.req = r /\ a.at <= c.at

\* What each place of the chain says of the request that got there.
VettedInv ==
    \A r \in Requests :
        /\ pc[r] = "guard" => Signed(msg[r]) /\ msg[r].ts <= now + FutureSkew
        /\ pc[r] \in {"idem", "lookup", "dedup", "forward"} => Vetted(r)
        /\ pc[r] = "forward" \/ taken[r] > 0 => Cleared(r)

\* A request stays vetted and cleared.
LEMMA VettedLasts ==
    ASSUME TypeInv, SentInv, [Next]_vars, NEW q \in Requests, msg[q] # None
    PROVE  (Vetted(q) => Vetted(q)') /\ (Cleared(q) => Cleared(q)')
<1>1. /\ msg'[q] = msg[q]
      /\ admissions \subseteq admissions' /\ claims \subseteq claims'
  BY Lasting
<1> QED BY <1>1 DEF Vetted, Cleared, GuardKey

\* Where the guard's, the admission's and the claim's part begin.
LEMMA ChainOrder ==
    ASSUME TypeInv, ClaimInv, NEW r \in Requests, Handle(r)
    PROVE  /\ pc'[r] = "guard" => SignatureValid(msg[r])
           /\ pc'[r] \in {"idem", "lookup", "dedup", "forward"} =>
                \/ pc[r] \in {"idem", "lookup", "dedup", "forward"}
                \/ /\ pc[r] = "guard"
                   /\ admissions' = admissions \cup
                                    {[req |-> r, key |-> GuardKey(msg[r]), at |-> now]}
           /\ pc'[r] = "forward" \/ taken'[r] > 0 =>
                \/ pc[r] = "forward" \/ taken[r] > 0
                \/ /\ pc[r] = "dedup"
                   /\ claims' = claims \cup {[req |-> r, key |-> eid[r], at |-> now]}
<1> USE DEF Reject, Respond, Validate, AnswerWith, Goto, TypeInv, TypeOK
<1>1. CASE Arrive(r)
  BY <1>1 DEF Arrive, TurnAway, history
<1>2. CASE GuardInsert(r)
  BY <1>2 DEF GuardInsert
<1>3. CASE IdemInsert(r) \/ IdemLookup(r)
  BY <1>3 DEF IdemInsert, IdemLookup, history
<1>4. CASE DedupInsert(r) \/ DedupError(r)
  BY <1>4 DEF DedupInsert, DedupError, history
<1>5. CASE Post(r) \/ SkipPost(r)
  BY <1>5 DEF Post, SkipPost, Accept
<1>6. CASE Finish(r)
  BY <1>6 DEF Finish, history
<1> QED BY <1>1, <1>2, <1>3, <1>4, <1>5, <1>6 DEF Handle

LEMMA VettedNext ==
    TypeInv /\ SpacingInv /\ SentInv /\ ClaimInv /\ VettedInv /\ [Next]_vars => VettedInv'
<1> SUFFICES ASSUME TypeInv, SpacingInv, SentInv, ClaimInv, VettedInv, [Next]_vars
             PROVE  VettedInv'
  OBVIOUS
<1>0. /\ now \in Nat /\ now' \in Nat /\ now <= now' /\ FutureSkew \in Nat
      /\ \A q \in Requests : msg[q] # None => msg'[q] = msg[q]
      /\ \A q \in Requests : msg[q] # None /\ Vetted(q) => Vetted(q)'
      /\ \A q \in Requests : msg[q] # None /\ Cleared(q) => Cleared(q)'
  BY Lasting, VettedLasts, WebhookAssumption
<1>1. \A q \in Requests : pc[q] # "unsent" => msg[q] # None /\ msg[q].ts \in Nat
  BY MessageType DEF MessageSpace
<1>2. \A q \in Requests : taken[q] > 0 => pc[q] # "unsent"
  BY DEF ClaimInv, TypeInv, TypeOK
<1>3. ASSUME NEW q \in Requests, pc'[q] = pc[q] \/ pc'[q] \in {"lost", "arrive"},
             taken'[q] = taken[q]
      PROVE  /\ pc'[q] = "guard" => Signed(msg'[q]) /\ msg'[q].ts <= now' + FutureSkew
             /\ pc'[q] \in {"idem", "lookup", "dedup", "forward"} => Vetted(q)'
             /\ pc'[q] = "forward" \/ taken'[q] > 0 => Cleared(q)'
  BY <1>0, <1>1, <1>2, <1>3 DEF VettedInv
<1>4. ASSUME NEW r \in Requests, Handle(r)
      PROVE  VettedInv'
  <2>1. /\ UNCHANGED <<now, msg>> /\ pc[r] # "unsent"
        /\ \A q \in Requests \ {r} : pc'[q] = pc[q] /\ taken'[q] = taken[q]
        /\ claims \subseteq claims' /\ admissions \subseteq admissions'
    BY <1>4, HandlerFrame DEF InFlight
  <2>2. pc'[r] = "guard" => Signed(msg'[r]) /\ msg'[r].ts <= now' + FutureSkew
    BY <1>4, <2>1, ChainOrder DEF SignatureValid
  <2>3. pc'[r] \in {"idem", "lookup", "dedup", "forward"} => Vetted(r)'
    <3>1. CASE pc[r] \in {"idem", "lookup", "dedup", "forward"}
      BY <1>0, <1>1, <2>1, <3>1 DEF VettedInv
    <3>2. CASE /\ pc[r] = "guard"
               /\ admissions' = admissions \cup
                                {[req |-> r, key |-> GuardKey(msg[r]), at |-> now]}
      <4>1. Signed(msg[r]) /\ msg[r].ts - FutureSkew <= now
        BY <1>0, <1>1, <3>2 DEF VettedInv
      <4> DEFINE h == [req |-> r, key |-> GuardKey(msg[r]), at |-> now]
      <4>2. h \in admissions' /\ h.req = r /\ h.key = GuardKey(msg[r]) /\ h.at = now
        BY <3>2
      <4> HIDE DEF h
      <4> QED BY <2>1, <4>1, <4>2 DEF Vetted
    <3> QED BY <1>4, <3>1, <3>2, ChainOrder
  <2>4. pc'[r] = "forward" \/ taken'[r] > 0 => Cleared(r)'
    <3>1. CASE pc[r] = "forward" \/ taken[r] > 0
      BY <1>0, <1>1, <2>1, <3>1 DEF VettedInv
    <3>2. CASE /\ pc[r] = "dedup"
               /\ claims' = claims \cup {[req |-> r, key |-> eid[r], at |-> now]}
      <4>1. Vetted(r) /\ Canon[msg[r].body] # None
        BY <3>2 DEF VettedInv, TypeInv, PlaceInv, WellPlaced
      <4>2. \A a \in admissions : a.at <= now
        BY DEF SpacingInv, SpacedBy, Guarded
      <4> DEFINE h == [req |-> r, key |-> eid[r], at |-> now]
      <4>3. h \in claims' /\ h.req = r /\ h.at = now
        BY <3>2
      <4> HIDE DEF h
      <4> QED BY <2>1, <4>1, <4>2, <4>3 DEF Vetted, Cleared, GuardKey
    <3> QED BY <1>4, <3>1, <3>2, ChainOrder
  <2> QED BY <1>3, <2>1, <2>2, <2>3, <2>4 DEF VettedInv
<1>5. CASE \/ Tick \/ TtlDelete \/ UNCHANGED vars
           \/ \E i \in Instances : Crash(i) \/ Restart(i)
           \/ \E r \in Requests : Send(r)
  <2>1. UNCHANGED taken /\ \A q \in Requests : pc'[q] = pc[q] \/ pc'[q] \in {"lost", "arrive"}
    BY <1>5, EnvironmentFrame DEF history
  <2> QED BY <1>3, <2>1 DEF VettedInv
<1> QED BY <1>4, <1>5 DEF Next

\* Everything the proofs below start from.
IngressInv == TypeInv /\ SpacingInv /\ SentInv /\ ClaimInv

LEMMA IngressCorrect == Spec => []IngressInv
BY TypeInvInit, TypeInvNext, SpacingInit, SpacingNext, SentInit, SentNext, ClaimInit,
   ClaimNext, PTL DEF Spec, IngressInv

\* Whatever n8n takes was signed, passed the replay guard no earlier than its
\* timestamp allows, is valid and was claimed after that: no path of the chain
\* in webhook.ts leaves out a middleware.
THEOREM ForwardedIsVetted == Spec => []OnlyVettedForwarded
<1>1. Init => VettedInv
  BY DEF Init, VettedInv
<1>2. IngressInv /\ VettedInv /\ [Next]_vars => VettedInv'
  BY VettedNext DEF IngressInv
<1>3. VettedInv => OnlyVettedForwarded
  BY DEF VettedInv, Cleared, OnlyVettedForwarded
<1> QED BY <1>1, <1>2, <1>3, IngressCorrect, PTL DEF Spec
--------------------------------------------------------------------------------
(* Every "duplicate" has an original *)

\* q got as far as the insert of deduplicate: it was told of an error there, or it
\* has claimed the event, and n8n took it, refused it, or can still be asked.
Original(q) ==
    \/ resp[q] = Answer("error")
    \/ /\ \E c \in claims : c.req = q
       /\ taken[q] > 0 \/ pc[q] \in {"forward", "lost"} \/ tries[q] > 0 \/ ~N8nConfigured

\* A document of processed_events, and an answer given because of one, have an
\* original.
OriginInv ==
    /\ \A d \in events : \E q \in Requests : eid[q] = d.key /\ Original(q)
    /\ \A r \in Requests : resp[r] = Answer("duplicate") =>
          eid[r] # None /\ \E q \in Requests \ {r} : eid[q] = eid[r] /\ Original(q)

\* An answer is not the absence of one.
LEMMA AnswerIsGiven == Answer("error") # None /\ Answer("duplicate") # None
<1>1. Answer("error") \in Answers /\ Answer("duplicate") \in Answers
  BY AnswerType DEF Outcomes
<1> QED BY <1>1, WebhookAssumption

\* What each step does to the event id, the collection and the answers.
LEMMA DedupEffects ==
    ASSUME TypeInv, NEW r \in Requests, Handle(r)
    PROVE  /\ UNCHANGED eid \/ pc[r] \in {"guard", "idem", "lookup"}
           /\ \/ UNCHANGED events
              \/ /\ pc[r] = "dedup"
                 /\ events' = events \cup {[key |-> eid[r], exp |-> now + DedupTTL]}
                 /\ \/ resp'[r] = Answer("error")
                    \/ /\ claims' = claims \cup {[req |-> r, key |-> eid[r], at |-> now]}
                       /\ pc'[r] = "forward"
           /\ resp'[r] = Answer("duplicate") =>
                \/ resp[r] = Answer("duplicate")
                \/ pc[r] = "dedup" /\ ~Fresh(events, eid[r])
           /\ pc[r] = "forward" =>
                pc'[r] = "forward" \/ tries'[r] > 0 \/ ~N8nConfigured
<1> USE DEF Reject, Respond, AnswerWith, Goto, TypeInv, TypeOK, Answer
<1>1. CASE Arrive(r)
  BY <1>1 DEF Arrive, TurnAway, store
<1>2. CASE GuardInsert(r)
  BY <1>2 DEF GuardInsert, Validate
<1>3. CASE IdemInsert(r)
  BY <1>3 DEF IdemInsert, Validate
<1>4. CASE IdemLookup(r)
  <2>1. \A d : AnswerFromRecord(r, d) # Answer("duplicate")
    BY DEF AnswerFromRecord, Stored
  <2> QED BY <1>4, <2>1 DEF IdemLookup, Validate, store
<1>5. CASE DedupInsert(r)
  BY <1>5 DEF DedupInsert
<1>6. CASE DedupError(r)
  BY <1>6 DEF DedupError
<1>7. CASE Post(r)
  <2>1. tries'[r] > 0
    BY <1>7 DEF Post
  <2> QED BY <1>7, <2>1 DEF Post, Accept, store
<1>8. CASE SkipPost(r) \/ Finish(r)
  BY <1>8 DEF SkipPost, Accept, Finish, store
<1> QED BY <1>1, <1>2, <1>3, <1>4, <1>5, <1>6, <1>7, <1>8 DEF Handle

\* An original stays one, with its event id.
LEMMA OriginalLasts ==
    ASSUME IngressInv, [Next]_vars, NEW q \in Requests, eid[q] # None
    PROVE  eid'[q] = eid[q] /\ (Original(q) => Original(q)')
<1>0. TypeInv /\ SentInv /\ claims \subseteq claims'
  BY Lasting DEF IngressInv
<1>1. /\ resp[q] # None => resp'[q] = resp[q]
      /\ taken[q] > 0 => taken'[q] > 0
      /\ tries[q] > 0 => tries'[q] > 0
  BY <1>0, Lasting
<1>2. /\ eid'[q] = eid[q]
      /\ pc[q] \in {"forward", "lost"} =>
            pc'[q] \in {"forward", "lost"} \/ tries'[q] > 0 \/ ~N8nConfigured
  <2>1. ASSUME NEW r \in Requests, Handle(r), q = r
        PROVE  /\ eid'[q] = eid[q]
               /\ pc[q] \in {"forward", "lost"} =>
                     pc'[q] \in {"forward", "lost"} \/ tries'[q] > 0 \/ ~N8nConfigured
    BY <1>0, <2>1, DedupEffects, HandlerFrame DEF SentInv, InFlight
  <2>2. ASSUME NEW r \in Requests, Handle(r), q # r
        PROVE  eid'[q] = eid[q] /\ pc'[q] = pc[q]
    BY <1>0, <2>2, HandlerFrame
  <2>3. CASE \/ Tick \/ TtlDelete \/ UNCHANGED vars
             \/ \E i \in Instances : Crash(i) \/ Restart(i)
             \/ \E r \in Requests : Send(r)
    BY <1>0, <2>3, EnvironmentFrame
  <2> QED BY <2>1, <2>2, <2>3 DEF Next
<1> QED BY <1>0, <1>1, <1>2, AnswerIsGiven DEF Original

LEMMA OriginNext == IngressInv /\ OriginInv /\ [Next]_vars => OriginInv'
<1> SUFFICES ASSUME IngressInv, OriginInv, [Next]_vars PROVE OriginInv'
  OBVIOUS
<1>0. TypeInv /\ SentInv /\ ClaimInv
  BY DEF IngressInv
<1>1. \A q \in Requests : eid[q] # None => eid'[q] = eid[q] /\ (Original(q) => Original(q)')
  BY OriginalLasts
<1>2. \A d \in events : d.key # None
  BY <1>0, WebhookAssumption DEF TypeInv, TypeOK, TtlSpace
<1>3. \A d \in events : \E q \in Requests : eid'[q] = d.key /\ Original(q)'
  BY <1>1, <1>2 DEF OriginInv
<1>4. \A r \in Requests : resp[r] = Answer("duplicate") =>
         eid'[r] # None /\ \E q \in Requests \ {r} : eid'[q] = eid'[r] /\ Original(q)'
  BY <1>1 DEF OriginInv
<1>5. ASSUME NEW r \in Requests, Handle(r)
      PROVE  OriginInv'
  <2>1. \A q \in Requests \ {r} : resp'[q] = resp[q]
    BY <1>0, <1>5, HandlerFrame
  <2>2. \A d \in events' : \E q \in Requests : eid'[q] = d.key /\ Original(q)'
    <3>1. CASE UNCHANGED events
      BY <1>3, <3>1
    <3>2. CASE /\ pc[r] = "dedup"
               /\ events' = events \cup {[key |-> eid[r], exp |-> now + DedupTTL]}
               /\ \/ resp'[r] = Answer("error")
                  \/ /\ claims' = claims \cup {[req |-> r, key |-> eid[r], at |-> now]}
                     /\ pc'[r] = "forward"
      <4>1. eid'[r] = eid[r]
        BY <1>0, <1>1, <3>2 DEF TypeInv, PlaceInv, WellPlaced
      <4>2. Original(r)'
        <5>1. CASE resp'[r] = Answer("error")
          BY <5>1 DEF Original, Answer
        <5>2. CASE /\ claims' = claims \cup {[req |-> r, key |-> eid[r], at |-> now]}
                   /\ pc'[r] = "forward"
          <6> DEFINE h == [req |-> r, key |-> eid[r], at |-> now]
          <6>1. h \in claims' /\ h.req = r
            BY <5>2
          <6> HIDE DEF h
          <6> QED BY <5>2, <6>1 DEF Original
        <5> QED BY <3>2, <5>1, <5>2
      <4>3. \A d \in events' : d \in events \/ d.key = eid[r]
        BY <3>2
      <4> QED BY <1>3, <4>1, <4>2, <4>3
    <3> QED BY <1>0, <1>5, <3>1, <3>2, DedupEffects
  <2>3. resp'[r] = Answer("duplicate") =>
           eid'[r] # None /\ \E q \in Requests \ {r} : eid'[q] = eid'[r] /\ Original(q)'
    <3>1. CASE pc[r] = "dedup" /\ ~Fresh(events, eid[r])
      <4>1. PICK d \in events : d.key = eid[r]
        BY <3>1 DEF Fresh
      <4>2. PICK q \in Requests : eid[q] = d.key /\ Original(q)
        BY DEF OriginInv
      <4>3. ~Original(r)
        <5>1. resp[r] = None
          BY <1>0, <3>1 DEF TypeInv, PlaceInv, WellPlaced, InFlight
        <5>2. \A c \in claims : c.req # r
          BY <1>0, <3>1 DEF ClaimInv
        <5> QED BY <5>1, <5>2, AnswerIsGiven DEF Original
      <4> QED BY <1>1, <1>2, <4>1, <4>2, <4>3
    <3> QED BY <1>0, <1>4, <1>5, <3>1, DedupEffects
  <2> QED BY <1>4, <2>1, <2>2, <2>3 DEF OriginInv, Answer
<1>6. CASE \/ Tick \/ TtlDelete \/ UNCHANGED vars
           \/ \E i \in Instances : Crash(i) \/ Restart(i)
           \/ \E r \in Requests : Send(r)
  <2>1. UNCHANGED resp /\ \A d \in events' : d \in events
    BY <1>0, <1>6, EnvironmentFrame
  <2> QED BY <1>3, <1>4, <2>1 DEF OriginInv, Answer
<1> QED BY <1>5, <1>6 DEF Next

\* Equal event ids stand for equal payloads, when they are not header keys.
LEMMA SameEvent ==
    ASSUME TypeInv, SentInv, NEW q \in Requests, NEW r \in Requests,
           eid[r] # None, eid[q] = eid[r], msg[r].key = None
    PROVE  Canon[msg[q].body] = Canon[msg[r].body]
<1>1. PICK t \in Time : eid[r] = <<Canon[msg[r].body], Day(t)>>
  BY DEF SentInv
<1>2. Canon[msg[r].body] \in Payloads /\ Day(t) \in {Day(u) : u \in Time}
  BY DEF SentInv
<1>3. CASE msg[q].key # None /\ eid[q] = msg[q].key
  <2>1. msg[q].key \in Keys
    BY <1>3, WebhookAssumption DEF SentInv, TypeInv, TypeOK, MessageSpace
  <2>2. Keys \cap (Payloads \X {Day(u) : u \in Time}) = {}
    BY WebhookAssumption
  <2>3. eid[r] \in Payloads \X {Day(u) : u \in Time}
    BY <1>1, <1>2
  <2> QED BY <1>3, <2>1, <2>2, <2>3
<1>4. CASE \E u \in Time : eid[q] = <<Canon[msg[q].body], Day(u)>>
  BY <1>1, <1>4
<1> QED BY <1>3, <1>4 DEF SentInv

\* Nobody is told "duplicate" unless another request got as far as the insert for
\* the same key or payload and day, and if that one claimed the event, it has
\* posted it, is still at it, died at it, or there is nothing to post to.
THEOREM DuplicatesHaveOriginals == Spec => []DuplicateHasOriginal
<1>1. Init => OriginInv
  BY AnswerIsGiven DEF Init, OriginInv
<1>2. IngressInv /\ OriginInv => DuplicateHasOriginal
  <2> SUFFICES ASSUME IngressInv, OriginInv, NEW r \in Requests, resp[r] = Answer("duplicate")
               PROVE  \E q \in Requests \ {r} :
                         /\ eid[q] = eid[r]
                         /\ msg[r].key = None => Canon[msg[q].body] = Canon[msg[r].body]
                         /\ Original(q)
    BY DEF DuplicateHasOriginal, Original
  <2>1. PICK q \in Requests \ {r} : eid[q] = eid[r] /\ Original(q)
    BY DEF OriginInv
  <2>2. eid[r] # None
    BY DEF OriginInv
  <2> QED BY <2>1, <2>2, SameEvent DEF IngressInv
<1> QED BY <1>1, <1>2, OriginNext, IngressCorrect, PTL DEF Spec
--------------------------------------------------------------------------------
(* Idempotency: who executes under a key, and whose answer is replayed *)

\* r created the record of its key, or has met one that has expired since; in
\* that case every record the key has now is younger.
HasCause(r) ==
    \E s \in starts :
        /\ s.key = msg[r].key
        /\ \/ s.req = r
           \/ /\ s.at + IdemTTL <= now
              /\ \A d \in idem : d.key = s.key => s.at + IdemTTL < d.exp

CauseInv ==
    \A r \in Requests :
        /\ pc[r] = "lookup" => \E s \in starts : s.key = msg[r].key
        /\ pc[r] \in {"dedup", "forward", "finish"} /\ Keyed(r) => HasCause(r)

\* The record of a key has been created twice.
TwoStarts(k) == \E a, b \in starts : a # b /\ a.key = k /\ b.key = k

\* q was answered out for the key and, unless the record was created anew, the body.
Gave(q, key, out, body) ==
    /\ msg[q] # None /\ msg[q].key = key
    /\ resp[q] # None /\ resp[q] = Answer(out)
    /\ msg[q].body = body \/ TwoStarts(key)

\* Every record was created by a delivery with its hash, IdemTTL before it
\* expires, and one that holds an answer has it from a request of its key.
RecordInv ==
    \A d \in idem :
        /\ \E s \in starts : /\ s.key = d.key /\ s.at + IdemTTL = d.exp
                             /\ s.req \in Requests
                             /\ msg[s.req] # None /\ msg[s.req].body = d.hash
        /\ d.status # "in_progress" => \E q \in Requests : Gave(q, d.key, d.out, d.hash)

ReplayInv ==
    \A r \in Requests : resp[r] # None /\ resp[r].replay =>
        /\ msg[r] # None
        /\ \E q \in Requests : Gave(q, msg[r].key, resp[r].out, msg[r].body)

IdempotencyInv == CauseInv /\ RecordInv /\ ReplayInv

\* What each handler does to the records, and how a request gets to execute, to
\* look a record up, or to be answered from one.
LEMMA IdemEffects ==
    ASSUME TypeInv, NEW r \in Requests, Handle(r)
    PROVE  /\ \/ UNCHANGED idem
              \/ /\ pc[r] = "idem" /\ idem' = idem \cup {NewRecord(r)}
                 /\ starts' = starts \cup {[req |-> r, key |-> msg[r].key, at |-> now]}
              \/ /\ pc[r] = "finish"
                 /\ \E d \in idem : /\ d.key = msg[r].key
                                    /\ idem' = (idem \ {d}) \cup {Outcome(r, d)}
           /\ pc'[r] = "lookup" => ~Fresh(idem, msg[r].key)
           /\ pc'[r] \in {"dedup", "forward", "finish"} /\ Keyed(r) =>
                \/ pc[r] \in {"dedup", "forward"}
                \/ /\ pc[r] = "idem"
                   /\ starts' = starts \cup {[req |-> r, key |-> msg[r].key, at |-> now]}
                \/ pc[r] = "lookup" /\ Fresh(idem, msg[r].key) /\ UNCHANGED idem
           /\ \/ resp'[r] = resp[r]
              \/ \E out : resp'[r] = Answer(out)
              \/ /\ pc[r] = "lookup"
                 /\ \E d \in idem : /\ d.key = msg[r].key /\ d.hash = msg[r].body
                                    /\ d.status # "in_progress" /\ resp'[r] = Stored(d)
<1> USE DEF Reject, Respond, AnswerWith, Goto, TypeInv, TypeOK
<1>1. CASE Arrive(r)
  BY <1>1 DEF Arrive, TurnAway, store
<1>2. CASE GuardInsert(r)
  BY <1>2 DEF GuardInsert, Validate
<1>3. CASE IdemInsert(r)
  BY <1>3 DEF IdemInsert, Validate
<1>4. CASE IdemLookup(r)
  BY <1>4 DEF IdemLookup, Validate, store, AnswerFromRecord
<1>5. CASE DedupInsert(r)
  BY <1>5 DEF DedupInsert
<1>6. CASE DedupError(r)
  BY <1>6 DEF DedupError
<1>7. CASE Post(r) \/ SkipPost(r)
  BY <1>7 DEF Post, SkipPost, Accept, store
<1>8. CASE Finish(r)
  BY <1>8 DEF Finish
<1> QED BY <1>1, <1>2, <1>3, <1>4, <1>5, <1>6, <1>7, <1>8 DEF Handle

\* A record of the next state has the key and the end of one of this state, or
\* it was just created.
LEMMA RecordsAge ==
    ASSUME IngressInv, [Next]_vars, NEW d \in idem'
    PROVE  \/ \E e \in idem : e.key = d.key /\ e.exp = d.exp
           \/ d.exp = now + IdemTTL
<1>0. TypeInv
  BY DEF IngressInv
<1>1. \A r \in Requests : NewRecord(r).exp = now + IdemTTL
  BY DEF NewRecord
<1>2. \A r \in Requests : \A e \in idem : Outcome(r, e).key = e.key /\ Outcome(r, e).exp = e.exp
  BY <1>0 DEF Outcome, TypeInv, TypeOK, RecordSpace
<1>3. ASSUME NEW r \in Requests, Handle(r)
      PROVE  \/ \E e \in idem : e.key = d.key /\ e.exp = d.exp
             \/ d.exp = now + IdemTTL
  BY <1>0, <1>1, <1>2, <1>3, IdemEffects
<1>4. CASE \/ Tick \/ TtlDelete \/ UNCHANGED vars
           \/ \E i \in Instances : Crash(i) \/ Restart(i)
           \/ \E r \in Requests : Send(r)
  BY <1>0, <1>4, EnvironmentFrame
<1> QED BY <1>3, <1>4 DEF Next

\* The cause of an execution, and the origin of an answer, last.
LEMMA CauseLasts ==
    ASSUME IngressInv, [Next]_vars, NEW q \in Requests, msg[q] # None
    PROVE  HasCause(q) => HasCause(q)'
<1>1. /\ now \in Nat /\ now' \in Nat /\ now <= now' /\ starts \subseteq starts'
      /\ msg'[q] = msg[q]
  BY Lasting DEF IngressInv
<1>2. IdemTTL \in Nat \ {0} /\ \A s \in starts : s.at \in Nat
  BY WebhookAssumption DEF IngressInv, TypeInv, TypeOK, HistorySpace
<1>3. ASSUME NEW s \in starts, s.at + IdemTTL <= now, NEW d \in idem', d.key = s.key,
             \A e \in idem : e.key = s.key => s.at + IdemTTL < e.exp
      PROVE  s.at + IdemTTL < d.exp
  BY <1>1, <1>2, <1>3, RecordsAge
<1>4. ASSUME NEW s \in starts, s.key = msg[q].key,
             \/ s.req = q
             \/ /\ s.at + IdemTTL <= now
                /\ \A d \in idem : d.key = s.key => s.at + IdemTTL < d.exp
      PROVE  HasCause(q)'
  <2>1. s \in starts' /\ s.key = msg'[q].key
    BY <1>1, <1>4
  <2>2. CASE s.req = q
    BY <2>1, <2>2 DEF HasCause
  <2>3. CASE /\ s.at + IdemTTL <= now
             /\ \A d \in idem : d.key = s.key => s.at + IdemTTL < d.exp
    <3>1. \A d \in idem' : d.key = s.key => s.at + IdemTTL < d.exp
      BY <1>3, <2>3
    <3>2. s.at + IdemTTL <= now'
      BY <1>1, <1>2, <2>3
    <3> QED BY <2>1, <3>1, <3>2 DEF HasCause
  <2> QED BY <1>4, <2>2, <2>3
<1> QED BY <1>4 DEF HasCause

LEMMA GaveLasts ==
    ASSUME IngressInv, [Next]_vars, NEW q \in Requests, NEW k, NEW out, NEW body,
           Gave(q, k, out, body)
    PROVE  Gave(q, k, out, body)'
<1>1. /\ starts \subseteq starts'
      /\ msg[q] # None => msg'[q] = msg[q]
      /\ resp[q] # None => resp'[q] = resp[q]
  BY Lasting DEF IngressInv
<1> QED BY <1>1 DEF Gave, TwoStarts, Answer

LEMMA CauseNext == IngressInv /\ IdempotencyInv /\ [Next]_vars => CauseInv'
<1> SUFFICES ASSUME IngressInv, IdempotencyInv, [Next]_vars PROVE CauseInv'
  OBVIOUS
<1>0. /\ TypeInv /\ starts \subseteq starts'
      /\ \A q \in Requests : msg[q] # None => msg'[q] = msg[q]
  BY Lasting DEF IngressInv
<1>1. \A q \in Requests : msg[q] # None /\ HasCause(q) => HasCause(q)'
  BY CauseLasts
<1>2. \A q \in Requests : pc[q] # "unsent" => msg[q] # None
  BY <1>0, MessageType
<1>3. ASSUME NEW q \in Requests, pc'[q] = pc[q] \/ pc'[q] \in {"lost", "arrive"}
      PROVE  /\ pc'[q] = "lookup" => \E s \in starts' : s.key = msg'[q].key
             /\ pc'[q] \in {"dedup", "forward", "finish"} /\ Keyed(q)' => HasCause(q)'
  BY <1>0, <1>1, <1>2, <1>3 DEF IdempotencyInv, CauseInv, Keyed
<1>4. ASSUME NEW r \in Requests, Handle(r)
      PROVE  CauseInv'
  <2>1. /\ UNCHANGED <<now, msg>> /\ pc[r] # "unsent"
        /\ \A q \in Requests \ {r} : pc'[q] = pc[q]
    BY <1>0, <1>4, HandlerFrame DEF InFlight
  <2>2. pc'[r] = "lookup" => \E s \in starts' : s.key = msg'[r].key
    BY <1>0, <1>4, <2>1, IdemEffects DEF Fresh, IdempotencyInv, RecordInv
  <2>3. pc'[r] \in {"dedup", "forward", "finish"} /\ Keyed(r)' => HasCause(r)'
    <3> SUFFICES ASSUME pc'[r] \in {"dedup", "forward", "finish"}, Keyed(r)
                 PROVE  HasCause(r)'
      BY <2>1 DEF Keyed
    <3>1. CASE pc[r] \in {"dedup", "forward"}
      BY <1>1, <1>2, <2>1, <3>1 DEF IdempotencyInv, CauseInv
    <3>2. CASE starts' = starts \cup {[req |-> r, key |-> msg[r].key, at |-> now]}
      <4> DEFINE h == [req |-> r, key |-> msg[r].key, at |-> now]
      <4>1. h \in starts' /\ h.req = r /\ h.key = msg'[r].key
        BY <2>1, <3>2
      <4> HIDE DEF h
      <4> QED BY <4>1 DEF HasCause
    <3>3. CASE pc[r] = "lookup" /\ Fresh(idem, msg[r].key) /\ UNCHANGED idem
      <4>1. PICK s \in starts : s.key = msg[r].key
        BY <3>3 DEF IdempotencyInv, CauseInv
      <4>2. s.at + IdemTTL <= now
        BY <3>3, <4>1 DEF Fresh, IngressInv, SpacingInv, SpacedBy, Guarded
      <4>3. \A d \in idem' : d.key # s.key
        BY <3>3, <4>1 DEF Fresh
      <4> QED BY <1>0, <2>1, <4>1, <4>2, <4>3 DEF HasCause
    <3> QED BY <1>0, <1>4, <3>1, <3>2, <3>3, IdemEffects
  <2> QED BY <1>3, <2>1, <2>2, <2>3 DEF CauseInv
<1>5. CASE \/ Tick \/ TtlDelete \/ UNCHANGED vars
           \/ \E i \in Instances : Crash(i) \/ Restart(i)
           \/ \E r \in Requests : Send(r)
  BY <1>0, <1>3, <1>5, EnvironmentFrame DEF CauseInv
<1> QED BY <1>4, <1>5 DEF Next

\* What RecordInv says of one record.
Recorded(d) ==
    /\ \E s \in starts : /\ s.key = d.key /\ s.at + IdemTTL = d.exp
                         /\ s.req \in Requests
                         /\ msg[s.req] # None /\ msg[s.req].body = d.hash
    /\ d.status # "in_progress" => \E q \in Requests : Gave(q, d.key, d.out, d.hash)

LEMMA RecordedLasts ==
    ASSUME IngressInv, [Next]_vars, NEW d, Recorded(d)
    PROVE  Recorded(d)'
<1>1. /\ starts \subseteq starts'
      /\ \A q \in Requests : msg[q] # None => msg'[q] = msg[q]
  BY Lasting DEF IngressInv
<1> QED BY <1>1, GaveLasts DEF Recorded

\* A record whose finish listener writes the answer of r: either r created it,
\* or its creator's is another start of the key.
LEMMA FinishRecords ==
    ASSUME IngressInv, IdempotencyInv, NEW r \in Requests, Keyed(r), pc[r] = "finish",
           NEW d \in idem, d.key = msg[r].key
    PROVE  Recorded(Outcome(r, d))
<1>0. TypeInv /\ msg[r] # None /\ resp[r] # None
  <2>1. TypeInv /\ msg[r] # None
    BY MessageType DEF IngressInv
  <2>2. \A out \in Outcomes : Answer(out) # None
    BY AnswerType, WebhookAssumption
  <2> QED BY <2>1, <2>2 DEF TypeInv, PlaceInv, WellPlaced
<1>1. PICK out \in Outcomes : resp[r] = Answer(out)
  BY <1>0 DEF TypeInv, PlaceInv, WellPlaced
<1>2. LET o == Outcome(r, d)
      IN  o.key = d.key /\ o.exp = d.exp /\ o.hash = d.hash /\ o.out = out
  BY <1>0, <1>1 DEF Outcome, Answer, TypeInv, TypeOK, RecordSpace
<1>3. PICK s2 \in starts : /\ s2.key = d.key /\ s2.at + IdemTTL = d.exp
                           /\ s2.req \in Requests
                           /\ msg[s2.req] # None /\ msg[s2.req].body = d.hash
  BY DEF IdempotencyInv, RecordInv
<1>4. PICK s \in starts :
         /\ s.key = msg[r].key
         /\ \/ s.req = r
            \/ /\ s.at + IdemTTL <= now
               /\ \A e \in idem : e.key = s.key => s.at + IdemTTL < e.exp
  BY DEF IdempotencyInv, CauseInv, HasCause
<1>5. msg[r].body = d.hash \/ TwoStarts(d.key)
  <2>1. CASE s = s2
    <3>1. s.at \in Nat /\ IdemTTL \in Nat
      BY <1>0, WebhookAssumption DEF TypeInv, TypeOK, HistorySpace
    <3>2. s.req = r
      BY <1>3, <1>4, <2>1, <3>1
    <3> QED BY <1>3, <2>1, <3>2
  <2>2. CASE s # s2
    BY <1>3, <1>4, <2>2 DEF TwoStarts
  <2> QED BY <2>1, <2>2
<1>6. Gave(r, d.key, out, d.hash)
  BY <1>0, <1>1, <1>5 DEF Gave
<1> QED BY <1>2, <1>3, <1>6 DEF Recorded

LEMMA RecordNext == IngressInv /\ IdempotencyInv /\ [Next]_vars => RecordInv'
<1> SUFFICES ASSUME IngressInv, IdempotencyInv, [Next]_vars PROVE RecordInv'
  OBVIOUS
<1>0. TypeInv /\ RecordInv
  BY DEF IngressInv, IdempotencyInv
<1>r. RecordInv' <=> \A d \in idem' : Recorded(d)'
  BY DEF Recorded, RecordInv
<1>1. \A d \in idem : Recorded(d)'
  BY <1>0, RecordedLasts DEF Recorded, RecordInv
<1>2. ASSUME NEW r \in Requests, Handle(r)
      PROVE  \A d \in idem' : Recorded(d)'
  <2>1. pc[r] # "unsent" /\ msg[r] # None /\ UNCHANGED msg
    BY <1>0, <1>2, HandlerFrame, MessageType DEF InFlight
  <2>2. CASE UNCHANGED idem
    BY <1>1, <2>2
  <2>3. CASE /\ idem' = idem \cup {NewRecord(r)}
             /\ starts' = starts \cup {[req |-> r, key |-> msg[r].key, at |-> now]}
    <3>1. ASSUME NEW d, d = NewRecord(r),
                 NEW h, h = [req |-> r, key |-> msg[r].key, at |-> now]
          PROVE  Recorded(d)'
      <4>1. h \in starts' /\ h.req = r /\ h.key = msg[r].key /\ h.at = now
        BY <2>3, <3>1
      <4>2. d.key = msg[r].key /\ d.exp = now + IdemTTL /\ d.hash = msg[r].body
            /\ d.status = "in_progress"
        BY <3>1 DEF NewRecord
      <4> QED BY <2>1, <4>1, <4>2 DEF Recorded
    <3>2. \A d : d = NewRecord(r) => Recorded(d)'
      BY <3>1
    <3>3. \A d \in idem' : d \in idem \/ d = NewRecord(r)
      BY <2>3
    <3> QED BY <1>1, <3>2, <3>3
  <2>4. ASSUME pc[r] = "finish",
               NEW d \in idem, d.key = msg[r].key, idem' = (idem \ {d}) \cup {Outcome(r, d)}
        PROVE  \A e \in idem' : Recorded(e)'
    <3>1. Keyed(r)
      BY <1>0, <2>4 DEF TypeInv, PlaceInv, WellPlaced, Keyed
    <3>2. \A e : e = Outcome(r, d) => Recorded(e)
      BY <2>4, <3>1, FinishRecords
    <3>3. \A e : Recorded(e) => Recorded(e)'
      BY RecordedLasts
    <3>4. \A e \in idem' : e \in idem \/ e = Outcome(r, d)
      BY <2>4
    <3> QED BY <1>1, <3>2, <3>3, <3>4
  <2> QED BY <1>0, <1>2, <2>2, <2>3, <2>4, IdemEffects
<1>3. CASE \/ Tick \/ TtlDelete \/ UNCHANGED vars
           \/ \E i \in Instances : Crash(i) \/ Restart(i)
           \/ \E r \in Requests : Send(r)
  <2>1. \A d \in idem' : d \in idem
    BY <1>0, <1>3, EnvironmentFrame
  <2> QED BY <1>1, <1>r, <2>1
<1>4. CASE \E r \in Requests : Handle(r)
  BY <1>2, <1>r, <1>4
<1> QED BY <1>3, <1>4 DEF Next

\* What ReplayInv says of one answer.
Replayed(r) ==
    resp[r] # None /\ resp[r].replay =>
        msg[r] # None /\ \E q \in Requests : Gave(q, msg[r].key, resp[r].out, msg[r].body)

LEMMA ReplayNext == IngressInv /\ IdempotencyInv /\ [Next]_vars => ReplayInv'
<1> SUFFICES ASSUME IngressInv, IdempotencyInv, [Next]_vars PROVE ReplayInv'
  OBVIOUS
<1>0. TypeInv /\ \A q \in Requests : msg[q] # None => msg'[q] = msg[q]
  BY Lasting DEF IngressInv
<1>1. ASSUME NEW r \in Requests, NEW p \in Requests, NEW k, NEW out, NEW body, Gave(p, k, out, body),
             msg'[r] # None, msg'[r].key = k, msg'[r].body = body, resp'[r].out = out
      PROVE  Replayed(r)'
  BY <1>1, GaveLasts DEF Replayed, Gave, TwoStarts
<1>2. ASSUME NEW r \in Requests, resp'[r] = resp[r]
      PROVE  Replayed(r)'
  <2> SUFFICES ASSUME resp[r] # None, resp[r].replay PROVE Replayed(r)'
    BY <1>2 DEF Replayed
  <2>1. msg[r] # None /\ msg'[r] = msg[r]
    BY <1>0 DEF IdempotencyInv, ReplayInv
  <2>2. PICK p \in Requests : Gave(p, msg[r].key, resp[r].out, msg[r].body)
    BY DEF IdempotencyInv, ReplayInv
  <2> QED BY <1>1, <1>2, <2>1, <2>2
<1>3. ASSUME NEW r \in Requests, Handle(r), NEW q \in Requests
      PROVE  Replayed(q)'
  <2>1. pc[r] # "unsent" /\ msg[r] # None /\ UNCHANGED msg
    BY <1>0, <1>3, HandlerFrame, MessageType DEF InFlight
  <2>2. q # r => resp'[q] = resp[q]
    BY <1>0, <1>3, HandlerFrame
  <2>3. ASSUME NEW out, resp'[r] = Answer(out)
        PROVE  Replayed(r)'
    BY <2>3 DEF Replayed, Answer
  <2>4. ASSUME NEW d \in idem, d.key = msg[r].key, d.hash = msg[r].body,
               d.status # "in_progress", resp'[r] = Stored(d)
        PROVE  Replayed(r)'
    <3>1. PICK p \in Requests : Gave(p, d.key, d.out, d.hash)
      BY <2>4 DEF IdempotencyInv, RecordInv
    <3>2. resp'[r].out = d.out
      BY <2>4 DEF Stored
    <3> QED BY <1>1, <2>1, <2>4, <3>1, <3>2
  <2>5. Replayed(r)'
    BY <1>0, <1>2, <1>3, <2>3, <2>4, IdemEffects
  <2> QED BY <1>2, <2>2, <2>5
<1>4. CASE \/ Tick \/ TtlDelete \/ UNCHANGED vars
           \/ \E i \in Instances : Crash(i) \/ Restart(i)
           \/ \E r \in Requests : Send(r)
  <2>1. UNCHANGED resp
    BY <1>0, <1>4, EnvironmentFrame
  <2> QED BY <1>2, <2>1 DEF Replayed, ReplayInv
<1>5. CASE \E r \in Requests : Handle(r)
  BY <1>3, <1>5 DEF Replayed, ReplayInv
<1> QED BY <1>4, <1>5 DEF Next

LEMMA IdempotencyCorrect == Spec => [](IngressInv /\ IdempotencyInv)
<1>1. Init => IdempotencyInv
  BY DEF Init, IdempotencyInv, CauseInv, RecordInv, ReplayInv
<1>2. IngressInv /\ IdempotencyInv /\ [Next]_vars => IdempotencyInv'
  BY CauseNext, RecordNext, ReplayNext DEF IdempotencyInv
<1> QED BY <1>1, <1>2, IngressCorrect, PTL DEF Spec

\* Two requests with one key are executed at once only across the end of a
\* record's life: whoever executes has created the record, or met one that has
\* expired since.
THEOREM ExecutionsHaveCause == Spec => []ExecutionHasCause
<1>1. IdempotencyInv => ExecutionHasCause
  BY DEF IdempotencyInv, CauseInv, HasCause, ExecutionHasCause
<1> QED BY <1>1, IdempotencyCorrect, PTL

\* A replayed answer is one that another request with the key got first hand,
\* and with the same body, unless the record of the key was created twice.
THEOREM ReplaysAreGenuine == Spec => []ReplayIsGenuine
<1>1. IdempotencyInv => ReplayIsGenuine
  <2> SUFFICES ASSUME IdempotencyInv, NEW r \in Requests, resp[r] # None, resp[r].replay
               PROVE  \E q \in Requests :
                        /\ q # r /\ msg[q].key = msg[r].key /\ resp[q] = Answer(resp[r].out)
                        /\ \/ msg[q].body = msg[r].body
                           \/ \E a, b \in starts : a # b /\ a.key = msg[r].key
                                                         /\ b.key = msg[r].key
    BY DEF ReplayIsGenuine
  <2>1. PICK q \in Requests : Gave(q, msg[r].key, resp[r].out, msg[r].body)
    BY DEF IdempotencyInv, ReplayInv
  <2>2. q # r
    BY <2>1 DEF Gave, Answer
  <2> QED BY <2>1, <2>2 DEF Gave, TwoStarts
<1> QED BY <1>1, IdempotencyCorrect, PTL
================================================================================
