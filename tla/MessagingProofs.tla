----------------------------- MODULE MessagingProofs -----------------------------
(***************************************************************************)
(* What sendMessageWithFallback and processMessagingRetry keep, for any    *)
(* number of jobs, slots, requests, messages and retries.                  *)
(*                                                                         *)
(* No document says sent, and no request is told ok, without a provider's  *)
(* taking it: the proof counts, for each thing sent, what is recorded and  *)
(* the answers still carried by somebody, and bounds both together by what *)
(* was taken (TakenInv).                                                   *)
(*                                                                         *)
(* The retry worker reads the document of a message, waits, and writes     *)
(* over it without looking again.  Alone it finds the document as it read  *)
(* it (OwnInv); two runs of one message have met (AloneInv), and there the *)
(* invariants promise nothing of that message, as the code does not.  From *)
(* the two follow the limit of retries, that a delivered message is not    *)
(* sent again, and what a completed job leaves (LimitInv, TriedInv,        *)
(* NothingInv); an induction over any one of them alone breaks at the      *)
(* write that follows the read.                                            *)
(***************************************************************************)
EXTENDS Messaging, JobQueueProofs, FiniteSetTheorems

\* Every behaviour of the retries is one of the queue.
LEMMA MessagingInitDrives == MessagingInit => QueueInit
BY DEF MessagingInit

LEMMA MessagingStepDrives == [MessagingNext]_messagingVars => [QueueNext]_queueVars
<1> SUFFICES ASSUME [MessagingNext]_messagingVars PROVE [QueueNext]_queueVars
  OBVIOUS
<1>1. ASSUME NEW j \in Jobs, Schedule(j)
      PROVE  AddJob(j)
  BY <1>1 DEF Schedule
<1>2. ASSUME NEW a \in Senders, Send(a)
      PROVE  UNCHANGED queueVars
  BY <1>2 DEF Send, InsertCopy, AskProvider, RecordAttempt
<1>3. ASSUME NEW w \in Slots, Process(w)
      PROVE  Complete(w) \/ FailRun(w) \/ UNCHANGED queueVars
  BY <1>2, <1>3 DEF Process, Find, MarkExceeded, CountRetry, MarkDelivered, MarkRetryFailed,
                    ReturnJob, ThrowJob, Senders
<1>4. ASSUME NEW w \in Slots, NEW j \in Jobs, Begin(w, j)
      PROVE  Take(w, j)
  BY <1>4 DEF Begin
<1>5. CASE Redis \/ WorkerCrash
  BY <1>5 DEF Redis, WorkerCrash, QueueNext, Pick
<1>6. ASSUME NEW c \in Callers, Request(c)
      PROVE  UNCHANGED queueVars
  BY <1>6 DEF Request
<1>7. ASSUME NEW m \in Messages, PurgeDelivered(m)
      PROVE  UNCHANGED queueVars
  BY <1>7 DEF PurgeDelivered
<1>8. CASE UNCHANGED messagingVars
  BY <1>8 DEF messagingVars
<1>9. QED
  BY <1>1, <1>2, <1>3, <1>4, <1>5, <1>6, <1>7, <1>8
     DEF MessagingNext, QueueNext, Pick, Senders

LEMMA MessagingDrives == MessagingSpec => QueueSpec
BY MessagingInitDrives, MessagingStepDrives, PTL DEF MessagingSpec, QueueSpec

\* Only retry jobs that have used up their attempts reach the dead letter queue.
THEOREM OnlyExhaustedRetriesLeave == MessagingSpec => []DlqIsExhausted
BY MessagingDrives, OnlyExhaustedJobsLeave, PTL

\* A retry job is run at most MaxAttempts + MaxStalls times, and never after it is
\* settled.
THEOREM RetriesKeepContract == MessagingSpec => KeepsContract
<1>1. QueueSpec => KeepsContract
  BY QueueKeepsContract
<1>2. QED
  BY <1>1, MessagingDrives, PTL
--------------------------------------------------------------------------------
(* Types *)

Places == Awaits \cup Answers \cup {"idle"}
Copies == {"none", "pending", "failed"}
DocStates == {"absent", "failed", "retrying", "delivered", "retry_failed", "purged"}

\* The types of the documents, of the senders, and how a slot's place goes with its
\* job and a send's with its copy.
DocTypes ==
    /\ of \in [Jobs -> Messages]
    /\ status \in [Messages -> DocStates]
    /\ count \in [Messages -> Nat] /\ tried \in [Messages -> Nat] /\ met \subseteq Messages
    /\ sentDocs \in [Sendable -> Nat] /\ taken \in [Sendable -> Nat]
SenderTypes ==
    /\ at \in [Senders -> Places]
    /\ seen \in [Slots -> Nat]
    /\ copy \in [Senders -> Copies]
RunsJob == \A w \in Slots : at[w] = "idle" <=> work[w] = None
HasCopy == \A a \in Senders : at[a] \in {"call", "sent", "refused"} <=> copy[a] # "none"

LEMMA MessagingTypeIs ==
    MessagingTypeOK <=> QueueTypeOK /\ DocTypes /\ SenderTypes /\ RunsJob /\ HasCopy
BY DEF MessagingTypeOK, DocTypes, SenderTypes, RunsJob, HasCopy, Places, Copies, DocStates

LEMMA TypesNext ==
    ASSUME QueueTypeOK', DocTypes', SenderTypes', RunsJob', HasCopy'
    PROVE  MessagingTypeOK'
BY DEF MessagingTypeOK, DocTypes, SenderTypes, RunsJob, HasCopy, Places, Copies, DocStates

\* A slot at an await runs a job, and so works on a message.
LEMMA MessageType ==
    ASSUME MessagingTypeOK, NEW a \in Senders, at[a] # "idle" \/ a \in Callers
    PROVE  /\ Message(a) \in Sendable
           /\ a \in Slots => work[a] \in Jobs /\ Message(a) \in Messages /\ Message(a) = of[work[a]]
           /\ a \in Callers => a \notin Slots /\ Message(a) = a
<1>1. CASE a \in Slots
  <2>1. work[a] \in Jobs
    BY <1>1, MessagingAssumption DEF MessagingTypeOK, QueueTypeOK
  <2>2. QED
    BY <1>1, <2>1, MessagingAssumption DEF MessagingTypeOK, Message, Sendable
<1>2. CASE a \in Callers
  BY <1>2, MessagingAssumption DEF Message, Sendable
<1>3. QED
  BY <1>1, <1>2 DEF Senders

\* What a run does between two awaits of its own, outside a send.
Step(w) == Find(w) \/ MarkExceeded(w) \/ CountRetry(w) \/ MarkDelivered(w) \/ MarkRetryFailed(w)
StepPlaces == {"find", "exceed", "count", "deliver", "undelivered"}
SendPlaces == {"insert", "call", "sent", "refused"}
Calling    == {"call", "sent", "refused"}

\* A send moves its sender and its copy, and counts what was sent and taken.
LEMMA SendMoves ==
    ASSUME MessagingTypeOK, NEW a \in Senders, Send(a)
    PROVE  /\ at[a] \in SendPlaces /\ UNCHANGED <<queueVars, of, status, count, seen, tried, met>>
           /\ \E p \in Places \ {"idle"}, c \in Copies :
                 /\ at' = [at EXCEPT ![a] = p] /\ copy' = [copy EXCEPT ![a] = c]
                 /\ p \in Calling <=> c # "none"
           /\ sentDocs' = sentDocs \/ sentDocs' = [sentDocs EXCEPT ![Message(a)] = @ + 1]
           /\ taken' = taken \/ taken' = [taken EXCEPT ![Message(a)] = @ + 1]
<1>0. at \in [Senders -> Places] /\ copy \in [Senders -> Copies] /\ (at[a] \in Calling <=> copy[a] # "none")
  BY MessagingTypeIs DEF SenderTypes, HasCopy, Calling
<1>1. CASE InsertCopy(a)
  <2>1. \/ at' = [at EXCEPT ![a] = "call"] /\ copy' = [copy EXCEPT ![a] = "pending"]
        \/ \E p \in {"throw", "threw"} : at' = [at EXCEPT ![a] = p] /\ copy' = copy
    BY <1>1 DEF InsertCopy, Fail, Move
  <2>2. at[a] = "insert" /\ copy[a] = "none"
    BY <1>0, <1>1 DEF InsertCopy, Calling
  <2>3. copy' = copy => copy' = [copy EXCEPT ![a] = "none"]
    BY <1>0, <2>2
  <2>4. UNCHANGED <<queueVars, of, docs, seen, tried, met>>
    BY <1>1 DEF InsertCopy
  <2> QED
    BY <2>1, <2>2, <2>3, <2>4 DEF Places, Awaits, Answers, Copies, Calling, SendPlaces, docs
<1>2. CASE AskProvider(a)
  <2>1. \E p \in {"sent", "refused"} : at' = [at EXCEPT ![a] = p]
    BY <1>2 DEF AskProvider, Move
  <2>2. at[a] = "call" /\ copy[a] # "none" /\ copy' = copy /\ copy[a] \in Copies
    BY <1>0, <1>2 DEF AskProvider, Calling, local
  <2>3. copy' = [copy EXCEPT ![a] = copy[a]]
    BY <1>0, <2>2
  <2>4. /\ taken' = taken \/ taken' = [taken EXCEPT ![Message(a)] = @ + 1]
        /\ UNCHANGED <<queueVars, of, status, count, sentDocs, seen, tried, met>>
    BY <1>2 DEF AskProvider, local
  <2> QED
    BY <2>1, <2>2, <2>3, <2>4 DEF Places, Awaits, Answers, Calling, SendPlaces
<1>3. CASE RecordAttempt(a)
  <2>1. \E p \in {"call", "deliver", "undelivered", "told sent", "told failed", "throw", "threw"} :
           at' = [at EXCEPT ![a] = p]
    BY <1>3 DEF RecordAttempt, Returned, Fail, Move
  <2>2. copy' = [copy EXCEPT ![a] = IF at'[a] = "call" THEN "failed" ELSE "none"]
    BY <1>3 DEF RecordAttempt
  <2>3. /\ sentDocs' = sentDocs \/ sentDocs' = [sentDocs EXCEPT ![Message(a)] = @ + 1]
        /\ UNCHANGED <<queueVars, of, status, count, seen, taken, tried, met>>
        /\ at[a] \in {"sent", "refused"}
    BY <1>3 DEF RecordAttempt
  <2>4. PICK p \in {"call", "deliver", "undelivered", "told sent", "told failed", "throw", "threw"} :
           at' = [at EXCEPT ![a] = p]
    BY <2>1
  <2>5. at'[a] = p
    BY <1>0, <2>4
  <2> QED
    BY <2>2, <2>3, <2>4, <2>5 DEF Places, Awaits, Answers, Copies, Calling, SendPlaces
<1> QED
  BY <1>1, <1>2, <1>3 DEF Send

\* What Set may do to the document of a run.
Sets(m, s, n) == status' = [status EXCEPT ![m] = s] /\ count' = [count EXCEPT ![m] = n]

\* Any other step of a run moves that run and may write the document of its message.
LEMMA StepMoves ==
    ASSUME MessagingTypeOK, NEW w \in Slots, Step(w)
    PROVE  /\ at[w] \in StepPlaces /\ UNCHANGED <<queueVars, of, sentDocs, taken, copy, met>>
           /\ \E p \in {"return", "throw", "exceed", "count", "insert"} : at' = [at EXCEPT ![w] = p]
           /\ seen' = seen \/ \E n \in Nat : seen' = [seen EXCEPT ![w] = n]
           /\ \/ UNCHANGED <<status, count>>
              \/ \E s \in DocStates, n \in Nat : Sets(Message(w), s, n)
           /\ tried' = tried \/ tried' = [tried EXCEPT ![Message(w)] = @ + 1]
<1>1. at[w] \in StepPlaces
  BY DEF Step, Find, MarkExceeded, CountRetry, MarkDelivered, MarkRetryFailed, StepPlaces
<1>2. Message(w) \in Messages
  BY <1>1, MessageType DEF StepPlaces, Senders
<1>3. count[Message(w)] \in Nat /\ seen[w] \in Nat /\ seen[w] + 1 \in Nat
  BY <1>2 DEF MessagingTypeOK
<1>4. CASE Find(w)
  <2>1. \E p \in {"return", "throw", "exceed", "count"} : at' = [at EXCEPT ![w] = p]
    BY <1>4 DEF Find, Fail, Move
  <2>2. \E n \in Nat : seen' = [seen EXCEPT ![w] = n]
    BY <1>3, <1>4 DEF Find
  <2> QED
    BY <1>1, <1>4, <2>1, <2>2 DEF Find, docs
<1>5. ASSUME NEW s \in DocStates, NEW n \in Nat, NEW next \in {"return", "throw", "insert"},
             Write(w, s, n, next)
      PROVE  /\ \E p \in {"return", "throw", "exceed", "count", "insert"} : at' = [at EXCEPT ![w] = p]
             /\ \/ UNCHANGED <<status, count>>
                \/ Sets(Message(w), s, n)
  BY <1>5 DEF Write, Set, Fail, Move, Sets
<1>6. CASE MarkExceeded(w)
  <2>1. Write(w, "failed", count[Message(w)], "return") /\ "failed" \in DocStates
    BY <1>6 DEF MarkExceeded, DocStates
  <2>2. UNCHANGED <<queueVars, of, sentDocs, taken, copy, met, seen, tried>>
    BY <1>6 DEF MarkExceeded, local
  <2> QED
    BY <1>1, <1>3, <1>5, <2>1, <2>2
<1>7. CASE CountRetry(w)
  <2>1. Write(w, "retrying", seen[w] + 1, "insert") /\ "retrying" \in DocStates
    BY <1>7 DEF CountRetry, DocStates
  <2>2. /\ UNCHANGED <<queueVars, of, sentDocs, taken, copy, met>>
        /\ seen' = [seen EXCEPT ![w] = 0]
        /\ tried' = tried \/ tried' = [tried EXCEPT ![Message(w)] = @ + 1]
    BY <1>7 DEF CountRetry
  <2> QED
    BY <1>1, <1>3, <1>5, <2>1, <2>2
<1>8. CASE MarkDelivered(w)
  <2>1. Write(w, "delivered", count[Message(w)], "return") /\ "delivered" \in DocStates
    BY <1>8 DEF MarkDelivered, DocStates
  <2>2. UNCHANGED <<queueVars, of, sentDocs, taken, copy, met, seen, tried>>
    BY <1>8 DEF MarkDelivered, local
  <2> QED
    BY <1>1, <1>3, <1>5, <2>1, <2>2
<1>9. CASE MarkRetryFailed(w)
  <2>1. Write(w, "retry_failed", count[Message(w)], "throw") /\ "retry_failed" \in DocStates
    BY <1>9 DEF MarkRetryFailed, DocStates
  <2>2. UNCHANGED <<queueVars, of, sentDocs, taken, copy, met, seen, tried>>
    BY <1>9 DEF MarkRetryFailed, local
  <2> QED
    BY <1>1, <1>3, <1>5, <2>1, <2>2
<1> QED
  BY <1>4, <1>6, <1>7, <1>8, <1>9 DEF Step

\* Everything a run or a send does leaves the types of the documents.
LEMMA SendTypes ==
    ASSUME MessagingTypeOK, QueueTypeOK', NEW a \in Senders, Send(a)
    PROVE  MessagingTypeOK'
<1>1. Message(a) \in Sendable /\ at[a] # "idle"
  BY SendMoves, MessageType DEF SendPlaces
<1>2. QueueTypeOK /\ DocTypes /\ SenderTypes /\ RunsJob /\ HasCopy
  BY MessagingTypeIs
<1>3. PICK p \in Places \ {"idle"}, c \in Copies :
         /\ at' = [at EXCEPT ![a] = p] /\ copy' = [copy EXCEPT ![a] = c]
         /\ p \in Calling <=> c # "none"
  BY SendMoves
<1>4. UNCHANGED <<queueVars, of, status, count, seen, tried, met>>
  BY SendMoves
<1>5. DocTypes'
  <2>1. sentDocs' \in [Sendable -> Nat] /\ taken' \in [Sendable -> Nat]
    BY <1>1, <1>2, SendMoves DEF DocTypes
  <2> QED
    BY <1>2, <1>4, <2>1 DEF DocTypes
<1>6. SenderTypes' /\ HasCopy'
  BY <1>2, <1>3, <1>4 DEF SenderTypes, HasCopy, Calling
<1>7. RunsJob'
  BY <1>1, <1>2, <1>3, <1>4 DEF RunsJob, SenderTypes, queueVars, Senders
<1> QED
  BY <1>5, <1>6, <1>7, TypesNext

LEMMA StepTypes ==
    ASSUME MessagingTypeOK, QueueTypeOK', NEW w \in Slots, Step(w)
    PROVE  MessagingTypeOK'
<1>1. Message(w) \in Messages /\ at[w] \in StepPlaces /\ at[w] # "idle" /\ w \in Senders
  BY StepMoves, MessageType DEF StepPlaces, Senders
<1>2. QueueTypeOK /\ DocTypes /\ SenderTypes /\ RunsJob /\ HasCopy
  BY MessagingTypeIs
<1>3. PICK p \in {"return", "throw", "exceed", "count", "insert"} : at' = [at EXCEPT ![w] = p]
  BY StepMoves
<1>4. UNCHANGED <<queueVars, of, sentDocs, taken, copy, met>>
  BY StepMoves
<1>5. DocTypes'
  <2>1. status' \in [Messages -> DocStates] /\ count' \in [Messages -> Nat]
    BY <1>1, <1>2, StepMoves DEF DocTypes, Sets
  <2>2. tried' \in [Messages -> Nat]
    BY <1>1, <1>2, StepMoves DEF DocTypes
  <2> QED
    BY <1>2, <1>4, <2>1, <2>2 DEF DocTypes
<1>6. SenderTypes'
  <2>1. seen' \in [Slots -> Nat]
    BY <1>2, StepMoves DEF SenderTypes
  <2> QED
    BY <1>2, <1>3, <1>4, <2>1 DEF SenderTypes, Places, Awaits
<1>7. HasCopy' /\ RunsJob'
  BY <1>1, <1>2, <1>3, <1>4 DEF HasCopy, RunsJob, SenderTypes, StepPlaces, queueVars
<1> QED
  BY <1>5, <1>6, <1>7, TypesNext

\* A run begins or ends.
LEMMA RunTypes ==
    ASSUME MessagingTypeOK, QueueTypeOK', NEW w \in Slots,
           ReturnJob(w) \/ ThrowJob(w) \/ \E j \in Jobs : Begin(w, j)
    PROVE  MessagingTypeOK'
<1>1. QueueTypeOK /\ DocTypes /\ SenderTypes /\ RunsJob /\ HasCopy
  BY MessagingTypeIs
<1>2. UNCHANGED <<of, docs, local, tried>>
  BY DEF ReturnJob, ThrowJob, Begin
<1>3. \/ at' = [at EXCEPT ![w] = "idle"] /\ work' = [work EXCEPT ![w] = None]
      \/ at' = [at EXCEPT ![w] = "find"] /\ \E j \in Jobs : work' = [work EXCEPT ![w] = j]
  BY DEF ReturnJob, ThrowJob, Begin, Complete, FailRun, Free, Take, Move
<1>4. at[w] \in {"return", "throw", "idle"}
  BY <1>1 DEF ReturnJob, ThrowJob, Begin, Take, RunsJob
<1>5. met' \subseteq Messages
  BY <1>1 DEF ReturnJob, ThrowJob, Begin, DocTypes
<1>6. DocTypes'
  BY <1>1, <1>2, <1>5 DEF DocTypes, docs
<1>7. SenderTypes' /\ HasCopy'
  BY <1>1, <1>2, <1>3, <1>4 DEF SenderTypes, HasCopy, local, Places, Awaits, Senders
<1>8. RunsJob'
  BY <1>1, <1>3, QueueAssumption DEF RunsJob, SenderTypes, QueueTypeOK, Senders
<1> QED
  BY <1>6, <1>7, <1>8, TypesNext

\* BullMQ and SIGTERM touch neither runs nor documents.
LEMMA RedisQuiet ==
    ASSUME MessagingTypeOK, Redis
    PROVE  UNCHANGED <<work, of, docs, at, local, tried, met>>
<1>1. UNCHANGED <<of, docs, at, local, tried, met>>
  BY DEF Redis, Aside
<1>2. CASE ExitIdle
  <2>1. \A w \in Slots : work'[w] = None /\ work[w] = None
    BY <1>2 DEF ExitIdle, EndProcess
  <2>2. work' = work
    BY <1>2, <2>1 DEF ExitIdle, EndProcess, MessagingTypeOK, QueueTypeOK
  <2> QED
    BY <1>1, <2>2
<1>3. CASE ~ExitIdle
  <2>1. work' = work
    BY <1>3 DEF Redis, StallFound, DlqAdded, FailStalled, StopWorkers, life
  <2> QED
    BY <1>1, <2>1
<1> QED
  BY <1>2, <1>3

\* The rest of the system.
LEMMA RestTypes ==
    ASSUME MessagingTypeOK, QueueTypeOK',
           \/ \E j \in Jobs : Schedule(j)
           \/ \E c \in Callers : Request(c)
           \/ \E m \in Messages : PurgeDelivered(m)
           \/ Redis \/ WorkerCrash \/ UNCHANGED messagingVars
    PROVE  MessagingTypeOK'
<1>1. QueueTypeOK /\ DocTypes /\ SenderTypes /\ RunsJob /\ HasCopy
  BY MessagingTypeIs
<1>2. ASSUME NEW c \in Callers, Request(c)
      PROVE  MessagingTypeOK'
  <2>1. c \in Senders /\ c \notin Slots /\ at[c] = "idle" /\ at' = [at EXCEPT ![c] = "insert"]
    BY <1>2, MessagingAssumption DEF Request, Move, Senders
  <2>2. UNCHANGED <<queueVars, of, docs, local, tried, met>>
    BY <1>2 DEF Request
  <2>3. DocTypes'
    BY <1>1, <2>2 DEF DocTypes, docs
  <2>4. SenderTypes' /\ HasCopy'
    BY <1>1, <2>1, <2>2 DEF SenderTypes, HasCopy, local, Places, Awaits
  <2>5. RunsJob'
    BY <1>1, <2>1, <2>2 DEF RunsJob, SenderTypes, queueVars, Senders
  <2> QED
    BY <2>3, <2>4, <2>5, TypesNext
<1>3. ASSUME NEW m \in Messages, PurgeDelivered(m)
      PROVE  MessagingTypeOK'
  <2>1. DocTypes'
    BY <1>1, <1>3 DEF PurgeDelivered, DocTypes, DocStates
  <2>2. UNCHANGED <<queueVars, at, local>>
    BY <1>3 DEF PurgeDelivered
  <2>3. SenderTypes' /\ HasCopy' /\ RunsJob'
    BY <1>1, <2>2 DEF SenderTypes, HasCopy, RunsJob, local, queueVars
  <2> QED
    BY <2>1, <2>3, TypesNext
<1>4. CASE UNCHANGED <<work, of, docs, at, local, tried, met>>
  <2>1. DocTypes'
    BY <1>1, <1>4 DEF DocTypes, docs
  <2>2. SenderTypes' /\ HasCopy' /\ RunsJob'
    BY <1>1, <1>4 DEF SenderTypes, HasCopy, RunsJob, local
  <2> QED
    BY <2>1, <2>2, TypesNext
<1>5. CASE Redis
  BY <1>4, <1>5, RedisQuiet
<1>6. CASE WorkerCrash
  <2>1. DocTypes'
    BY <1>1, <1>6 DEF WorkerCrash, DocTypes, docs
  <2>2. SenderTypes'
    BY <1>1, <1>6 DEF WorkerCrash, SenderTypes, Places, Copies
  <2>3. HasCopy'
    BY <1>1, <1>6 DEF WorkerCrash, HasCopy
  <2>4. RunsJob'
    BY <1>6 DEF WorkerCrash, Crash, EndProcess, RunsJob, Senders
  <2> QED
    BY <2>1, <2>2, <2>3, <2>4, TypesNext
<1>7. ASSUME NEW j \in Jobs, Schedule(j)
      PROVE  MessagingTypeOK'
  BY <1>4, <1>7 DEF Schedule, AddJob
<1>8. CASE UNCHANGED messagingVars
  BY <1>4, <1>8 DEF messagingVars, queueVars
<1> QED
  BY <1>2, <1>3, <1>5, <1>6, <1>7, <1>8

\* The actors and what they do, once for all the proofs below.
LEMMA StepsOf ==
    ASSUME [MessagingNext]_messagingVars
    PROVE  \/ \E a \in Senders : Send(a)
           \/ \E w \in Slots : Step(w) \/ ReturnJob(w) \/ ThrowJob(w) \/ \E j \in Jobs : Begin(w, j)
           \/ \E j \in Jobs : Schedule(j)
           \/ \E c \in Callers : Request(c)
           \/ \E m \in Messages : PurgeDelivered(m)
           \/ Redis \/ WorkerCrash \/ UNCHANGED messagingVars
BY DEF MessagingNext, Process, Step, Senders

LEMMA MessagingTypeInit == MessagingInit => MessagingTypeOK
BY QueueInvInit DEF MessagingInit, QueueInit, QueueInv, MessagingTypeOK, Senders, Sendable

LEMMA MessagingTypeAlways == MessagingSpec => [](QueueInv /\ MessagingTypeOK)
<1>1. ASSUME MessagingTypeOK, QueueTypeOK', [MessagingNext]_messagingVars
      PROVE  MessagingTypeOK'
  BY <1>1, StepsOf, SendTypes, StepTypes, RunTypes, RestTypes
<1>2. QueueInv => QueueTypeOK
  BY DEF QueueInv
<1>3. QED
  BY <1>1, <1>2, MessagingTypeInit, MessagingDrives, QueueInvariant, PTL DEF MessagingSpec

\* Every variable of the retries and sends holds a value of its type; a send has
\* a copy from its insert to its last update (service.ts of messaging).
THEOREM MessagingTypeCorrect == MessagingSpec => []MessagingTypeOK
BY MessagingTypeAlways, PTL
--------------------------------------------------------------------------------
(* What is reported was taken *)

\* Who has an answer of the provider for x that no document says yet.
Carried(x) == {a \in Senders : at[a] = "sent" /\ Message(a) = x}

TakenInv   == \A x \in Sendable : sentDocs[x] + Cardinality(Carried(x)) <= taken[x]
DeliverInv ==
    /\ \A w \in Slots : at[w] = "deliver" => sentDocs[Message(w)] > 0
    /\ \A m \in Messages : status[m] = "delivered" => sentDocs[m] > 0
CallerInv ==
    \A c \in Callers :
        /\ at[c] \in SendPlaces \cup {"idle"} => sentDocs[c] = 0
        /\ at[c] = "told sent" => sentDocs[c] = 1

LEMMA SendersFinite == IsFiniteSet(Senders)
BY QueueAssumption, MessagingAssumption, FS_Union DEF Senders

LEMMA CarriedFinite ==
    ASSUME NEW x
    PROVE  IsFiniteSet(Carried(x)) /\ Cardinality(Carried(x)) \in Nat
<1>1. Carried(x) \subseteq Senders
  BY DEF Carried
<1> QED
  BY <1>1, SendersFinite, FS_Subset, FS_CardinalityType

\* Fewer carry it, as much is taken and said.
LEMMA TakenStays ==
    ASSUME MessagingTypeOK, TakenInv, UNCHANGED <<sentDocs, taken>>,
           \A a \in Senders : at'[a] = "sent" => at[a] = "sent" /\ Message(a)' = Message(a)
    PROVE  TakenInv'
<1> SUFFICES ASSUME NEW x \in Sendable
             PROVE  sentDocs[x] + Cardinality(Carried(x)') <= taken[x]
  BY DEF TakenInv
<1>1. Carried(x)' \subseteq Carried(x)
  BY DEF Carried
<1>2. Cardinality(Carried(x)') \in Nat /\ Cardinality(Carried(x)') <= Cardinality(Carried(x))
  BY <1>1, CarriedFinite, FS_Subset, FS_CardinalityType
<1>3. sentDocs[x] \in Nat /\ taken[x] \in Nat /\ Cardinality(Carried(x)) \in Nat
  BY CarriedFinite DEF MessagingTypeOK
<1> QED
  BY <1>2, <1>3 DEF TakenInv

\* The provider takes it: one more carries it.  It is recorded: one fewer.
LEMMA TakenSend ==
    ASSUME MessagingTypeOK, TakenInv, NEW a \in Senders, Send(a)
    PROVE  TakenInv'
<1> DEFINE m == Message(a)
<1>1. /\ UNCHANGED <<of, work>> /\ m \in Sendable
      /\ \A b \in Senders : Message(b)' = Message(b)
      /\ \A b \in Senders \ {a} : at'[b] = at[b]
  <2>1. m \in Sendable
    BY SendMoves, MessageType DEF SendPlaces
  <2>2. UNCHANGED <<of, work>>
    BY SendMoves DEF queueVars
  <2>3. \A b \in Senders \ {a} : at'[b] = at[b]
    BY SendMoves, MessagingTypeIs DEF SenderTypes
  <2> QED
    BY <2>1, <2>2, <2>3 DEF Message
<1>2. ASSUME NEW x \in Sendable, x # m
      PROVE  sentDocs'[x] = sentDocs[x] /\ taken'[x] = taken[x] /\ Carried(x)' = Carried(x)
  <2>1. sentDocs'[x] = sentDocs[x] /\ taken'[x] = taken[x]
    BY <1>2, SendMoves, MessagingTypeIs DEF DocTypes
  <2>2. Carried(x)' = Carried(x)
    BY <1>1, <1>2 DEF Carried
  <2> QED
    BY <2>1, <2>2
<1>3. ASSUME NEW x \in Sendable, x = m
      PROVE  sentDocs'[x] + Cardinality(Carried(x)') <= taken'[x]
  <2>0. /\ sentDocs[x] \in Nat /\ taken[x] \in Nat
        /\ IsFiniteSet(Carried(x)) /\ Cardinality(Carried(x)) \in Nat
        /\ sentDocs[x] + Cardinality(Carried(x)) <= taken[x]
    BY <1>1, <1>3, CarriedFinite, MessagingTypeIs DEF DocTypes, TakenInv
  <2>1. CASE InsertCopy(a)
    <3>1. Carried(x)' = Carried(x) /\ sentDocs' = sentDocs /\ taken' = taken
      BY <1>1, <1>3, <2>1, MessagingTypeIs DEF InsertCopy, Fail, Move, Carried, docs, SenderTypes
    <3> QED
      BY <2>0, <3>1
  <2>2. CASE AskProvider(a)
    <3>1. at[a] = "call" /\ sentDocs' = sentDocs
      BY <2>2 DEF AskProvider
    <3>2. \/ taken'[x] = taken[x] + 1 /\ at'[a] \in {"sent", "refused"}
          \/ taken'[x] = taken[x] /\ at'[a] = "refused"
      BY <1>1, <1>3, <2>2, MessagingTypeIs DEF AskProvider, Move, SenderTypes, DocTypes
    <3>3. /\ a \notin Carried(x)
          /\ at'[a] = "sent" => Carried(x)' = Carried(x) \cup {a}
          /\ at'[a] = "refused" => Carried(x)' = Carried(x)
      BY <1>1, <1>3, <3>1 DEF Carried
    <3>4. at'[a] = "sent" => Cardinality(Carried(x)') = Cardinality(Carried(x)) + 1
      BY <2>0, <3>3, FS_AddElement
    <3> QED
      BY <2>0, <3>1, <3>2, <3>3, <3>4
  <2>3. CASE RecordAttempt(a)
    <3>1. /\ taken' = taken /\ at'[a] # "sent"
          /\ sentDocs'[x] = sentDocs[x] \/ (sentDocs'[x] = sentDocs[x] + 1 /\ at[a] = "sent")
      BY <1>1, <1>3, <2>3, MessagingTypeIs DEF RecordAttempt, Returned, Fail, Move, SenderTypes, DocTypes
    <3>2. Carried(x)' = Carried(x) \ {a} /\ (at[a] = "sent" => a \in Carried(x))
      BY <1>1, <1>3, <3>1 DEF Carried
    <3>3. /\ at[a] = "sent" => Cardinality(Carried(x)') = Cardinality(Carried(x)) - 1
          /\ Cardinality(Carried(x)') <= Cardinality(Carried(x)) /\ Cardinality(Carried(x)') \in Nat
      BY <2>0, <3>2, FS_RemoveElement, FS_CardinalityType, FS_Subset
    <3> QED
      BY <2>0, <3>1, <3>3
  <2> QED
    BY <2>1, <2>2, <2>3 DEF Send
<1>4. ASSUME NEW x \in Sendable
      PROVE  sentDocs'[x] + Cardinality(Carried(x)') <= taken'[x]
  <2>1. CASE x = m
    BY <1>3, <2>1
  <2>2. CASE x # m
    <3>1. sentDocs'[x] = sentDocs[x] /\ taken'[x] = taken[x] /\ Carried(x)' = Carried(x)
      BY <1>2, <2>2
    <3> QED
      BY <3>1 DEF TakenInv
  <2> QED
    BY <2>1, <2>2
<1> QED
  BY <1>4 DEF TakenInv

\* Who begins, ends or waits carries nothing.
LEMMA NobodyCarries ==
    ASSUME MessagingTypeOK, [MessagingNext]_messagingVars, \A a \in Senders : ~Send(a)
    PROVE  /\ UNCHANGED <<sentDocs, taken>>
           /\ \A a \in Senders : at'[a] \in {"sent", "deliver", "told sent"} =>
                 at'[a] = at[a] /\ Message(a)' = Message(a)
<1> DEFINE Reports == {"sent", "deliver", "told sent"}
           Stays(a) == at'[a] \in Reports => at'[a] = at[a] /\ Message(a)' = Message(a)
<1>0. at \in [Senders -> Places] /\ Slots \subseteq Senders
  BY MessagingTypeIs DEF SenderTypes, Senders
<1>1. ASSUME NEW w \in Slots, Step(w)
      PROVE  UNCHANGED <<sentDocs, taken>> /\ \A a \in Senders : Stays(a)
  <2>1. UNCHANGED <<work, of, sentDocs, taken>>
    BY <1>1, StepMoves DEF queueVars
  <2>2. \E p \in {"return", "throw", "exceed", "count", "insert"} : at' = [at EXCEPT ![w] = p]
    BY <1>1, StepMoves
  <2> QED
    BY <1>0, <2>1, <2>2 DEF Message
<1>2. ASSUME NEW w \in Slots, ReturnJob(w) \/ ThrowJob(w) \/ \E j \in Jobs : Begin(w, j)
      PROVE  UNCHANGED <<sentDocs, taken>> /\ \A a \in Senders : Stays(a)
  <2>1. UNCHANGED <<of, sentDocs, taken>>
    BY <1>2 DEF ReturnJob, ThrowJob, Begin, docs
  <2>2. /\ \E p \in {"idle", "find"} : at' = [at EXCEPT ![w] = p]
        /\ \E n : work' = [work EXCEPT ![w] = n]
    BY <1>2 DEF ReturnJob, ThrowJob, Begin, Complete, FailRun, Free, Take, Move
  <2>3. \A v \in Slots \ {w} : work'[v] = work[v]
    BY <2>2 DEF MessagingTypeOK, QueueTypeOK
  <2> QED
    BY <1>0, <2>1, <2>2, <2>3 DEF Message
<1>3. ASSUME NEW c \in Callers, Request(c)
      PROVE  UNCHANGED <<sentDocs, taken>> /\ \A a \in Senders : Stays(a)
  <2>1. UNCHANGED <<work, of, sentDocs, taken>> /\ at' = [at EXCEPT ![c] = "insert"]
    BY <1>3 DEF Request, Move, docs, queueVars
  <2> QED
    BY <1>0, <2>1 DEF Message
<1>4. CASE Redis \/ (\E j \in Jobs : Schedule(j)) \/ (\E m \in Messages : PurgeDelivered(m))
           \/ UNCHANGED messagingVars
  <2>1. UNCHANGED <<work, of, at, sentDocs, taken>>
    BY <1>4, RedisQuiet DEF Schedule, AddJob, PurgeDelivered, messagingVars, docs, queueVars
  <2> QED
    BY <2>1 DEF Message
<1>5. CASE WorkerCrash
  <2>1. /\ UNCHANGED <<of, sentDocs, taken>>
        /\ \A a \in Senders : at'[a] = IF a \in Slots THEN "idle" ELSE at[a]
    BY <1>5 DEF WorkerCrash, docs
  <2> QED
    BY <2>1 DEF Message
<1> QED
  BY <1>1, <1>2, <1>3, <1>4, <1>5, StepsOf

\* A message is delivered, and a request told so, when it has been recorded.
LEMMA DeliverStep ==
    ASSUME MessagingTypeOK, DeliverInv, [MessagingNext]_messagingVars
    PROVE  DeliverInv'
<1> DEFINE Grows == \A x \in Sendable : sentDocs'[x] \in Nat /\ sentDocs'[x] >= sentDocs[x]
<1>0. /\ at \in [Senders -> Places] /\ Slots \subseteq Senders /\ Messages \subseteq Sendable
      /\ sentDocs \in [Sendable -> Nat] /\ status \in [Messages -> DocStates]
  BY MessagingTypeIs DEF SenderTypes, DocTypes, Senders, Sendable
<1>1. ASSUME NEW a \in Senders, Send(a)
      PROVE  DeliverInv'
  <2>1. /\ UNCHANGED <<work, of, status>> /\ Message(a) \in Sendable
        /\ sentDocs' = sentDocs \/ sentDocs' = [sentDocs EXCEPT ![Message(a)] = @ + 1]
    BY <1>1, SendMoves, MessageType DEF queueVars, SendPlaces
  <2>2. Grows
    BY <1>0, <2>1
  <2>3. \E p \in Places : at' = [at EXCEPT ![a] = p]
    BY <1>1, SendMoves
  <2>4. at'[a] = "deliver" => sentDocs'[Message(a)] > 0
    <3>1. InsertCopy(a) \/ AskProvider(a) => at'[a] # "deliver"
      BY <1>0 DEF InsertCopy, AskProvider, Fail, Move
    <3>2. RecordAttempt(a) /\ at'[a] = "deliver" => sentDocs' = [sentDocs EXCEPT ![Message(a)] = @ + 1]
      BY <1>0 DEF RecordAttempt, Returned, Fail, Move
    <3> QED
      BY <1>0, <1>1, <2>1, <3>1, <3>2 DEF Send
  <2>5. ASSUME NEW w \in Slots, at'[w] = "deliver"
        PROVE  sentDocs'[Message(w)'] > 0
    <3>1. Message(w)' = Message(w)
      BY <2>1 DEF Message
    <3>2. CASE w = a
      BY <2>4, <2>5, <3>1, <3>2
    <3>3. CASE w # a
      <4>1. at[w] = "deliver"
        BY <1>0, <2>3, <2>5, <3>3
      <4>2. Message(w) \in Sendable
        BY <1>0, <4>1, MessageType
      <4> QED
        BY <1>0, <2>2, <3>1, <4>1, <4>2 DEF DeliverInv
    <3> QED
      BY <3>2, <3>3
  <2>6. \A m \in Messages : status'[m] = "delivered" => sentDocs'[m] > 0
    BY <1>0, <2>1, <2>2 DEF DeliverInv
  <2> QED
    BY <2>5, <2>6 DEF DeliverInv
<1>2. CASE \A a \in Senders : ~Send(a)
  <2>1. sentDocs' = sentDocs /\ \A w \in Slots : at'[w] = "deliver" =>
                                   at[w] = "deliver" /\ Message(w)' = Message(w)
    BY <1>0, <1>2, NobodyCarries
  <2>2. ASSUME NEW m \in Messages, status'[m] = "delivered"
        PROVE  sentDocs[m] > 0
    <3>1. \/ status[m] = "delivered"
          \/ \E w \in Slots : at[w] = "deliver" /\ Message(w) = m
      <4>1. ASSUME NEW w \in Slots, Step(w)
            PROVE  <3>1
        <5>1. Message(w) \in Messages
          BY <4>1, StepMoves, MessageType DEF StepPlaces, Senders
        <5> QED
          BY <1>0, <2>2, <4>1, <5>1
             DEF Step, Find, MarkExceeded, CountRetry, MarkDelivered, MarkRetryFailed, Write, Set, docs
      <4>2. ASSUME NEW w \in Slots, ReturnJob(w) \/ ThrowJob(w) \/ \E j \in Jobs : Begin(w, j)
            PROVE  status' = status
        BY <4>2 DEF ReturnJob, ThrowJob, Begin, docs
      <4>3. ASSUME NEW n \in Messages, PurgeDelivered(n)
            PROVE  status[m] = "delivered"
        BY <1>0, <2>2, <4>3 DEF PurgeDelivered
      <4>4. CASE Redis \/ WorkerCrash \/ (\E j \in Jobs : Schedule(j)) \/ (\E c \in Callers : Request(c))
                 \/ UNCHANGED messagingVars
        BY <2>2, <4>4 DEF Redis, Aside, WorkerCrash, Schedule, Request, messagingVars, docs
      <4> QED
        BY <1>2, <2>2, <4>1, <4>2, <4>3, <4>4, StepsOf
    <3> QED
      BY <3>1 DEF DeliverInv
  <2> QED
    BY <2>1, <2>2 DEF DeliverInv
<1> QED
  BY <1>1, <1>2

\* A request sends once: until its attempt is over no document of it says sent.
LEMMA CallerStep ==
    ASSUME MessagingTypeOK, CallerInv, [MessagingNext]_messagingVars
    PROVE  CallerInv'
<1>0. /\ at \in [Senders -> Places] /\ Callers \subseteq Senders /\ Callers \subseteq Sendable
      /\ sentDocs \in [Sendable -> Nat]
  BY MessagingTypeIs DEF SenderTypes, DocTypes, Senders, Sendable
<1>1. ASSUME NEW a \in Senders, Send(a), NEW c \in Callers, c # a
      PROVE  at'[c] = at[c] /\ sentDocs'[c] = sentDocs[c]
  <2>1. Message(a) # c
    <3>1. a \in Callers => Message(a) = a
      BY <1>1, SendMoves, MessageType DEF SendPlaces
    <3>2. a \in Slots => Message(a) \in Messages
      BY <1>1, SendMoves, MessageType DEF SendPlaces
    <3> QED
      BY <1>1, <3>1, <3>2, MessagingAssumption DEF Senders
  <2> QED
    BY <1>0, <1>1, <2>1, SendMoves
<1>2. ASSUME NEW c \in Callers, Send(c)
      PROVE  /\ at'[c] \in SendPlaces \cup {"idle"} => sentDocs'[c] = 0
             /\ at'[c] = "told sent" => sentDocs'[c] = 1
  <2>1. Message(c) = c /\ c \notin Slots /\ sentDocs[c] = 0
    BY <1>0, <1>2, SendMoves, MessageType DEF SendPlaces, CallerInv
  <2>2. CASE InsertCopy(c) \/ AskProvider(c)
    <3>1. sentDocs' = sentDocs /\ at'[c] # "told sent"
      BY <1>0, <2>2 DEF InsertCopy, AskProvider, Fail, Move, docs
    <3> QED
      BY <2>1, <3>1
  <2>3. CASE RecordAttempt(c)
    <3>1. \/ sentDocs' = sentDocs /\ at'[c] \in {"call", "told failed", "threw"}
          \/ sentDocs' = [sentDocs EXCEPT ![c] = @ + 1] /\ at'[c] \in {"told sent", "threw"}
      BY <1>0, <2>1, <2>3 DEF RecordAttempt, Returned, Fail, Move
    <3>2. sentDocs' = [sentDocs EXCEPT ![c] = @ + 1] => sentDocs'[c] = 1
      BY <1>0, <2>1
    <3> QED
      BY <2>1, <3>1, <3>2 DEF SendPlaces
  <2> QED
    BY <1>2, <2>2, <2>3 DEF Send
<1>3. CASE \E a \in Senders : Send(a)
  BY <1>1, <1>2, <1>3 DEF CallerInv
<1>4. CASE \A a \in Senders : ~Send(a)
  <2>1. sentDocs' = sentDocs
    BY <1>4, NobodyCarries
  <2>2. ASSUME NEW c \in Callers
        PROVE  at'[c] = at[c] \/ (at[c] = "idle" /\ at'[c] = "insert")
    <3>1. c \notin Slots
      BY MessagingAssumption
    <3>2. ASSUME NEW w \in Slots, Step(w)
          PROVE  at'[c] = at[c]
      BY <1>0, <3>1, <3>2, StepMoves
    <3>3. ASSUME NEW w \in Slots, ReturnJob(w) \/ ThrowJob(w) \/ \E j \in Jobs : Begin(w, j)
          PROVE  at'[c] = at[c]
      BY <1>0, <3>1, <3>3 DEF ReturnJob, ThrowJob, Begin, Move
    <3>4. ASSUME NEW d \in Callers, Request(d)
          PROVE  at'[c] = at[c] \/ (at[c] = "idle" /\ at'[c] = "insert")
      BY <1>0, <3>4 DEF Request, Move
    <3>5. CASE Redis \/ WorkerCrash \/ (\E j \in Jobs : Schedule(j)) \/ UNCHANGED messagingVars
               \/ (\E m \in Messages : PurgeDelivered(m))
      BY <1>0, <3>1, <3>5 DEF Redis, Aside, WorkerCrash, Schedule, PurgeDelivered, messagingVars
    <3> QED
      BY <1>4, <3>2, <3>3, <3>4, <3>5, StepsOf
  <2> QED
    BY <2>1, <2>2 DEF CallerInv, SendPlaces
<1> QED
  BY <1>3, <1>4

\* Nothing says sent, delivered or ok that no provider took: whichever channel it
\* was, whatever failed before, however many runs and requests send at once
\* (service.ts of messaging, messagingRetry.ts).
THEOREM ReportsAreTaken == MessagingSpec => []ReportedWasTaken
<1>1. MessagingInit => TakenInv /\ DeliverInv /\ CallerInv
  <2>1. ASSUME MessagingInit, NEW x
        PROVE  Carried(x) = {} /\ Cardinality(Carried(x)) = 0
    <3>1. Carried(x) = {}
      BY <2>1 DEF MessagingInit, Carried, Senders
    <3> QED
      BY <3>1, FS_EmptySet
  <2> QED
    BY <2>1 DEF MessagingInit, TakenInv, DeliverInv, CallerInv, Senders, Sendable
<1>2. ASSUME MessagingTypeOK, TakenInv, [MessagingNext]_messagingVars
      PROVE  TakenInv'
  <2>1. CASE \E a \in Senders : Send(a)
    BY <1>2, <2>1, TakenSend
  <2>2. CASE \A a \in Senders : ~Send(a)
    BY <1>2, <2>2, NobodyCarries, TakenStays
  <2> QED
    BY <2>1, <2>2
<1>3. MessagingTypeOK /\ TakenInv /\ DeliverInv /\ CallerInv => ReportedWasTaken
  <2> SUFFICES ASSUME MessagingTypeOK, TakenInv, DeliverInv, CallerInv
               PROVE  ReportedWasTaken
    OBVIOUS
  <2>1. ASSUME NEW x \in Sendable
        PROVE  sentDocs[x] <= taken[x]
    BY CarriedFinite DEF MessagingTypeOK, TakenInv
  <2> QED
    BY <2>1 DEF DeliverInv, CallerInv, ReportedWasTaken
<1> QED
  BY <1>1, <1>2, <1>3, DeliverStep, CallerStep, MessagingTypeAlways, PTL DEF MessagingSpec
--------------------------------------------------------------------------------
(* Retries are counted *)

\* Where a run has read the document and may still write it or send.
ToDo == {"exceed", "count", "undelivered"} \cup SendPlaces

\* Two runs at work on one message have met.
AloneInv ==
    \A w, x \in Slots :
        w # x /\ at[w] \notin Idle /\ at[x] \notin Idle /\ Message(w) = Message(x) =>
            Message(w) \in met
\* A run alone with its message finds the document as it read it: there, not
\* delivered, and with the count it will add one to.
OwnInv ==
    \A w \in Slots : at[w] \in ToDo /\ Message(w) \notin met =>
        /\ Exists(Message(w)) /\ status[Message(w)] # "delivered"
        /\ at[w] = "count" => seen[w] = count[Message(w)]
        /\ at[w] = "exceed" => count[Message(w)] >= MaxRetries
LimitInv ==
    /\ \A m \in Messages : count[m] <= MaxRetries
    /\ \A w \in Slots : at[w] = "count" => seen[w] < MaxRetries
TriedInv == \A m \in Messages \ met : tried[m] <= count[m]

\* Nothing is left to do for m; so it is when a run returns, and once a job of m is
\* completed.
LeavesNothing(m) ==
    status[m] \in {"absent", "delivered", "purged"} \/ count[m] >= MaxRetries
NothingInv ==
    /\ \A w \in Slots : at[w] = "return" /\ Message(w) \notin met => LeavesNothing(Message(w))
    /\ \A j \in Jobs : state[j] = "completed" /\ of[j] \notin met => LeavesNothing(of[j])

RetryInv == AloneInv /\ OwnInv /\ LimitInv /\ TriedInv /\ NothingInv

\* What nobody writes stays; a document is written by a run of its message, or purged.
LEMMA WhoWrites ==
    ASSUME MessagingTypeOK, [MessagingNext]_messagingVars, NEW m \in Messages
    PROVE  \/ status'[m] = status[m] /\ count'[m] = count[m] /\ tried'[m] = tried[m]
           \/ /\ status[m] = "delivered" /\ status'[m] = "purged"
              /\ count'[m] = count[m] /\ tried'[m] = tried[m]
           \/ \E w \in Slots : Step(w) /\ Message(w) = m
<1>0. /\ status \in [Messages -> DocStates] /\ count \in [Messages -> Nat]
      /\ tried \in [Messages -> Nat]
  BY MessagingTypeIs DEF DocTypes
<1>1. ASSUME NEW w \in Slots, Step(w), Message(w) # m
      PROVE  status'[m] = status[m] /\ count'[m] = count[m] /\ tried'[m] = tried[m]
  BY <1>0, <1>1, StepMoves DEF Sets
<1>2. ASSUME NEW a \in Senders, Send(a)
      PROVE  UNCHANGED <<status, count, tried>>
  BY <1>2, SendMoves
<1>3. ASSUME NEW w \in Slots, ReturnJob(w) \/ ThrowJob(w) \/ \E j \in Jobs : Begin(w, j)
      PROVE  UNCHANGED <<status, count, tried>>
  BY <1>3 DEF ReturnJob, ThrowJob, Begin, docs
<1>4. ASSUME NEW n \in Messages, PurgeDelivered(n)
      PROVE  /\ \/ status'[m] = status[m]
                \/ status[m] = "delivered" /\ status'[m] = "purged"
             /\ UNCHANGED <<count, tried>>
  BY <1>0, <1>4 DEF PurgeDelivered
<1>5. CASE Redis \/ WorkerCrash \/ (\E j \in Jobs : Schedule(j)) \/ (\E c \in Callers : Request(c))
           \/ UNCHANGED messagingVars
  BY <1>5 DEF Redis, Aside, WorkerCrash, Schedule, Request, messagingVars, docs
<1> QED
  BY <1>1, <1>2, <1>3, <1>4, <1>5, StepsOf

\* A run that is at work was, on the same message, or has begun; who has met has met.
LEMMA ActiveRuns ==
    ASSUME MessagingTypeOK, [MessagingNext]_messagingVars
    PROVE  /\ met \subseteq met' /\ of' = of
           /\ \A w \in Slots :
                 \/ at'[w] = "idle"
                 \/ /\ at[w] # "idle" /\ Message(w)' = Message(w) /\ work'[w] = work[w]
                    /\ \/ Step(w)
                       \/ seen'[w] = seen[w] /\ (Send(w) \/ at'[w] = at[w])
                 \/ \E j \in Jobs : Begin(w, j) /\ at'[w] = "find" /\ Message(w)' = of[j]
<1> DEFINE Same(w) == at'[w] = at[w] /\ work'[w] = work[w] /\ seen'[w] = seen[w]
<1>0. seen \in [Slots -> Nat]
  BY MessagingTypeIs DEF SenderTypes
<1>a. /\ at \in [Senders -> Places] /\ Slots \subseteq Senders /\ work \in [Slots -> Jobs \cup {None}]
  BY MessagingTypeIs DEF SenderTypes, Senders, QueueTypeOK
<1>1. of' = of /\ met \subseteq met'
  <2>1. ASSUME NEW w \in Slots, Step(w) \/ ReturnJob(w) \/ ThrowJob(w) \/ \E j \in Jobs : Begin(w, j)
        PROVE  of' = of /\ met \subseteq met'
    BY <2>1, StepMoves DEF ReturnJob, ThrowJob, Begin
  <2>2. ASSUME NEW a \in Senders, Send(a)
        PROVE  of' = of /\ met' = met
    BY <2>2, SendMoves
  <2>3. CASE Redis \/ WorkerCrash \/ (\E j \in Jobs : Schedule(j)) \/ (\E c \in Callers : Request(c))
             \/ (\E m \in Messages : PurgeDelivered(m)) \/ UNCHANGED messagingVars
    BY <2>3 DEF Redis, Aside, WorkerCrash, Schedule, Request, PurgeDelivered, messagingVars
  <2> QED
    BY <2>1, <2>2, <2>3, StepsOf
<1>2. ASSUME NEW a \in Senders, Send(a), NEW w \in Slots
      PROVE  Same(w) \/ (a = w /\ at[w] # "idle" /\ work' = work /\ seen' = seen)
  BY <1>0, <1>a, <1>2, SendMoves DEF queueVars, SendPlaces
<1>3. ASSUME NEW v \in Slots, Step(v), NEW w \in Slots
      PROVE  Same(w) \/ (v = w /\ at[w] # "idle" /\ work' = work)
  BY <1>0, <1>a, <1>3, StepMoves DEF queueVars, StepPlaces
<1>4. ASSUME NEW v \in Slots, ReturnJob(v) \/ ThrowJob(v), NEW w \in Slots
      PROVE  Same(w) \/ at'[w] = "idle"
  BY <1>0, <1>a, <1>4 DEF ReturnJob, ThrowJob, Complete, FailRun, Free, Move, local
<1>5. ASSUME NEW v \in Slots, NEW j \in Jobs, Begin(v, j), NEW w \in Slots
      PROVE  Same(w) \/ (v = w /\ at'[w] = "find" /\ work'[w] = j)
  BY <1>0, <1>a, <1>5 DEF Begin, Take, Move, local
<1>6. ASSUME NEW c \in Callers, Request(c), NEW w \in Slots
      PROVE  Same(w)
  BY <1>0, <1>a, <1>6, MessagingAssumption DEF Request, Move, queueVars, local
<1>7. ASSUME \/ Redis \/ (\E j \in Jobs : Schedule(j))
             \/ (\E m \in Messages : PurgeDelivered(m)) \/ UNCHANGED messagingVars,
             NEW w \in Slots
      PROVE  Same(w)
  BY <1>7, RedisQuiet DEF Schedule, AddJob, PurgeDelivered, messagingVars, queueVars, local
<1>8. WorkerCrash => \A w \in Slots : at'[w] = "idle"
  BY <1>a DEF WorkerCrash
<1>9. ASSUME NEW w \in Slots
      PROVE  \/ Same(w) \/ at'[w] = "idle"
             \/ (Step(w) \/ (Send(w) /\ seen' = seen)) /\ at[w] # "idle" /\ work' = work
             \/ \E j \in Jobs : Begin(w, j) /\ at'[w] = "find" /\ work'[w] = j
  BY <1>0, <1>a, <1>2, <1>3, <1>4, <1>5, <1>6, <1>7, <1>8, StepsOf
<1> QED
  BY <1>1, <1>9 DEF Message

LEMMA AloneStep ==
    ASSUME MessagingTypeOK, AloneInv, [MessagingNext]_messagingVars
    PROVE  AloneInv'
<1> SUFFICES ASSUME NEW w \in Slots, NEW x \in Slots, w # x, at'[w] \notin Idle, at'[x] \notin Idle,
                    Message(w)' = Message(x)'
             PROVE  Message(w)' \in met'
  BY DEF AloneInv
<1>0. at \in [Senders -> Places] /\ Slots \subseteq Senders
  BY MessagingTypeIs DEF SenderTypes, Senders
<1>1. \A v \in Slots : Step(v) \/ Send(v) => at[v] \notin Idle
  BY <1>0, StepMoves, SendMoves DEF StepPlaces, SendPlaces, Idle
<1>2. ASSUME NEW v \in Slots, NEW u \in Slots, u # v, NEW j \in Jobs, Begin(v, j), at'[u] \notin Idle,
             Message(u)' = of[j]
      PROVE  of[j] \in met'
  <2>1. at'[u] = at[u] /\ Message(u) = of[j]
    BY <1>0, <1>2 DEF Begin, Take, Move, Message, MessagingTypeOK, QueueTypeOK
  <2> QED
    BY <1>2, <2>1 DEF Begin
<1>3. CASE \E j \in Jobs : Begin(w, j) \/ Begin(x, j)
  <2>1. ASSUME NEW v \in Slots, NEW j \in Jobs, Begin(v, j)
        PROVE  Message(v)' = of[j]
    BY <2>1 DEF Begin, Take, Message, MessagingTypeOK, QueueTypeOK
  <2> QED
    BY <1>2, <1>3, <2>1
<1>4. CASE ~(\E j \in Jobs : Begin(w, j) \/ Begin(x, j))
  <2>1. ASSUME NEW v \in Slots, at'[v] \notin Idle, ~\E j \in Jobs : Begin(v, j)
        PROVE  Message(v)' = Message(v) /\ at[v] \notin Idle
    <3>1. at'[v] # "idle"
      BY <2>1 DEF Idle
    <3>2. Message(v)' = Message(v) /\ (Step(v) \/ Send(v) \/ at'[v] = at[v])
      BY <2>1, <3>1, ActiveRuns
    <3> QED
      BY <1>1, <2>1, <3>2
  <2>2. /\ Message(w)' = Message(w) /\ at[w] \notin Idle
        /\ Message(x)' = Message(x) /\ at[x] \notin Idle
    BY <1>4, <2>1
  <2> QED
    BY <2>2, ActiveRuns DEF AloneInv
<1> QED
  BY <1>3, <1>4

\* A step of a run leaves what it is at and what it has read where the next step
\* expects it.
LEMMA OwnStep ==
    ASSUME MessagingTypeOK, AloneInv, OwnInv, [MessagingNext]_messagingVars
    PROVE  OwnInv'
<1> SUFFICES ASSUME NEW w \in Slots, NEW m \in Messages, m = Message(w), m \notin met,
                    Message(w)' = Message(w), at[w] # "idle", at'[w] \in ToDo,
                    Step(w) \/ (seen'[w] = seen[w] /\ (Send(w) \/ at'[w] = at[w]))
             PROVE  /\ status'[m] \notin {"absent", "purged", "delivered"}
                    /\ at'[w] = "count" => seen'[w] = count'[m]
                    /\ at'[w] = "exceed" => count'[m] >= MaxRetries
  <2>1. ASSUME NEW w \in Slots, at'[w] \in ToDo, Message(w)' \notin met'
        PROVE  /\ Message(w)' = Message(w) /\ at[w] # "idle" /\ Message(w) \notin met
               /\ Step(w) \/ (seen'[w] = seen[w] /\ (Send(w) \/ at'[w] = at[w]))
    <3>1. at'[w] # "idle" /\ at'[w] # "find"
      BY <2>1 DEF ToDo, SendPlaces
    <3>2. met \subseteq met'
      BY ActiveRuns
    <3> QED
      BY <2>1, <3>1, <3>2, ActiveRuns
  <2>2. ASSUME NEW w \in Slots, at[w] # "idle"
        PROVE  Message(w) \in Messages
    BY <2>2, MessageType DEF Senders
  <2>3. ASSUME NEW w \in Slots, at'[w] \in ToDo, Message(w)' \notin met'
        PROVE  /\ (Exists(Message(w)))' /\ status'[Message(w)'] # "delivered"
               /\ at'[w] = "count" => seen'[w] = count'[Message(w)']
               /\ at'[w] = "exceed" => count'[Message(w)'] >= MaxRetries
    <3>1. PICK m \in Messages : m = Message(w)
      BY <2>1, <2>2, <2>3
    <3>2. /\ status'[m] \notin {"absent", "purged", "delivered"}
          /\ at'[w] = "count" => seen'[w] = count'[m]
          /\ at'[w] = "exceed" => count'[m] >= MaxRetries
      BY <2>1, <2>3, <3>1
    <3>3. Message(w)' = m
      BY <2>1, <2>3, <3>1
    <3> QED
      BY <3>2, <3>3 DEF Exists
  <2> QED
    BY <2>3 DEF OwnInv
<1>0. /\ at \in [Senders -> Places] /\ w \in Senders /\ seen \in [Slots -> Nat]
      /\ status \in [Messages -> DocStates] /\ count \in [Messages -> Nat]
  BY MessagingTypeIs DEF SenderTypes, DocTypes, Senders
<1>1. CASE Find(w)
  <2>1. UNCHANGED <<status, count>>
    BY <1>1 DEF Find, docs
  <2>2. at'[w] \in {"exceed", "count"} => /\ Exists(m) /\ status[m] # "delivered"
                                         /\ at'[w] = IF count[m] >= MaxRetries THEN "exceed" ELSE "count"
    BY <1>0, <1>1 DEF Find, Fail, Move
  <2>3. at'[w] \in {"exceed", "count", "return", "throw"}
    BY <1>0, <1>1 DEF Find, Fail, Move
  <2>4. at'[w] = "count" => seen'[w] = count[m]
    BY <1>0, <1>1 DEF Find
  <2> QED
    BY <2>1, <2>2, <2>3, <2>4 DEF ToDo, SendPlaces, Exists
<1>2. CASE CountRetry(w)
  <2>1. at[w] = "count" /\ Exists(m)
    BY <1>2 DEF CountRetry, OwnInv, ToDo
  <2>2. at'[w] \in {"insert", "throw"}
    BY <1>0, <1>2 DEF CountRetry, Write, Fail, Move
  <2>3. at'[w] = "insert" => Set(m, "retrying", seen[w] + 1)
    BY <1>0, <1>2 DEF CountRetry, Write, Fail, Move
  <2> QED
    BY <1>0, <2>1, <2>2, <2>3 DEF ToDo, SendPlaces, Set
<1>3. CASE MarkExceeded(w) \/ MarkDelivered(w) \/ MarkRetryFailed(w)
  <2>1. at'[w] \in {"return", "throw"}
    BY <1>0, <1>3 DEF MarkExceeded, MarkDelivered, MarkRetryFailed, Write, Fail, Move
  <2> QED
    BY <2>1 DEF ToDo, SendPlaces
<1>4. CASE Send(w)
  <2>1. at[w] \in ToDo /\ UNCHANGED <<status, count>>
    BY <1>0, <1>4, SendMoves DEF ToDo
  <2>2. at'[w] \notin {"count", "exceed"}
    BY <1>0, <1>4 DEF Send, InsertCopy, AskProvider, RecordAttempt, Returned, Fail, Move
  <2> QED
    BY <2>1, <2>2 DEF OwnInv, Exists
<1>5. CASE ~Step(w) /\ at'[w] = at[w] /\ seen'[w] = seen[w]
  <2>1. /\ at[w] \in ToDo /\ status[m] \notin {"absent", "purged", "delivered"}
        /\ at[w] = "count" => seen[w] = count[m]
        /\ at[w] = "exceed" => count[m] >= MaxRetries
    BY <1>5 DEF OwnInv, Exists
  <2>2. ASSUME NEW v \in Slots, Step(v), Message(v) = m
        PROVE  FALSE
    <3>1. at[v] \notin Idle /\ at[w] \notin Idle /\ v # w
      BY <1>5, <2>1, <2>2, StepMoves DEF StepPlaces, ToDo, SendPlaces, Idle
    <3> QED
      BY <2>2, <3>1 DEF AloneInv
  <2>3. status'[m] = status[m] /\ count'[m] = count[m]
    BY <2>1, <2>2, WhoWrites
  <2> QED
    BY <1>5, <2>1, <2>3
<1> QED
  BY <1>1, <1>2, <1>3, <1>4, <1>5 DEF Step

\* What the writes of a run do to the count of its message, and to what it has left.
LEMMA RunWrites ==
    ASSUME MessagingTypeOK, OwnInv, LimitInv, NEW w \in Slots, Step(w),
           NEW m \in Messages, m = Message(w)
    PROVE  /\ count'[m] <= MaxRetries
           /\ at'[w] = "count" => seen'[w] < MaxRetries
           /\ m \notin met => /\ count'[m] >= count[m]
                              /\ tried'[m] = tried[m] \/ (tried'[m] = tried[m] + 1 /\ count'[m] = count[m] + 1)
                              /\ LeavesNothing(m) => LeavesNothing(m)'
                              /\ at'[w] = "return" => LeavesNothing(m)'
<1>0. /\ at \in [Senders -> Places] /\ w \in Senders /\ seen \in [Slots -> Nat] /\ MaxRetries \in Nat
      /\ status \in [Messages -> DocStates] /\ count \in [Messages -> Nat] /\ tried \in [Messages -> Nat]
      /\ count[m] <= MaxRetries
  BY MessagingTypeIs, MessagingAssumption DEF SenderTypes, DocTypes, Senders, LimitInv
<1>1. CASE Find(w)
  <2>1. UNCHANGED <<status, count, tried>>
    BY <1>1 DEF Find, docs
  <2>2. at'[w] = "count" => seen'[w] = count[m] /\ count[m] < MaxRetries
    BY <1>0, <1>1 DEF Find, Fail, Move
  <2>3. at'[w] = "return" => status[m] \in {"absent", "purged", "delivered", "sent"}
    BY <1>0, <1>1 DEF Find, Fail, Move, Exists
  <2> QED
    BY <1>0, <2>1, <2>2, <2>3 DEF LeavesNothing, DocStates
<1>2. ASSUME NEW s \in DocStates, NEW next \in {"return", "throw"}, Write(w, s, count[m], next)
      PROVE  count' = count /\ at'[w] \in {next, "throw"}
             /\ (status' = status \/ (Exists(m) /\ status'[m] = s))
             /\ (at'[w] = next /\ next # "throw" => Set(m, s, count[m]))
  BY <1>0, <1>2 DEF Write, Set, Fail, Move
<1>3. CASE MarkExceeded(w)
  <2>1. Write(w, "failed", count[m], "return") /\ tried' = tried /\ at[w] = "exceed" /\ "failed" \in DocStates
    BY <1>3 DEF MarkExceeded, DocStates
  <2>2. m \notin met => count[m] >= MaxRetries
    BY <2>1 DEF OwnInv, ToDo
  <2> QED
    BY <1>0, <1>2, <2>1, <2>2 DEF LeavesNothing
<1>4. CASE MarkDelivered(w)
  <2>1. Write(w, "delivered", count[m], "return") /\ tried' = tried /\ "delivered" \in DocStates
    BY <1>4 DEF MarkDelivered, DocStates
  <2>2. at'[w] = "return" => status'[m] \in {"absent", "purged", "delivered"}
    BY <1>0, <1>2, <2>1 DEF Set, Exists
  <2> QED
    BY <1>0, <1>2, <2>1, <2>2 DEF LeavesNothing
<1>5. CASE MarkRetryFailed(w)
  <2>1. Write(w, "retry_failed", count[m], "throw") /\ tried' = tried /\ "retry_failed" \in DocStates
        /\ at[w] = "undelivered"
    BY <1>5 DEF MarkRetryFailed, DocStates
  <2>2. m \notin met /\ LeavesNothing(m) => count[m] >= MaxRetries
    BY <2>1 DEF OwnInv, ToDo, LeavesNothing, Exists
  <2> QED
    BY <1>0, <1>2, <2>1, <2>2 DEF LeavesNothing
<1>6. CASE CountRetry(w)
  <2>1. Write(w, "retrying", seen[w] + 1, "insert") /\ at[w] = "count" /\ seen[w] < MaxRetries
    BY <1>6 DEF CountRetry, LimitInv
  <2>2. /\ at'[w] \in {"insert", "throw"}
        /\ count'[m] = count[m] \/ count'[m] = seen[w] + 1
        /\ at'[w] = "insert" /\ Exists(m) => count'[m] = seen[w] + 1
    BY <1>0, <2>1 DEF Write, Set, Fail, Move
  <2>3. tried'[m] = tried[m] \/ (tried'[m] = tried[m] + 1 /\ at'[w] = "insert")
    BY <1>0, <1>6 DEF CountRetry
  <2>4. m \notin met => /\ seen[w] = count[m] /\ Exists(m)
                        /\ LeavesNothing(m) => count[m] >= MaxRetries
    BY <2>1 DEF OwnInv, ToDo, LeavesNothing, Exists
  <2> QED
    BY <1>0, <2>1, <2>2, <2>3, <2>4 DEF LeavesNothing
<1> QED
  BY <1>1, <1>3, <1>4, <1>5, <1>6 DEF Step

\* A send ends in the provider's answer, never in a place of the run's own.
LEMMA SendTo ==
    ASSUME MessagingTypeOK, NEW a \in Senders, Send(a)
    PROVE  at'[a] \notin {"count", "exceed", "return"}
<1>1. at \in [Senders -> Places]
  BY MessagingTypeIs DEF SenderTypes
<1> QED
  BY <1>1 DEF Send, InsertCopy, AskProvider, RecordAttempt, Returned, Fail, Move

LEMMA LimitStep ==
    ASSUME MessagingTypeOK, OwnInv, LimitInv, [MessagingNext]_messagingVars
    PROVE  LimitInv'
<1>0. \A w \in Slots : Step(w) => Message(w) \in Messages /\ w \in Senders
  BY StepMoves, MessageType DEF StepPlaces, Senders
<1>1. ASSUME NEW m \in Messages
      PROVE  count'[m] <= MaxRetries
  BY <1>0, WhoWrites, RunWrites DEF LimitInv
<1>2. ASSUME NEW w \in Slots, at'[w] = "count"
      PROVE  seen'[w] < MaxRetries
  <2>1. Step(w) \/ (seen'[w] = seen[w] /\ (Send(w) \/ at'[w] = at[w]))
    BY <1>2, ActiveRuns
  <2>2. ~Send(w)
    BY <1>2, SendTo DEF Senders
  <2>3. CASE Step(w)
    BY <1>0, <1>2, <2>3, RunWrites
  <2> QED
    BY <1>2, <2>1, <2>2, <2>3 DEF LimitInv
<1> QED
  BY <1>1, <1>2 DEF LimitInv

LEMMA TriedStep ==
    ASSUME MessagingTypeOK, OwnInv, LimitInv, TriedInv, [MessagingNext]_messagingVars
    PROVE  TriedInv'
<1> SUFFICES ASSUME NEW m \in Messages, m \notin met
             PROVE  tried'[m] <= count'[m]
  BY ActiveRuns DEF TriedInv
<1>1. tried[m] <= count[m] /\ tried[m] \in Nat /\ count[m] \in Nat
  BY MessagingTypeIs DEF TriedInv, DocTypes
<1>2. count' \in [Messages -> Nat]
  <2>1. ASSUME NEW w \in Slots, Step(w)
        PROVE  count' \in [Messages -> Nat]
    BY <2>1, StepMoves, MessagingTypeIs DEF DocTypes, Sets
  <2>2. ASSUME NEW a \in Senders, Send(a)
        PROVE  count' = count
    BY <2>2, SendMoves
  <2>3. CASE Redis \/ WorkerCrash \/ (\E j \in Jobs : Schedule(j)) \/ (\E c \in Callers : Request(c))
             \/ (\E n \in Messages : PurgeDelivered(n)) \/ UNCHANGED messagingVars
             \/ (\E w \in Slots : ReturnJob(w) \/ ThrowJob(w) \/ \E j \in Jobs : Begin(w, j))
    BY <2>3, MessagingTypeIs
       DEF Redis, Aside, WorkerCrash, Schedule, Request, PurgeDelivered, messagingVars, docs,
           ReturnJob, ThrowJob, Begin, DocTypes
  <2> QED
    BY <2>1, <2>2, <2>3, StepsOf, MessagingTypeIs DEF DocTypes
<1>3. ASSUME NEW w \in Slots, Step(w), Message(w) = m
      PROVE  tried'[m] <= count'[m]
  <2>1. /\ count'[m] >= count[m]
        /\ tried'[m] = tried[m] \/ (tried'[m] = tried[m] + 1 /\ count'[m] = count[m] + 1)
    BY <1>3, RunWrites
  <2> QED
    BY <1>1, <1>2, <2>1
<1> QED
  BY <1>1, <1>3, WhoWrites

\* Nothing comes up again that was left.
LEMMA NothingStays ==
    ASSUME MessagingTypeOK, OwnInv, LimitInv, [MessagingNext]_messagingVars,
           NEW m \in Messages, m \notin met, LeavesNothing(m)
    PROVE  LeavesNothing(m)'
<1>1. ASSUME NEW w \in Slots, Step(w), Message(w) = m
      PROVE  LeavesNothing(m)'
  BY <1>1, RunWrites
<1> QED
  BY <1>1, WhoWrites DEF LeavesNothing

LEMMA NothingStep ==
    ASSUME MessagingTypeOK, OwnInv, LimitInv, NothingInv, [MessagingNext]_messagingVars
    PROVE  NothingInv'
<1>0. of' = of /\ met \subseteq met' /\ of \in [Jobs -> Messages]
  BY ActiveRuns, MessagingTypeIs DEF DocTypes
<1>1. ASSUME NEW w \in Slots, at'[w] = "return", Message(w)' \notin met'
      PROVE  LeavesNothing(Message(w))'
  <2>1. /\ at[w] # "idle" /\ Message(w)' = Message(w)
        /\ Step(w) \/ (seen'[w] = seen[w] /\ (Send(w) \/ at'[w] = at[w]))
    BY <1>1, ActiveRuns
  <2>2. ~Send(w)
    BY <1>1, SendTo DEF Senders
  <2>3. PICK m \in Messages : m = Message(w) /\ m \notin met
    BY <1>0, <1>1, <2>1, MessageType DEF Senders
  <2>4. LeavesNothing(m)'
    <3>1. CASE Step(w)
      BY <1>1, <2>3, <3>1, RunWrites
    <3>2. CASE at[w] = "return"
      BY <2>3, <3>2, NothingStays DEF NothingInv
    <3> QED
      BY <1>1, <2>1, <2>2, <3>1, <3>2
  <2> QED
    BY <2>1, <2>3, <2>4 DEF LeavesNothing
<1>2. ASSUME NEW j \in Jobs, state'[j] = "completed", of[j] \notin met
      PROVE  LeavesNothing(of[j])
  <2>1. state[j] = "completed" \/ \E w \in Slots : at[w] = "return" /\ work[w] = j
    <3>1. ASSUME NEW w \in Slots, ReturnJob(w)
          PROVE  state[j] = "completed" \/ (at[w] = "return" /\ work[w] = j)
      BY <1>2, <3>1 DEF ReturnJob, Complete, MessagingTypeOK, QueueTypeOK
    <3>2. ASSUME NEW w \in Slots, ThrowJob(w) \/ \E i \in Jobs : Begin(w, i)
          PROVE  state[j] = "completed"
      BY <1>2, <3>2 DEF ThrowJob, FailRun, Begin, Take, MessagingTypeOK, QueueTypeOK
    <3>3. ASSUME NEW a \in Senders, Send(a)
          PROVE  state' = state
      BY <3>3, SendMoves DEF queueVars
    <3>4. ASSUME NEW w \in Slots, Step(w)
          PROVE  state' = state
      BY <3>4, StepMoves DEF queueVars
    <3>5. CASE Redis \/ \E i \in Jobs : Schedule(i)
      BY <1>2, <3>5 DEF Redis, StallFound, DlqAdded, FailStalled, StopWorkers, ExitIdle, EndProcess,
                        Schedule, AddJob, MessagingTypeOK, QueueTypeOK
    <3>6. CASE WorkerCrash \/ (\E c \in Callers : Request(c)) \/ (\E n \in Messages : PurgeDelivered(n))
               \/ UNCHANGED messagingVars
      BY <1>2, <3>6 DEF WorkerCrash, Crash, EndProcess, Request, PurgeDelivered, messagingVars, queueVars
    <3> QED
      BY <1>2, <3>1, <3>2, <3>3, <3>4, <3>5, <3>6, StepsOf
  <2>2. CASE state[j] = "completed"
    BY <1>2, <2>2 DEF NothingInv
  <2>3. ASSUME NEW w \in Slots, at[w] = "return", work[w] = j
        PROVE  LeavesNothing(of[j])
    <3>1. Message(w) = of[j]
      BY <2>3 DEF Message
    <3> QED
      BY <1>2, <2>3, <3>1 DEF NothingInv
  <2> QED
    BY <2>1, <2>2, <2>3
<1>3. ASSUME NEW j \in Jobs, state'[j] = "completed", of'[j] \notin met'
      PROVE  LeavesNothing(of[j])'
  <2>1. PICK m \in Messages : m = of[j] /\ m \notin met
    BY <1>0, <1>3
  <2>2. LeavesNothing(m)'
    BY <1>2, <1>3, <2>1, NothingStays
  <2> QED
    BY <1>0, <2>1, <2>2 DEF LeavesNothing
<1> QED
  BY <1>1, <1>3 DEF NothingInv

LEMMA RetryInvAlways == MessagingSpec => [](MessagingTypeOK /\ RetryInv)
<1>1. MessagingInit => RetryInv
  BY MessagingAssumption
     DEF MessagingInit, QueueInit, RetryInv, AloneInv, OwnInv, LimitInv, TriedInv, NothingInv, Idle,
         ToDo, SendPlaces, Senders
<1>2. MessagingTypeOK /\ RetryInv /\ [MessagingNext]_messagingVars => RetryInv'
  BY AloneStep, OwnStep, LimitStep, TriedStep, NothingStep DEF RetryInv
<1> QED
  BY <1>1, <1>2, MessagingTypeAlways, PTL DEF MessagingSpec

\* A message is tried at most MaxRetries times, whatever jobs it has and whatever
\* fails, unless two runs of it met: alone, a run adds one to the count it read
\* (messagingRetry.ts).
THEOREM RetriesAreLimited == MessagingSpec => []RetriesWithinLimit
<1>1. RetryInv => RetriesWithinLimit
  BY DEF RetryInv, LimitInv, TriedInv, RetriesWithinLimit
<1> QED
  BY <1>1, RetryInvAlways, PTL

\* A retry job completes only when its message is delivered, gone, or out of
\* retries, unless two runs of it met.
THEOREM CompletedHasNothingLeft == MessagingSpec => []CompletedLeavesNothing
<1>1. RetryInv => CompletedLeavesNothing
  BY DEF RetryInv, NothingInv, LeavesNothing, CompletedLeavesNothing
<1> QED
  BY <1>1, RetryInvAlways, PTL

\* Delivered is final and nothing is sent again, unless two runs of the message
\* met: a run alone with it has read that it is not delivered.
THEOREM DeliveredStays == MessagingSpec => DeliveredIsFinal
<1> DEFINE Final == \A m \in Messages : status[m] = "delivered" /\ m \notin met =>
                      status'[m] \in {"delivered", "purged"} /\ taken'[m] = taken[m]
<1>1. ASSUME MessagingTypeOK, OwnInv, [MessagingNext]_messagingVars
      PROVE  Final
  <2> SUFFICES ASSUME NEW m \in Messages, status[m] = "delivered", m \notin met
               PROVE  status'[m] \in {"delivered", "purged"} /\ taken'[m] = taken[m]
    OBVIOUS
  <2>0. /\ at \in [Senders -> Places] /\ Slots \subseteq Senders /\ status \in [Messages -> DocStates]
        /\ taken \in [Sendable -> Nat] /\ Messages \subseteq Sendable
    BY <1>1, MessagingTypeIs DEF SenderTypes, DocTypes, Senders, Sendable
  <2>1. \A w \in Slots : Message(w) = m => at[w] \notin ToDo
    BY <1>1 DEF OwnInv
  <2>2. ASSUME NEW w \in Slots, Step(w), Message(w) = m
        PROVE  status'[m] \in {"delivered", "purged"}
    <3>1. at[w] \in {"find", "deliver"}
      BY <1>1, <2>1, <2>2, StepMoves DEF StepPlaces, ToDo
    <3>2. Find(w) \/ MarkDelivered(w)
      BY <2>2, <3>1 DEF Step, MarkExceeded, CountRetry, MarkRetryFailed
    <3> QED
      BY <2>0, <2>2, <3>2 DEF Find, MarkDelivered, Write, Set, docs
  <2>3. status'[m] \in {"delivered", "purged"}
    BY <1>1, <2>2, WhoWrites
  <2>4. ASSUME NEW a \in Senders, Send(a)
        PROVE  taken'[m] = taken[m]
    <3>1. Message(a) # m
      <4>1. CASE a \in Slots
        BY <1>1, <2>1, <2>4, <4>1, SendMoves DEF ToDo
      <4>2. CASE a \in Callers
        BY <4>2, MessagingAssumption DEF Message
      <4> QED
        BY <4>1, <4>2 DEF Senders
    <3> QED
      BY <1>1, <2>0, <2>4, <3>1, SendMoves
  <2> QED
    BY <1>1, <2>3, <2>4, NobodyCarries
<1>2. DeliveredIsFinal <=> [][Final]_messagingVars
  BY PTL DEF DeliveredIsFinal
<1>3. RetryInv => OwnInv
  BY DEF RetryInv
<1> QED
  BY <1>1, <1>2, <1>3, RetryInvAlways, PTL DEF MessagingSpec
================================================================================
