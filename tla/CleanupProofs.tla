------------------------------ MODULE CleanupProofs ------------------------------
(***************************************************************************)
(* No audit log is lost, and a completed cleanup has archived what its     *)
(* filter can match, for every number of jobs, slots and failures.         *)
(*                                                                         *)
(* A run deletes by date, not by what it archived.  That loses nothing,    *)
(* because no log as old as archiveDate appears after the find: until the  *)
(* delete, whatever the filter matches is in found, and so, once the       *)
(* insert succeeded, in the archive (ArchivedFirst).  What is archived and *)
(* deleted up to a date stays so, since logs are only written for a new    *)
(* day, and that is what a run past its delete knows of its archiveDate,   *)
(* and a completed job of the one of its run (DoneInv).  A log without a   *)
(* date matches no filter: none is ever found or archived (DatedOnly).     *)
(***************************************************************************)
EXTENDS Cleanup, JobQueueProofs

ArchivedFirst ==
    \A w \in Slots :
        /\ at[w] \in {"find", "archive", "delete"} => cut[w] <= day
        /\ at[w] = "archive" => OlderThan(cut[w]) \subseteq found[w]
        /\ at[w] = "delete" => OlderThan(cut[w]) \subseteq archive

\* Nothing without a date is found, or archived.
DatedOnly ==
    /\ \A l \in archive : l.dated
    /\ \A w \in Slots : \A l \in found[w] : l.dated

\* Every log with a date older than d is in the archive, and only there.
ArchivedUpTo(d) ==
    \A l \in LogsOf(0 .. day) : l.dated /\ l.day < d => l \in archive /\ l \notin main
DoneInv ==
    /\ \A w \in Slots :
         at[w] \in {"purge", "return"} => cut[w] <= day /\ ArchivedUpTo(cut[w])
    /\ \A j \in Jobs : state[j] = "completed" => done[j] <= day /\ ArchivedUpTo(done[j])

LogInv == CleanupTypeOK /\ ArchivedFirst /\ DatedOnly /\ NoLogLost

LEMMA KeepIsNat == ASSUME CleanupTypeOK, NEW j \in Jobs PROVE keep[j] \in Nat
<1>1. Retentions \subseteq Nat
  BY CleanupAssumption
<1>2. keep[j] \in Retentions \cup {0}
  BY DEF CleanupTypeOK
<1>3. \A n \in Retentions \cup {0} : n \in Nat
  BY <1>1, 0 \in Nat
<1>4. QED
  BY <1>2, <1>3

\* The logs written up to tomorrow are those written up to today, and tomorrow's.
LEMMA AnotherDay ==
    ASSUME NEW d \in Nat
    PROVE  /\ LogsOf(0 .. d + 1) = LogsOf(0 .. d) \cup LogsOf({d + 1})
           /\ \A l \in LogsOf(0 .. d) : l.day <= d /\ l.day \in Nat
           /\ \A l \in LogsOf({d + 1}) : l.day = d + 1
<1>1. 0 .. d + 1 = (0 .. d) \cup {d + 1}
  OBVIOUS
<1>2. \A S, T : LogsOf(S \cup T) = LogsOf(S) \cup LogsOf(T)
  BY Zenon DEF LogsOf
<1>3. LogsOf(0 .. d + 1) = LogsOf(0 .. d) \cup LogsOf({d + 1})
  BY <1>1, <1>2
<1>4. \A l \in LogsOf(0 .. d) : l.day <= d /\ l.day \in Nat
  <2>1. ASSUME NEW l \in [day : 0 .. d, dated : BOOLEAN] PROVE l.day \in 0 .. d
    OBVIOUS
  <2>2. \A n \in 0 .. d : n <= d /\ n \in Nat
    OBVIOUS
  <2>3. QED
    BY <2>1, <2>2 DEF LogsOf
<1>5. \A l \in LogsOf({d + 1}) : l.day = d + 1
  BY DEF LogsOf
<1>6. QED
  BY <1>3, <1>4, <1>5

LEMMA LogInvInit == CleanupInit => LogInv
<1>1. ASSUME CleanupInit
      PROVE  LogInv
  <2>1. 0 .. day = {0} /\ day \in Nat /\ day = 0
    BY <1>1 DEF CleanupInit
  <2>2. main = LogsOf(0 .. day) /\ archive = {} /\ found = [w \in Slots |-> {}]
    BY <1>1, <2>1 DEF CleanupInit
  <2>3. CleanupTypeOK
    BY <1>1, <2>1, <2>2, QueueInvInit DEF CleanupInit, QueueInit, QueueInv, CleanupTypeOK
  <2>4. ArchivedFirst
    BY <1>1 DEF CleanupInit, ArchivedFirst
  <2>5. QED
    BY <2>2, <2>3, <2>4 DEF LogInv, DatedOnly, NoLogLost
<1>2. QED
  BY <1>1
--------------------------------------------------------------------------------
(* The queue *)

LEMMA CleanupStepDrives == [CleanupNext]_cleanupVars => [QueueNext]_queueVars
<1> SUFFICES ASSUME [CleanupNext]_cleanupVars PROVE [QueueNext]_queueVars
  OBVIOUS
<1>1. ASSUME NEW j \in Jobs, Schedule(j)
      PROVE  AddJob(j)
  BY <1>1 DEF Schedule
<1>2. ASSUME NEW w \in Slots, Process(w)
      PROVE  Complete(w) \/ FailRun(w) \/ UNCHANGED queueVars
  BY <1>2 DEF Process, DeleteExpired, FindOld, ArchiveLogs, DeleteLogs, PurgeStale,
              ReturnJob, ThrowJob
<1>3. ASSUME NEW w \in Slots, NEW j \in Jobs, Begin(w, j)
      PROVE  Take(w, j)
  BY <1>3 DEF Begin
<1>4. CASE Redis \/ WorkerCrash
  BY <1>4 DEF Redis, WorkerCrash, QueueNext, Pick
<1>5. CASE Tick \/ UNCHANGED cleanupVars
  BY <1>5 DEF Tick, cleanupVars
<1>6. QED
  BY <1>1, <1>2, <1>3, <1>4, <1>5 DEF CleanupNext, QueueNext, Pick

LEMMA CleanupDrives == CleanupSpec => QueueSpec
<1>1. CleanupInit => QueueInit
  BY DEF CleanupInit
<1>2. QED
  BY <1>1, CleanupStepDrives, PTL DEF CleanupSpec, QueueSpec
--------------------------------------------------------------------------------
(* Types *)

LEMMA CleanupTypeStep ==
    ASSUME CleanupTypeOK, QueueTypeOK', [CleanupNext]_cleanupVars
    PROVE  CleanupTypeOK'
<1> USE CleanupAssumption, QueueAssumption
<1>1. ASSUME NEW w \in Slots, at[w] # "idle" PROVE work[w] \in Jobs
  BY <1>1 DEF CleanupTypeOK, QueueTypeOK
<1>2. CASE Tick
  <2>1. /\ day \in Nat /\ day' = day + 1 /\ day' \in Nat
        /\ main' = main \cup LogsOf({day + 1}) /\ archive' = archive
    BY <1>2 DEF Tick, CleanupTypeOK
  <2>2. LogsOf(0 .. day') = LogsOf(0 .. day) \cup LogsOf({day + 1})
    BY <2>1, AnotherDay
  <2>3. main' \subseteq LogsOf(0 .. day') /\ archive' \subseteq LogsOf(0 .. day')
    BY <2>1, <2>2 DEF CleanupTypeOK
  <2>4. found' \in [Slots -> SUBSET LogsOf(0 .. day')]
    BY <1>2, <2>2 DEF Tick, CleanupTypeOK
  <2>5. QED
    BY <1>2, <2>1, <2>3, <2>4 DEF Tick, queueVars, CleanupTypeOK
<1>3. ASSUME NEW j \in Jobs, Schedule(j) PROVE CleanupTypeOK'
  BY <1>3 DEF Schedule, AddJob, logs, CleanupTypeOK
<1>4. ASSUME NEW w \in Slots, NEW j \in Jobs, Begin(w, j) PROVE CleanupTypeOK'
  BY <1>4 DEF Begin, Take, Move, logs, CleanupTypeOK, QueueTypeOK
<1>5. ASSUME NEW w \in Slots, DeleteExpired(w) PROVE CleanupTypeOK'
  <2>0. work[w] \in Jobs
    BY <1>1, <1>5 DEF DeleteExpired
  <2>1. day - keep[work[w]] \in Int
    BY <2>0, KeepIsNat DEF CleanupTypeOK
  <2>2. QED
    BY <1>5, <2>1 DEF DeleteExpired, Move, logs, queueVars, CleanupTypeOK
<1>6. ASSUME NEW w \in Slots, FindOld(w) PROVE CleanupTypeOK'
  <2>1. OlderThan(cut[w]) \subseteq LogsOf(0 .. day)
    BY DEF OlderThan, CleanupTypeOK
  <2>2. at' \in [Slots -> {"idle", "expired", "find", "archive", "delete", "purge",
                          "return", "throw"}]
    BY <1>6 DEF FindOld, Move, CleanupTypeOK
  <2>3. found' \in [Slots -> SUBSET LogsOf(0 .. day)]
    BY <1>6, <2>1 DEF FindOld, CleanupTypeOK
  <2>4. \A v \in Slots : at'[v] = "idle" <=> work[v] = None
    BY <1>6 DEF FindOld, Move, CleanupTypeOK
  <2>5. QED
    BY <1>6, <2>2, <2>3, <2>4 DEF FindOld, logs, queueVars, CleanupTypeOK
<1>7. ASSUME NEW w \in Slots, ArchiveLogs(w) PROVE CleanupTypeOK'
  <2>1. archive' \subseteq archive \cup found[w]
    BY <1>7 DEF ArchiveLogs, Upto
  <2>2. archive' \subseteq LogsOf(0 .. day)
    BY <2>1 DEF CleanupTypeOK
  <2>3. QED
    BY <1>7, <2>2 DEF ArchiveLogs, Move, queueVars, CleanupTypeOK
<1>8. ASSUME NEW w \in Slots, DeleteLogs(w) PROVE CleanupTypeOK'
  BY <1>8 DEF DeleteLogs, Move, queueVars, CleanupTypeOK
<1>9. ASSUME NEW w \in Slots, PurgeStale(w) PROVE CleanupTypeOK'
  BY <1>9 DEF PurgeStale, Move, logs, queueVars, CleanupTypeOK
<1>10. ASSUME NEW w \in Slots, ReturnJob(w) PROVE CleanupTypeOK'
  BY <1>10 DEF ReturnJob, Complete, Free, Move, logs, CleanupTypeOK, QueueTypeOK
<1>11. ASSUME NEW w \in Slots, ThrowJob(w) PROVE CleanupTypeOK'
  BY <1>11 DEF ThrowJob, FailRun, Free, Move, logs, CleanupTypeOK, QueueTypeOK
<1>12. CASE Redis
  BY <1>12 DEF Redis, Aside, StallFound, DlqAdded, FailStalled, logs, CleanupTypeOK
<1>13. CASE WorkerCrash
  BY <1>13 DEF WorkerCrash, Crash, EndProcess, logs, CleanupTypeOK
<1>14. CASE UNCHANGED cleanupVars
  BY <1>14 DEF cleanupVars, logs, queueVars, CleanupTypeOK
<1>15. QED
  BY <1>2, <1>3, <1>4, <1>5, <1>6, <1>7, <1>8, <1>9, <1>10, <1>11, <1>12, <1>13, <1>14
  DEF CleanupNext, Process
--------------------------------------------------------------------------------
(* Nothing is lost *)

LEMMA ArchivedFirstStep ==
    ASSUME LogInv, CleanupTypeOK', [CleanupNext]_cleanupVars
    PROVE  ArchivedFirst' /\ NoLogLost'
<1> USE CleanupAssumption DEF OlderThan
<1>1. CASE Tick
  <2>1. /\ day \in Nat /\ day' = day + 1
        /\ main' = main \cup LogsOf({day + 1}) /\ UNCHANGED <<archive, at, cut, found>>
        /\ cut \in [Slots -> Int]
    BY <1>1 DEF Tick, LogInv, CleanupTypeOK
  <2>2. \A w \in Slots : cut[w] <= day =>
            {l \in main' : l.dated /\ l.day < cut[w]} = {l \in main : l.dated /\ l.day < cut[w]}
    <3>1. \A w \in Slots : cut[w] \in Int
      BY <2>1
    <3>2. \A l \in LogsOf({day + 1}) : l.day = day + 1
      BY <2>1, AnotherDay
    <3>3. ASSUME NEW w \in Slots, cut[w] <= day, NEW l \in LogsOf({day + 1})
          PROVE  ~(l.day < cut[w])
      BY <2>1, <3>1, <3>2, <3>3
    <3>4. QED
      BY <2>1, <3>3
  <2>3. ArchivedFirst'
    <3>1. ASSUME NEW w \in Slots
          PROVE  /\ at[w] \in {"find", "archive", "delete"} => cut[w] <= day + 1
                 /\ at[w] = "archive" => {l \in main' : l.dated /\ l.day < cut[w]} \subseteq found[w]
                 /\ at[w] = "delete" => {l \in main' : l.dated /\ l.day < cut[w]} \subseteq archive
      <4>1. cut[w] \in Int
        BY <2>1
      <4>2. /\ at[w] \in {"find", "archive", "delete"} => cut[w] <= day
            /\ at[w] = "archive" => {l \in main : l.dated /\ l.day < cut[w]} \subseteq found[w]
            /\ at[w] = "delete" => {l \in main : l.dated /\ l.day < cut[w]} \subseteq archive
        BY DEF LogInv, ArchivedFirst
      <4>3. QED
        BY <2>1, <2>2, <4>1, <4>2
    <3>2. QED
      BY <2>1, <3>1 DEF ArchivedFirst
  <2>4. NoLogLost'
    BY <2>1, AnotherDay DEF LogInv, NoLogLost
  <2>5. QED
    BY <2>3, <2>4
<1>2. ASSUME NEW j \in Jobs, Schedule(j) \/ \E w \in Slots : Begin(w, j)
      PROVE  ArchivedFirst' /\ NoLogLost'
  BY <1>2 DEF Schedule, Begin, Move, logs, LogInv, ArchivedFirst, NoLogLost, CleanupTypeOK
<1>3. ASSUME NEW w \in Slots, DeleteExpired(w)
      PROVE  ArchivedFirst' /\ NoLogLost'
  <2>0. work[w] \in Jobs
    BY <1>3, QueueAssumption DEF DeleteExpired, LogInv, CleanupTypeOK, QueueTypeOK
  <2>1. keep[work[w]] \in Nat
    BY <2>0, KeepIsNat DEF LogInv
  <2>2. day - keep[work[w]] <= day
    BY <2>1 DEF LogInv, CleanupTypeOK
  <2>3. QED
    BY <1>3, <2>2 DEF DeleteExpired, Move, logs, LogInv, ArchivedFirst, NoLogLost, CleanupTypeOK
<1>4. ASSUME NEW w \in Slots, FindOld(w)
      PROVE  ArchivedFirst' /\ NoLogLost'
  <2>1. at'[w] = "archive" => OlderThan(cut[w]) \subseteq found'[w]
    BY <1>4 DEF FindOld, Move, LogInv, CleanupTypeOK
  <2>2. at'[w] # "delete" /\ cut[w] <= day
    BY <1>4 DEF FindOld, Move, LogInv, ArchivedFirst, CleanupTypeOK
  <2>3. \A v \in Slots \ {w} : at'[v] = at[v] /\ found'[v] = found[v]
    BY <1>4 DEF FindOld, Move, LogInv, CleanupTypeOK
  <2>4. UNCHANGED <<day, main, archive, cut>>
    BY <1>4 DEF FindOld, logs
  <2>5. QED
    BY <2>1, <2>2, <2>3, <2>4 DEF LogInv, ArchivedFirst, NoLogLost
<1>5. ASSUME NEW w \in Slots, ArchiveLogs(w)
      PROVE  ArchivedFirst' /\ NoLogLost'
  <2>1. archive \subseteq archive' /\ archive' \subseteq LogsOf(0 .. day)
    BY <1>5 DEF ArchiveLogs, CleanupTypeOK
  <2>2. at'[w] = "delete" => found[w] \subseteq archive'
    BY <1>5 DEF ArchiveLogs, Move, LogInv, CleanupTypeOK
  <2>3. ArchivedFirst'
    BY <1>5, <2>1, <2>2 DEF ArchiveLogs, Move, LogInv, ArchivedFirst, CleanupTypeOK
  <2>4. NoLogLost'
    BY <1>5, <2>1 DEF ArchiveLogs, LogInv, NoLogLost, CleanupTypeOK
  <2>5. QED
    BY <2>3, <2>4
<1>6. ASSUME NEW w \in Slots, DeleteLogs(w)
      PROVE  ArchivedFirst' /\ NoLogLost'
  <2>1. main' \subseteq main /\ main \ main' \subseteq archive
    BY <1>6 DEF DeleteLogs, LogInv, ArchivedFirst
  <2>2. ArchivedFirst'
    BY <1>6, <2>1 DEF DeleteLogs, Move, LogInv, ArchivedFirst, CleanupTypeOK
  <2>3. NoLogLost'
    BY <1>6, <2>1 DEF DeleteLogs, LogInv, NoLogLost, CleanupTypeOK
  <2>4. QED
    BY <2>2, <2>3
<1>7. ASSUME NEW w \in Slots, PurgeStale(w) \/ ReturnJob(w) \/ ThrowJob(w)
      PROVE  ArchivedFirst' /\ NoLogLost'
  BY <1>7 DEF PurgeStale, ReturnJob, ThrowJob, Move, logs, LogInv, ArchivedFirst, NoLogLost,
              CleanupTypeOK
<1>8. CASE Redis \/ WorkerCrash \/ UNCHANGED cleanupVars
  BY <1>8 DEF Redis, Aside, WorkerCrash, cleanupVars, logs, LogInv, ArchivedFirst, NoLogLost
<1>9. QED
  BY <1>1, <1>2, <1>3, <1>4, <1>5, <1>6, <1>7, <1>8 DEF CleanupNext, Process
--------------------------------------------------------------------------------
\* What the find returns has a date, and the archive gets what was found.
LEMMA DatedOnlyStep ==
    ASSUME LogInv, [CleanupNext]_cleanupVars
    PROVE  DatedOnly'
<1>1. ASSUME NEW w \in Slots, FindOld(w)
      PROVE  DatedOnly'
  BY <1>1 DEF FindOld, OlderThan, logs, LogInv, DatedOnly, CleanupTypeOK
<1>2. ASSUME NEW w \in Slots, ArchiveLogs(w)
      PROVE  DatedOnly'
  <2>1. archive' \subseteq archive \cup found[w] /\ UNCHANGED found
    BY <1>2 DEF ArchiveLogs, Upto
  <2>2. QED
    BY <2>1 DEF LogInv, DatedOnly
<1>3. ASSUME UNCHANGED <<archive, found>>
      PROVE  DatedOnly'
  BY <1>3 DEF LogInv, DatedOnly
<1>4. QED
  BY <1>1, <1>2, <1>3
  DEF CleanupNext, Process, Tick, Redis, Aside, WorkerCrash, Schedule, Begin, DeleteExpired, DeleteLogs,
      PurgeStale, ReturnJob, ThrowJob, logs, cleanupVars

LEMMA LogInvAlways == CleanupSpec => []LogInv
<1>1. ASSUME LogInv, QueueTypeOK', [CleanupNext]_cleanupVars PROVE LogInv'
  BY <1>1, CleanupTypeStep, ArchivedFirstStep, DatedOnlyStep DEF LogInv
<1>2. QueueSpec => []QueueTypeOK
  BY QueueTypeCorrect
<1>3. QED
  BY <1>1, <1>2, LogInvInit, CleanupDrives, PTL DEF CleanupSpec

--------------------------------------------------------------------------------
(* A completed cleanup *)

\* What is archived up to a past date stays so: the cleanup moves logs one way,
\* and a new log is of a new day.
LEMMA ArchivedStays ==
    ASSUME CleanupTypeOK, CleanupTypeOK', [CleanupNext]_cleanupVars, NEW d \in Int,
           d <= day, ArchivedUpTo(d)
    PROVE  d <= day' /\ ArchivedUpTo(d)'
<1>1. day \in Nat /\ day' \in {day, day + 1} /\ main' \subseteq main \cup LogsOf({day + 1})
      /\ archive \subseteq archive'
  <2>1. CASE Tick
    BY <2>1 DEF Tick, CleanupTypeOK
  <2>2. ASSUME NEW j \in Jobs, Schedule(j) \/ \E w \in Slots : Begin(w, j)
        PROVE  UNCHANGED logs
    BY <2>2 DEF Schedule, Begin
  <2>3. ASSUME NEW w \in Slots, Process(w)
        PROVE  day' = day /\ main' \subseteq main /\ archive \subseteq archive'
    BY <2>3 DEF Process, DeleteExpired, FindOld, ArchiveLogs, DeleteLogs, PurgeStale, ReturnJob,
                ThrowJob, logs
  <2>4. CASE Redis \/ WorkerCrash \/ UNCHANGED cleanupVars
    BY <2>4 DEF Redis, Aside, WorkerCrash, cleanupVars, logs, CleanupTypeOK
  <2> QED
    BY <2>1, <2>2, <2>3, <2>4 DEF CleanupNext, CleanupTypeOK, logs
<1>2. \A l \in LogsOf({day + 1}) : ~(l.day < d)
  BY <1>1, AnotherDay
<1>3. LogsOf(0 .. day') \subseteq LogsOf(0 .. day) \cup LogsOf({day + 1})
  BY <1>1, AnotherDay
<1>4. ASSUME NEW l \in LogsOf(0 .. day'), l.dated, l.day < d
      PROVE  l \in archive' /\ l \notin main'
  <2>1. l \in LogsOf(0 .. day) /\ l \notin LogsOf({day + 1})
    BY <1>2, <1>3, <1>4
  <2>2. l \in archive /\ l \notin main
    BY <1>4, <2>1 DEF ArchivedUpTo
  <2>3. QED
    BY <1>1, <2>1, <2>2
<1>5. d <= day'
  BY <1>1
<1> QED
  BY <1>4, <1>5 DEF ArchivedUpTo

\* A run past its delete has archived the logs older than its archiveDate.
LEMMA RunIsDone ==
    ASSUME LogInv, DoneInv, CleanupTypeOK', [CleanupNext]_cleanupVars, NEW w \in Slots,
           at'[w] \in {"purge", "return"}
    PROVE  cut'[w] <= day' /\ ArchivedUpTo(cut[w])'
<1>1. cut[w] \in Int
  BY DEF LogInv, CleanupTypeOK
<1>2. CASE at[w] \in {"purge", "return"} /\ cut'[w] = cut[w]
  <2>1. PICK d \in Int : d = cut[w] /\ d <= day /\ ArchivedUpTo(d)
    BY <1>1, <1>2 DEF DoneInv
  <2>2. d <= day' /\ ArchivedUpTo(d)'
    BY <2>1, ArchivedStays DEF LogInv
  <2> QED
    BY <1>2, <2>1, <2>2 DEF ArchivedUpTo
<1>3. CASE FindOld(w)
  <2>1. OlderThan(cut[w]) = {} /\ UNCHANGED <<logs, cut>> /\ cut[w] <= day
    BY <1>3 DEF FindOld, Move, LogInv, CleanupTypeOK, ArchivedFirst
  <2> QED
    BY <2>1 DEF OlderThan, logs, LogInv, NoLogLost, ArchivedUpTo
<1>4. CASE DeleteLogs(w)
  <2>1. main' = main \ OlderThan(cut[w]) /\ UNCHANGED <<day, archive, cut>> /\ cut[w] <= day
        /\ OlderThan(cut[w]) \subseteq archive
    BY <1>4 DEF DeleteLogs, Move, LogInv, CleanupTypeOK, ArchivedFirst
  <2> QED
    BY <2>1 DEF OlderThan, LogInv, NoLogLost, ArchivedUpTo
<1> DEFINE Stays == at[w] \in {"purge", "return"} /\ cut'[w] = cut[w]
<1>5. Stays \/ FindOld(w) \/ DeleteLogs(w)
  <2>1. ASSUME NEW v \in Slots, Process(v)
        PROVE  Stays \/ FindOld(w) \/ DeleteLogs(w)
    BY <2>1 DEF Process, DeleteExpired, FindOld, ArchiveLogs, DeleteLogs, PurgeStale, ReturnJob,
                ThrowJob, Move, LogInv, CleanupTypeOK
  <2>2. ASSUME NEW v \in Slots, NEW j \in Jobs, Begin(v, j)
        PROVE  Stays
    BY <2>2 DEF Begin, Move, LogInv, CleanupTypeOK
  <2>3. CASE Tick \/ Redis \/ (\E j \in Jobs : Schedule(j)) \/ UNCHANGED cleanupVars
    BY <2>3 DEF Tick, Redis, Aside, Schedule, cleanupVars
  <2>4. ~WorkerCrash
    BY DEF WorkerCrash
  <2> QED
    BY <2>1, <2>2, <2>3, <2>4 DEF CleanupNext
<1> QED
  BY <1>2, <1>3, <1>4, <1>5

\* A job is completed by a run past its delete, and takes its archiveDate.
LEMMA JobIsDone ==
    ASSUME LogInv, DoneInv, CleanupTypeOK', [CleanupNext]_cleanupVars, NEW j \in Jobs,
           state'[j] = "completed"
    PROVE  done'[j] <= day' /\ ArchivedUpTo(done[j])'
<1> DEFINE Stays   == state[j] = "completed" /\ done'[j] = done[j]
           Settles == \E w \in Slots : at[w] = "return" /\ done'[j] = cut[w]
<1>1. Stays \/ Settles
  <2>1. ASSUME NEW w \in Slots, ReturnJob(w)
        PROVE  Stays \/ Settles
    BY <2>1 DEF ReturnJob, Complete, LogInv, CleanupTypeOK, QueueTypeOK
  <2>2. ASSUME NEW w \in Slots, ThrowJob(w)
        PROVE  Stays
    BY <2>2 DEF ThrowJob, FailRun, LogInv, CleanupTypeOK, QueueTypeOK
  <2>3. ASSUME NEW w \in Slots, Process(w), ~ReturnJob(w), ~ThrowJob(w)
        PROVE  Stays
    BY <2>3 DEF Process, DeleteExpired, FindOld, ArchiveLogs, DeleteLogs, PurgeStale, queueVars
  <2>4. ASSUME NEW i \in Jobs, Schedule(i) \/ \E w \in Slots : Begin(w, i)
        PROVE  Stays
    BY <2>4 DEF Schedule, AddJob, Begin, Take, LogInv, CleanupTypeOK, QueueTypeOK
  <2>5. CASE Redis
    BY <2>5 DEF Redis, Aside, StallFound, DlqAdded, FailStalled, LogInv, CleanupTypeOK, QueueTypeOK
  <2>6. CASE Tick \/ WorkerCrash \/ UNCHANGED cleanupVars
    BY <2>6 DEF Tick, WorkerCrash, Crash, EndProcess, cleanupVars, queueVars
  <2> QED
    BY <2>1, <2>2, <2>3, <2>4, <2>5, <2>6 DEF CleanupNext
<1>2. \E d \in Int : d <= day /\ ArchivedUpTo(d) /\ done'[j] = d
  BY <1>1 DEF LogInv, CleanupTypeOK, DoneInv
<1>3. PICK d \in Int : d <= day /\ ArchivedUpTo(d) /\ done'[j] = d
  BY <1>2
<1>4. d <= day' /\ ArchivedUpTo(d)'
  BY <1>3, ArchivedStays DEF LogInv
<1> QED
  BY <1>3, <1>4 DEF ArchivedUpTo

LEMMA DoneInvAlways == CleanupSpec => []DoneInv
<1>1. CleanupInit => DoneInv
  BY DEF CleanupInit, QueueInit, DoneInv
<1>2. ASSUME LogInv, LogInv', DoneInv, [CleanupNext]_cleanupVars
      PROVE  DoneInv'
  BY <1>2, RunIsDone, JobIsDone DEF LogInv, DoneInv
<1> QED
  BY <1>1, <1>2, LogInvAlways, PTL DEF CleanupSpec

\* Every variable of the cleanup holds a value of its type.
THEOREM CleanupTypeCorrect == CleanupSpec => []CleanupTypeOK
BY LogInvAlways, PTL DEF LogInv

\* However cleanups overlap, fail or die, every audit log ever written is in
\* audit_logs or in its archive.
THEOREM LogsAreKept == CleanupSpec => []NoLogLost
BY LogInvAlways, PTL DEF LogInv

\* Once a cleanup job is completed, by whichever of its runs, the logs with a date
\* older than its archiveDate are archived and deleted, and stay so; those of
\* auditLog, which have none, are never moved (cleanupDaily.ts:52-67, audit.ts:22).
THEOREM CompletedHasArchived == CleanupSpec => []CompletedMeansArchived
<1>1. LogInv /\ DoneInv => CompletedMeansArchived
  BY DEF LogInv, DatedOnly, NoLogLost, DoneInv, ArchivedUpTo, CompletedMeansArchived
<1> QED
  BY <1>1, LogInvAlways, DoneInvAlways, PTL

\* A cleanup is run at most MaxAttempts + MaxStalls times, never again once its job
\* is settled (processor.ts: attempts; bullmq: maxStalledCount).
THEOREM CleanupKeepsContract == CleanupSpec => KeepsContract
BY CleanupDrives, QueueKeepsContract, PTL
================================================================================
