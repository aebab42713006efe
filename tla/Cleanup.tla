-------------------------------- MODULE Cleanup --------------------------------
(***************************************************************************)
(* The daily cleanup: a slot of the worker runs processDailyCleanup on a   *)
(* daily_cleanup job.  What it does in one database call (the deletes of   *)
(* expired and stale documents) is left out, but for whether it fails; the *)
(* archiving of audit logs takes three calls, a find, an insert into the   *)
(* archive and a delete, between which anything can happen.                *)
(*                                                                         *)
(* Two audit logs are written a day, so a log is named by its day and by   *)
(* whether its field at is a date.  It is in those refundExecutor.ts and   *)
(* verification.ts insert.  auditLog stores what maskPII makes of a log,   *)
(* which rebuilds every object from its entries; a Date has none, and so   *)
(* at becomes {}, which no comparison with a date matches.                 *)
(***************************************************************************)
EXTENDS JobQueue

CONSTANTS Retentions,  \* values of retention_days
          Faults,      \* database calls may fail
          MaxDay       \* bound of the clock, for model checking

ASSUME CleanupAssumption ==
    /\ Retentions \subseteq Nat
    /\ Faults \in BOOLEAN
    /\ MaxDay \in Nat

VARIABLES
    day,      \* today
    main,     \* collection audit_logs
    archive,  \* collection audit_logs_archive
    keep,     \* job.data.retention_days, defaults included
    at,       \* where the run of each slot waits
    cut,      \* archiveDate of the run
    found,    \* oldAuditLogs of the run
    done      \* history: archiveDate of the run that completed each job

logs        == <<day, main, archive>>
cleanupVars == <<queueVars, logs, keep, at, cut, found, done>>

\* The audit logs of some days.
LogsOf(days) == [day : days, dated : BOOLEAN]

\* The filter of the find and of the delete: at < archiveDate.
OlderThan(date) == {l \in main : l.dated /\ l.day < date}

CleanupInit ==
    /\ QueueInit
    /\ day = 0 /\ main = LogsOf({0}) /\ archive = {}
    /\ keep = [j \in Jobs |-> 0]
    /\ at = [w \in Slots |-> "idle"]
    /\ cut = [w \in Slots |-> 0]
    /\ found = [w \in Slots |-> {}]
    /\ done = [j \in Jobs |-> 0]
--------------------------------------------------------------------------------
Move(w, where) == at' = [at EXCEPT ![w] = where]

\* Another day, on which auditLog writes a log, and a refund or a verification one.
Tick ==
    /\ day < MaxDay
    /\ day' = day + 1 /\ main' = main \cup LogsOf({day + 1})
    /\ UNCHANGED <<queueVars, archive, keep, at, cut, found, done>>

\* A scheduler outside the repository adds the job.
Schedule(j) ==
    /\ AddJob(j)
    /\ \E n \in Retentions : keep' = [keep EXCEPT ![j] = n]
    /\ UNCHANGED <<logs, at, cut, found, done>>

Begin(w, j) ==
    /\ Take(w, j)
    /\ Move(w, "expired")
    /\ UNCHANGED <<logs, keep, cut, found, done>>

\* Steps 1 to 4; archiveDate is computed when the last of them is answered.
DeleteExpired(w) ==
    /\ at[w] = "expired"
    /\ \/ Move(w, "find") /\ cut' = [cut EXCEPT ![w] = day - keep[work[w]]]
       \/ Faults /\ Move(w, "throw") /\ UNCHANGED cut
    /\ UNCHANGED <<queueVars, logs, keep, found, done>>

FindOld(w) ==
    /\ at[w] = "find"
    /\ LET old == OlderThan(cut[w]) IN
       \/ found' = [found EXCEPT ![w] = old] /\ Move(w, IF old = {} THEN "purge" ELSE "archive")
       \/ Faults /\ Move(w, "throw") /\ UNCHANGED found
    /\ UNCHANGED <<queueVars, logs, keep, cut, done>>

\* insertMany, in order: it stops at the first log the archive has already
\* (_id is unique), or wherever the database fails.
Upto(s, l) == {k \in s : k.day < l.day}
ArchiveLogs(w) ==
    /\ at[w] = "archive"
    /\ \/ /\ found[w] \cap archive = {}
          /\ archive' = archive \cup found[w]
          /\ Move(w, "delete") \/ (Faults /\ Move(w, "throw"))
       \/ \E l \in found[w] :
          /\ l \in archive \/ Faults
          /\ Upto(found[w], l) \cap archive = {}
          /\ archive' = archive \cup Upto(found[w], l)
          /\ Move(w, "throw")
    /\ UNCHANGED <<queueVars, day, main, keep, cut, found, done>>

\* deleteMany by the same archiveDate, not by the logs found; a delete that fails
\* may have removed some.
DeleteByToday(w) ==
    /\ at[w] = "delete"
    /\ main' = main \ OlderThan(day - keep[work[w]])
    /\ Move(w, "purge")
    /\ UNCHANGED <<queueVars, day, archive, keep, cut, found, done>>
DeleteUnchecked(w) ==
    /\ at[w] = "delete"
    /\ \E gone \in SUBSET OlderThan(cut[w]) : main' = main \ gone
    /\ Move(w, "purge")
    /\ UNCHANGED <<queueVars, day, archive, keep, cut, found, done>>
DeleteLogs(w) ==
    /\ at[w] = "delete"
    /\ \/ main' = main \ OlderThan(cut[w]) /\ Move(w, "purge")
       \/ /\ Faults
          /\ \E gone \in SUBSET OlderThan(cut[w]) : main' = main \ gone
          /\ Move(w, "throw")
    /\ UNCHANGED <<queueVars, day, archive, keep, cut, found, done>>

\* Steps 6 to 9.
PurgeStale(w) ==
    /\ at[w] = "purge"
    /\ Move(w, "return") \/ (Faults /\ Move(w, "throw"))
    /\ UNCHANGED <<queueVars, logs, keep, cut, found, done>>

ReturnJob(w) ==
    /\ at[w] = "return" /\ Complete(w) /\ Move(w, "idle")
    /\ done' = IF HoldsLock(w) THEN [done EXCEPT ![work[w]] = cut[w]] ELSE done
    /\ UNCHANGED <<logs, keep, cut, found>>

ThrowJob(w) ==
    /\ at[w] = "throw" /\ FailRun(w) /\ Move(w, "idle")
    /\ UNCHANGED <<logs, keep, cut, found, done>>

Process(w) ==
    \/ DeleteExpired(w) \/ FindOld(w) \/ ArchiveLogs(w) \/ DeleteLogs(w)
    \/ PurgeStale(w) \/ ReturnJob(w) \/ ThrowJob(w)

\* BullMQ and the 'failed' handler.
Aside == UNCHANGED <<logs, keep, at, cut, found, done>>
Redis ==
    /\ \E j \in Jobs : \/ StallFound(j) \/ DlqAdded(j)
                       \/ \E w \in Slots : FailStalled(w, j)
    /\ Aside

WorkerCrash ==
    /\ Crash
    /\ at' = [w \in Slots |-> "idle"]
    /\ UNCHANGED <<logs, keep, cut, found, done>>

CleanupNext ==
    \/ Tick \/ Redis \/ WorkerCrash
    \/ \E j \in Jobs : Schedule(j)
    \/ \E w \in Slots : Process(w) \/ \E j \in Jobs : Begin(w, j)

CleanupSpec == CleanupInit /\ [][CleanupNext]_cleanupVars
--------------------------------------------------------------------------------
(* Properties *)

\* Every variable holds a value of its type, and a slot is at an await exactly
\* when it runs a job.
CleanupTypeOK ==
    /\ QueueTypeOK
    /\ day \in Nat /\ main \subseteq LogsOf(0 .. day) /\ archive \subseteq LogsOf(0 .. day)
    /\ keep \in [Jobs -> Retentions \cup {0}]
    /\ at \in [Slots -> {"idle", "expired", "find", "archive", "delete", "purge",
                         "return", "throw"}]
    /\ cut \in [Slots -> Int] /\ done \in [Jobs -> Int]
    /\ found \in [Slots -> SUBSET LogsOf(0 .. day)]
    /\ \A w \in Slots : at[w] = "idle" <=> work[w] = None

\* No audit log is lost, whatever fails between the insert into the archive and
\* the delete, and however many cleanups run at once.
NoLogLost == main \cup archive = LogsOf(0 .. day)

\* Once a cleanup job is completed, the logs older than its archiveDate that have a
\* date are in the archive, and only there; those of auditLog are where they were
\* written, however old (cleanupDaily.ts:50-67).
CompletedMeansArchived ==
    \A j \in Jobs : state[j] = "completed" =>
        \A l \in LogsOf(0 .. day) : l.day < done[j] =>
            IF l.dated THEN l \in archive /\ l \notin main ELSE l \in main /\ l \notin archive
================================================================================
