------------------------------- MODULE Schema -------------------------------
(***************************************************************************)
(* Who creates the indexes of the database, and who uses it before they    *)
(* are there: getDb of src/db/mongo.ts in the API processes, which listen  *)
(* only after it (src/server.ts), and in the jobs of the worker process,   *)
(* which call it when they run; and migrate-mongo, run by hand or by CI.   *)
(* An action is the code between two awaits.                               *)
(***************************************************************************)
EXTENDS Indexes

CONSTANTS
    Ensured,   \* the indexes of ensureIndexes, in order
    Up, Down,  \* the scripts of the migrations: sequences of the steps of Indexes
    Apis,      \* API processes
    Jobs,      \* runs of jobs in the worker process
    Worker,    \* the worker process
    Rollbacks, \* migrate:down is used
    Faults     \* calls to the database may fail, processes may die

\* Only a rollback lists what it drops.
IsScript(s, steps) ==
    /\ Len(s) \in Nat
    /\ \A k \in 1..Len(s) : s[k].do \in steps /\ s[k].skip \in Nat

ASSUME SchemaAssumption ==
    /\ Len(Ensured) \in Nat /\ Len(Up) \in Nat
    /\ Apis \cap Jobs = {} /\ Worker \notin Apis
    /\ Rollbacks \in BOOLEAN /\ Faults \in BOOLEAN
    /\ \A n \in 1..Len(Up) : /\ IsScript(Up[n], {"create", "drop"})
                              /\ IsScript(Down[n], {"create", "drop", "dropAll"})

\* Two indexes of a collection with the same name or the same fields.
Conflict(i, j) == i # j /\ i.coll = j.coll /\ (i.name = j.name \/ i.key = j.key)

\* The first migration is one createIndex after another, of which an error ends
\* it, and gives a name of ensureIndexes to other fields (expiresAt, expires_at).
ASSUME ListsConflict ==
    Len(Up) > 0 =>
    /\ Len(Up[1]) \in Nat
    /\ \A k \in 1..Len(Up[1]) : Up[1][k].do = "create" /\ Up[1][k].skip = Throws
    /\ \E k \in 1..Len(Up[1]), n \in 1..Len(Ensured) : Conflict(Up[1][k].index, Ensured[n])

VARIABLES
    catalog,   \* the indexes there are
    dropped,   \* history: indexes a migration has dropped and nobody has created again
    at,        \* where each API process and each job is with the database
    pos,       \* the index it ensures
    connected, \* processes whose `db` is set
    failed,    \* history: processes in which ensureIndexes has failed
    applied,   \* migrations in the changelog
    mig,       \* what migrate-mongo does
    step,      \* the step of the script it is at
    left       \* the indexes it has listed and not dropped yet

procVars   == <<at, pos, connected, failed>>
migVars    == <<applied, mig, step, left>>
schemaVars == <<catalog, dropped, procVars, migVars>>

Callers    == Apis \cup Jobs
Process(c) == IF c \in Apis THEN c ELSE Worker

SchemaInit ==
    /\ catalog = {} /\ dropped = {}
    /\ at = [c \in Callers |-> "out"]
    /\ pos = [c \in Callers |-> 1]
    /\ connected = {} /\ failed = {}
    /\ applied = 0 /\ mig = "idle" /\ step = 1 /\ left = {}
-----------------------------------------------------------------------------
\* createIndex: an index as it is already there is no error, one with the name or
\* the fields of another is (IndexKeySpecsConflict, IndexOptionsConflict).
ClashOfFields(i) ==
    \E j \in catalog \ {i} : j.coll = i.coll /\ j.key = i.key
Clash(i) == \E j \in catalog : Conflict(i, j)
Created(i) ==
    /\ ~Clash(i)
    /\ catalog' = catalog \cup {i}
    /\ dropped' = dropped \ {i}
CreateFails(i) ==
    \/ (Clash(i) \/ Faults) /\ UNCHANGED <<catalog, dropped>>
    \/ Faults /\ Created(i)

Removed(S) ==
    /\ catalog' = catalog \ S
    /\ dropped' = dropped \cup (catalog \cap S)

Goto(c, where) == at' = [at EXCEPT ![c] = where]

\* getDb: `if (db) return db`; else a client of its own connects.
GetDb(c) ==
    /\ at[c] = "out"
    /\ Goto(c, IF Process(c) \in connected THEN "using" ELSE "connecting")
    /\ UNCHANGED <<catalog, dropped, pos, connected, failed, migVars>>

\* start() of server.ts exits; a job fails.
GiveUpListens(c) ==
    /\ Goto(c, IF c \in Apis THEN "using" ELSE "out")
    /\ pos' = [pos EXCEPT ![c] = 1]
GiveUp(c) ==
    /\ Goto(c, IF c \in Apis THEN "exited" ELSE "out")
    /\ pos' = [pos EXCEPT ![c] = 1]

\* `db` is set before the indexes are ensured, and stays set when that fails.
Connect(c) ==
    /\ at[c] = "connecting"
    /\ \/ /\ connected' = connected \cup {Process(c)}
          /\ Goto(c, "ensuring")
          /\ UNCHANGED pos
       \/ Faults /\ GiveUp(c) /\ UNCHANGED connected
    /\ UNCHANGED <<catalog, dropped, failed, migVars>>

EnsureBestEffort(c) ==
    /\ at[c] = "ensuring" /\ pos[c] <= Len(Ensured)
    /\ Created(Ensured[pos[c]]) \/ CreateFails(Ensured[pos[c]])
    /\ pos' = [pos EXCEPT ![c] = @ + 1]
    /\ UNCHANGED <<at, failed, connected, migVars>>
Ensure(c) ==
    /\ at[c] = "ensuring" /\ pos[c] <= Len(Ensured)
    /\ \/ /\ Created(Ensured[pos[c]])
          /\ pos' = [pos EXCEPT ![c] = @ + 1]
          /\ UNCHANGED <<at, failed>>
       \/ /\ CreateFails(Ensured[pos[c]])
          /\ GiveUp(c)
          /\ failed' = failed \cup {Process(c)}
    /\ UNCHANGED <<connected, migVars>>

\* The API listens; the job goes on.
EnsureDone(c) ==
    /\ at[c] = "ensuring" /\ pos[c] > Len(Ensured)
    /\ Goto(c, "using")
    /\ pos' = [pos EXCEPT ![c] = 1]
    /\ UNCHANGED <<catalog, dropped, connected, failed, migVars>>

EndJob(j) ==
    /\ at[j] = "using"
    /\ Goto(j, "out")
    /\ UNCHANGED <<catalog, dropped, pos, connected, failed, migVars>>

\* A process is started again, whatever it was doing.
Restart(p) ==
    /\ at' = [c \in Callers |-> IF Process(c) = p THEN "out" ELSE at[c]]
    /\ pos' = [c \in Callers |-> IF Process(c) = p THEN 1 ELSE pos[c]]
    /\ connected' = connected \ {p}
    /\ failed' = failed \ {p}
    /\ UNCHANGED <<catalog, dropped, migVars>>
-----------------------------------------------------------------------------
\* migrate-mongo up: every script that is not in the changelog, in order, each
\* recorded when it has returned; the first that throws ends it.
MigrateUp ==
    /\ mig \in {"idle", "failed"} /\ applied < Len(Up)
    /\ mig' = "up" /\ step' = 1
    /\ UNCHANGED <<catalog, dropped, procVars, applied, left>>

\* migrate-mongo down: the last script in the changelog.
MigrateDown ==
    /\ Rollbacks
    /\ mig \in {"idle", "failed"} /\ applied > 0
    /\ mig' = "down" /\ step' = 1
    /\ UNCHANGED <<catalog, dropped, procVars, applied, left>>

Script == IF mig = "up" THEN Up[applied + 1] ELSE Down[applied]
At(what) ==
    /\ mig \in {"up", "down"} /\ step <= Len(Script)
    /\ Script[step].do = what

NextStep == step' = step + 1 /\ mig' = mig
StepFails ==
    \/ Script[step].skip = Throws /\ mig' = "failed" /\ step' = 1
    \/ Script[step].skip # Throws /\ step' = step + 1 + Script[step].skip /\ mig' = mig

CreateStep ==
    /\ At("create")
    /\ \/ Created(Script[step].index) /\ NextStep
       \/ CreateFails(Script[step].index) /\ StepFails
    /\ UNCHANGED <<procVars, applied, left>>

Named(i) == {j \in catalog : j.coll = i.coll /\ j.name = i.name}

DropStep ==
    /\ At("drop")
    /\ LET found == Named(Script[step].index)
       IN \/ found # {} /\ Removed(found) /\ NextStep
          \/ (found = {} \/ Faults) /\ UNCHANGED <<catalog, dropped>> /\ StepFails
    /\ UNCHANGED <<procVars, applied, left>>

\* The first migration's rollback lists the indexes of a collection, then drops
\* each; an error takes it to the next collection.
ListStep ==
    /\ At("dropAll")
    /\ \/ /\ left' = {i \in catalog : i.coll = Script[step].index.coll}
          /\ mig' = "dropping" /\ UNCHANGED step
       \/ Faults /\ StepFails /\ UNCHANGED left
    /\ UNCHANGED <<catalog, dropped, procVars, applied>>

DropListedOn ==
    /\ mig = "dropping"
    /\ \/ \E i \in left : Removed({i}) /\ i \in catalog /\ left' = left \ {i} /\ UNCHANGED <<mig, step>>
       \/ /\ left = {} \/ ~(left \subseteq catalog) \/ Faults
          /\ mig' = "down" /\ step' = step + 1
          /\ UNCHANGED <<catalog, dropped, left>>
    /\ UNCHANGED <<procVars, applied>>
DropListed ==
    /\ mig = "dropping"
    /\ \/ \E i \in left : Removed({i}) /\ i \in catalog /\ left' = left \ {i} /\ UNCHANGED <<mig, step>>
       \/ /\ left = {} \/ ~(left \subseteq catalog) \/ Faults
          /\ left' = {} /\ mig' = "down" /\ step' = step + 1
          /\ UNCHANGED <<catalog, dropped>>
    /\ UNCHANGED <<procVars, applied>>

Record ==
    /\ mig \in {"up", "down"} /\ step > Len(Script)
    /\ applied' = IF mig = "up" THEN applied + 1 ELSE applied - 1
    /\ mig' = IF mig = "up" /\ applied + 1 < Len(Up) THEN "up" ELSE "idle"
    /\ step' = 1
    /\ UNCHANGED <<catalog, dropped, procVars, left>>

MigrateDies ==
    /\ Faults
    /\ mig \in {"up", "down", "dropping"}
    /\ mig' = "failed" /\ step' = 1 /\ left' = {}
    /\ UNCHANGED <<catalog, dropped, procVars, applied>>
-----------------------------------------------------------------------------
Use(c) == GetDb(c) \/ Connect(c) \/ Ensure(c) \/ EnsureDone(c)
Migrate ==
    \/ MigrateUp \/ MigrateDown \/ CreateStep \/ DropStep \/ ListStep \/ DropListed
    \/ Record \/ MigrateDies

SchemaNext ==
    \/ \E c \in Callers : Use(c)
    \/ \E j \in Jobs : EndJob(j)
    \/ \E p \in Apis \cup {Worker} : Restart(p)
    \/ Migrate

SchemaSpec == SchemaInit /\ [][SchemaNext]_schemaVars
-----------------------------------------------------------------------------
Indexed == \A k \in 1..Len(Ensured) : Ensured[k] \in catalog \cup dropped

SchemaTypeOK ==
    /\ at \in [Callers -> {"out", "connecting", "ensuring", "using", "exited"}]
    /\ pos \in [Callers -> 1..Len(Ensured) + 1]
    /\ connected \subseteq Apis \cup {Worker}
    /\ failed \subseteq connected
    /\ catalog \cap dropped = {}
    /\ applied \in 0..Len(Up)
    /\ mig \in {"idle", "failed", "up", "down", "dropping"} /\ step \in Nat \ {0}
    /\ left # {} => mig = "dropping"

\* An API process that takes requests has every index of ensureIndexes, but for
\* those a rollback has dropped since (server.ts:115-130: getDb before listen).
ServedIndexed == \A a \in Apis : at[a] = "using" => Indexed

\* A job that uses a database with an index missing does so while another job of
\* its process still ensures them, or after ensureIndexes has failed there
\* (mongo.ts:9 and 17: `db` is set before they are ensured).
UnindexedHasCause ==
    \A j \in Jobs : at[j] = "using" =>
        \/ Indexed
        \/ Worker \in failed
        \/ \E k \in Jobs \ {j} : at[k] = "ensuring"

\* The API and the migrations exclude each other: where a migration is applied and
\* no rollback has dropped an index that is still missing, no API process takes
\* requests, for the two give indexes of one name different fields.
ServerOrMigrations ==
    \A a \in Apis : at[a] = "using" => applied = 0 \/ dropped # {}

\* README.md:27-31: start the services, run the migrations, verify health; and
\* README.md:331, run them after any upgrade.
SetupWorks == mig # "failed" /\ \A a \in Apis : at[a] # "exited"
=============================================================================
