---------------------------- MODULE DatabaseProofs ----------------------------
(***************************************************************************)
(* Proofs about what MongoDB keeps for the API.                            *)
(*                                                                         *)
(* Users, for any requests and contacts: types and the uniqueness of       *)
(* contacts.                                                               *)
(*                                                                         *)
(* Schema, for any lists of indexes, any scripts of the migrations and any *)
(* number of processes and jobs: what ensureIndexes guarantees to the API, *)
(* how little it guarantees to a job, and that a server and the migrations *)
(* never have one database (ServerExcludesMigrations rests on a conflict   *)
(* of the two lists of indexes, ListsConflict).                            *)
(***************************************************************************)
EXTENDS Users, Schema, TLAPS

(* Users *)

Documents == [email : Emails \cup {Null}, phone : Phones \cup {Null}]

\* A request that waits has what it goes on with.
Waiting ==
    /\ \A r \in Requests : pc[r] \in {"existing", "insert", "update"} => want[r] \in Contacts
    /\ \A e \in Editors : pc[e] = "update" => target[e] \in Creators

UsersInv == UsersTypeOK /\ Waiting /\ ContactsUnique

\* What a creation stores is a document: its absent fields are null.
LEMMA NewUserType ==
    ASSUME NEW c \in Contacts
    PROVE  NewUser(c) \in Documents
BY DEF NewUser, Contacts, Documents

\* What a change stores is one as well.
LEMMA MergedType ==
    ASSUME NEW u \in Creators, NEW c \in Contacts, users[u] \in Documents
    PROVE  Merged(u, c) \in Documents
BY DEF Merged, Contacts, Documents

\* Documents whose emails and phones differ share no contact: an email is no phone.
LEMMA DifferentIsDisjoint ==
    ASSUME NEW c \in Documents, NEW d \in Documents, c.email # d.email, c.phone # d.phone
    PROVE  Given(c) \cap Given(d) = {}
<1>1. /\ c.email \in Emails \cup {Null} /\ d.email \in Emails \cup {Null}
      /\ c.phone \in Phones \cup {Null} /\ d.phone \in Phones \cup {Null}
  BY DEF Documents
<1> QED
  BY <1>1, UsersAssumption DEF Given

\* Whatever becomes of the write of a document, the collection keeps its type.
LEMMA WriteType ==
    ASSUME UsersTypeOK, NEW u \in Creators, NEW c \in Documents,
           Stores(u, c) \/ UNCHANGED <<users, held>>
    PROVE  /\ users' \in [Creators -> Documents \cup {None}]
           /\ held' \subseteq Emails \cup Phones
<1>1. Given(c) \subseteq Emails \cup Phones
  BY DEF Given, Documents
<1> QED
  BY <1>1 DEF UsersTypeOK, Stores, Documents

\* Only a document the indexes let in is stored.
LEMMA WriteUnique ==
    ASSUME UsersTypeOK, ContactsUnique, NEW u \in Creators, NEW c \in Documents,
           (Fresh(u, c) /\ Stores(u, c)) \/ UNCHANGED <<users, held>>
    PROVE  ContactsUnique'
<1>1. CASE UNCHANGED <<users, held>>
  BY <1>1 DEF ContactsUnique
<1>2. CASE Fresh(u, c) /\ Stores(u, c)
  <2>1. users' = [users EXCEPT ![u] = c] /\ users \in [Creators -> Documents \cup {None}]
    BY <1>2 DEF Stores, UsersTypeOK, Documents
  <2>2. \A v \in Creators \ {u} : users[v] # None => Given(users[v]) \cap Given(c) = {}
    BY <1>2, <2>1, DifferentIsDisjoint DEF Fresh
  <2>3. ASSUME NEW v \in Creators, NEW w \in Creators, v # w, users'[v] # None, users'[w] # None
        PROVE  Given(users'[v]) \cap Given(users'[w]) = {}
    <3>1. CASE v = u
      BY <2>1, <2>2, <2>3, <3>1
    <3>2. CASE w = u
      BY <2>1, <2>2, <2>3, <3>2
    <3>3. CASE v # u /\ w # u
      BY <2>1, <2>3, <3>3 DEF ContactsUnique
    <3> QED
      BY <3>1, <3>2, <3>3
  <2> QED
    BY <2>3 DEF ContactsUnique
<1> QED
  BY <1>1, <1>2

\* The empty collection.
LEMMA UsersInvInit == UsersInit => UsersInv
BY DEF UsersInit, UsersInv, UsersTypeOK, Waiting, ContactsUnique, Requests

\* The steps that write go through the indexes, the others leave the collection
\* alone; each leaves its request where it has what it goes on with.
LEMMA UsersInvStep == UsersInv /\ [UsersNext]_usersVars => UsersInv'
<1> SUFFICES ASSUME UsersInv, [UsersNext]_usersVars
    PROVE  UsersInv'
  OBVIOUS
<1> USE DEF UsersInv
<1>1. ASSUME NEW r \in Creators, Create(r)
      PROVE  UsersInv'
  BY <1>1 DEF Create, Jump, UsersTypeOK, Waiting, ContactsUnique, Requests
<1>2. ASSUME NEW r \in Creators, FindExisting(r)
      PROVE  UsersInv'
  BY <1>2 DEF FindExisting, Jump, Reply, UsersTypeOK, Waiting, ContactsUnique, Requests
<1>3. ASSUME NEW r \in Creators, InsertUser(r)
      PROVE  UsersInv'
  <2>1. want[r] \in Contacts
    BY <1>3 DEF InsertUser, Waiting, Requests
  <2>2. PICK c \in Documents : Write(r, r, c, Reply(r, "created"))
    BY <1>3, <2>1, NewUserType DEF InsertUser
  <2>3. (Fresh(r, c) /\ Stores(r, c)) \/ UNCHANGED <<users, held>>
    BY <2>2 DEF Write
  <2>4. /\ pc' = [pc EXCEPT ![r] = "answered"]
        /\ answer' = [answer EXCEPT ![r] = "created"] \/ answer' = [answer EXCEPT ![r] = "error"]
        /\ UNCHANGED <<want, target>>
    BY <1>3, <2>2 DEF InsertUser, Write, Reply, Jump
  <2> QED
    BY <2>3, <2>4, WriteType, WriteUnique DEF UsersTypeOK, Waiting, Requests, Documents
<1>4. ASSUME NEW e \in Editors, Update(e)
      PROVE  UsersInv'
  BY <1>4 DEF Update, Jump, UsersTypeOK, Waiting, ContactsUnique, Requests
<1>5. ASSUME NEW e \in Editors, UpdateUser(e)
      PROVE  UsersInv'
  <2>1. want[e] \in Contacts /\ target[e] \in Creators
    BY <1>5 DEF UpdateUser, Waiting, Requests
  <2>2. CASE users[target[e]] = None
    BY <1>5, <2>1, <2>2 DEF UpdateUser, Reply, Jump, UsersTypeOK, Waiting, ContactsUnique, Requests
  <2>3. CASE users[target[e]] # None
    <3>1. users[target[e]] \in Documents
      BY <2>1, <2>3 DEF UsersTypeOK, Documents
    <3>2. PICK c \in Documents :
             Write(e, target[e], c, Jump(e, "reread") /\ UNCHANGED answer)
      BY <1>5, <2>1, <2>3, <3>1, MergedType DEF UpdateUser
    <3>3. (Fresh(target[e], c) /\ Stores(target[e], c)) \/ UNCHANGED <<users, held>>
      BY <3>2 DEF Write
    <3>4. /\ pc' = [pc EXCEPT ![e] = "reread"] \/ pc' = [pc EXCEPT ![e] = "answered"]
          /\ answer' = answer \/ answer' = [answer EXCEPT ![e] = "error"]
          /\ UNCHANGED <<want, target>>
      BY <1>5, <3>2 DEF UpdateUser, Write, Reply, Jump
    <3> QED
      BY <2>1, <3>3, <3>4, WriteType, WriteUnique DEF UsersTypeOK, Waiting, Requests, Documents
  <2> QED
    BY <2>2, <2>3
<1>6. ASSUME NEW e \in Editors, Reread(e)
      PROVE  UsersInv'
  BY <1>6 DEF Reread, Jump, Reply, UsersTypeOK, Waiting, ContactsUnique, Requests
<1>7. CASE UNCHANGED usersVars
  BY <1>7 DEF usersVars, UsersTypeOK, Waiting, ContactsUnique
<1> QED
  BY <1>1, <1>2, <1>3, <1>4, <1>5, <1>6, <1>7 DEF UsersNext

\* Type correctness.
THEOREM UsersTypeCorrect == UsersSpec => []UsersTypeOK
<1>1. UsersInv => UsersTypeOK
  BY DEF UsersInv
<1> QED
  BY UsersInvInit, UsersInvStep, <1>1, PTL DEF UsersSpec

\* The unique indexes keep contacts apart, for any number of creations and
\* changes in any order, though the look before the insert decides nothing.
THEOREM ContactsStayUnique == UsersSpec => []ContactsUnique
<1>1. UsersInv => ContactsUnique
  BY DEF UsersInv
<1> QED
  BY UsersInvInit, UsersInvStep, <1>1, PTL DEF UsersSpec
-------------------------------------------------------------------------------
(* Schema *)

Have == catalog \cup dropped
Places == {"out", "connecting", "ensuring", "using", "exited"}
Processes == Apis \cup {Worker}

ProcTypes ==
    /\ at \in [Callers -> Places]
    /\ pos \in [Callers -> 1..Len(Ensured) + 1]
    /\ connected \subseteq Processes
    /\ failed \subseteq connected

\* What a caller in ensureIndexes has passed is there; `db` is set for whoever is
\* past the connection, and in the API for nobody else.
Prefix ==
    \A c \in Callers :
        /\ at[c] = "ensuring" => \A k \in 1..pos[c] - 1 : Ensured[k] \in Have
        /\ at[c] # "ensuring" => pos[c] = 1
HasDb ==
    /\ \A c \in Callers : at[c] \in {"ensuring", "using"} => Process(c) \in connected
    /\ \A a \in Apis : at[a] \in {"out", "connecting"} => a \notin connected
WorkerDb ==
    Worker \in connected =>
        Indexed \/ Worker \in failed \/ \E k \in Jobs : at[k] = "ensuring"

SchemaInv == ProcTypes /\ Prefix /\ HasDb /\ ServedIndexed /\ WorkerDb

USE DEF Callers, Process, Processes, Places
-----------------------------------------------------------------------------
\* No step takes an index away without noting it: created ones are in the catalog,
\* dropped ones in the history (createIndex, dropIndex).
LEMMA CreatedHas ==
    ASSUME NEW i, Created(i)
    PROVE  Have \subseteq Have' /\ i \in Have'
BY DEF Created, Have

LEMMA CreateFailsHas ==
    ASSUME NEW i, CreateFails(i)
    PROVE  Have \subseteq Have'
BY DEF CreateFails, Created, Have

LEMMA RemovedHas ==
    ASSUME NEW S, Removed(S)
    PROVE  Have \subseteq Have'
BY DEF Removed, Have

\* What is indexed stays so while the callers' part of the state is left alone.
LEMMA IndexedStays ==
    ASSUME Have \subseteq Have', Indexed
    PROVE  Indexed'
BY DEF Indexed, Have

\* Whoever has passed the whole list has every index.
LEMMA PassedAll ==
    ASSUME SchemaAssumption, ProcTypes, Prefix, NEW c \in Callers,
           at[c] = "ensuring", pos[c] > Len(Ensured)
    PROVE  Indexed
<1>1. pos[c] \in 1..Len(Ensured) + 1 /\ Len(Ensured) \in Nat
  BY DEF SchemaAssumption, ProcTypes
<1>2. pos[c] - 1 = Len(Ensured)
  BY <1>1
<1>3. \A k \in 1..pos[c] - 1 : Ensured[k] \in Have
  BY DEF Prefix
<1> QED
  BY <1>2, <1>3 DEF Indexed, Have

\* A step of the migrations leaves the processes alone and keeps the invariant
\* (the scripts of src/migrations).
LEMMA MigrateKeeps ==
    ASSUME SchemaInv, Migrate
    PROVE  SchemaInv'
<1>1. UNCHANGED procVars
  BY DEF Migrate, MigrateUp, MigrateDown, CreateStep, DropStep, ListStep, DropListed, Record,
         MigrateDies
<1>2. Have \subseteq Have'
  <2>1. CASE CreateStep
    BY <2>1, CreatedHas, CreateFailsHas DEF CreateStep
  <2>2. CASE DropStep
    BY <2>2, RemovedHas DEF DropStep, Have
  <2>3. CASE DropListed
    BY <2>3, RemovedHas DEF DropListed, Have
  <2>4. CASE MigrateUp \/ MigrateDown \/ ListStep \/ Record \/ MigrateDies
    BY <2>4 DEF MigrateUp, MigrateDown, ListStep, Record, MigrateDies, Have
  <2> QED
    BY <2>1, <2>2, <2>3, <2>4 DEF Migrate
<1>3. Indexed => Indexed'
  BY <1>2, IndexedStays
<1> QED
  BY <1>1, <1>2, <1>3
     DEF SchemaInv, procVars, ProcTypes, Prefix, HasDb, ServedIndexed, WorkerDb

\* getDb: an API process starts with no database, a job may be handed one.
LEMMA GetDbKeeps ==
    ASSUME SchemaInv, NEW c \in Callers, GetDb(c)
    PROVE  SchemaInv'
<1>1. Have' = Have /\ Indexed' = Indexed /\ pos' = pos /\ connected' = connected /\ failed' = failed
  BY DEF GetDb, Have, Indexed
<1>2. at[c] = "out" /\ at' = [at EXCEPT ![c] = IF Process(c) \in connected THEN "using" ELSE "connecting"]
  BY DEF GetDb, Goto
<1>3. c \in Apis => at'[c] = "connecting"
  BY <1>2 DEF SchemaInv, HasDb, ProcTypes
<1>4. ProcTypes' /\ Prefix'
  BY <1>1, <1>2 DEF SchemaInv, ProcTypes, Prefix
<1>5. HasDb'
  BY <1>1, <1>2, <1>3 DEF SchemaInv, ProcTypes, HasDb
<1>6. ServedIndexed'
  BY <1>1, <1>2, <1>3 DEF SchemaInv, ProcTypes, ServedIndexed
<1>7. WorkerDb'
  BY <1>1, <1>2 DEF SchemaInv, ProcTypes, WorkerDb
<1> QED
  BY <1>4, <1>5, <1>6, <1>7 DEF SchemaInv

\* A client connects, or fails to.
LEMMA ConnectKeeps ==
    ASSUME SchemaAssumption, SchemaInv, NEW c \in Callers, Connect(c)
    PROVE  SchemaInv'
<1>1. Have' = Have /\ Indexed' = Indexed /\ failed' = failed /\ at[c] = "connecting"
  BY DEF Connect, Have, Indexed
<1>2. CASE connected' = connected \cup {Process(c)} /\ Goto(c, "ensuring") /\ UNCHANGED pos
  <2>1. Prefix'
    BY <1>1, <1>2 DEF SchemaInv, ProcTypes, Prefix, Goto
  <2> QED
    BY <1>1, <1>2, <2>1 DEF SchemaInv, ProcTypes, HasDb, ServedIndexed, WorkerDb, Goto
<1>3. CASE GiveUp(c) /\ UNCHANGED connected
  BY <1>1, <1>3
     DEF SchemaAssumption, SchemaInv, ProcTypes, Prefix, HasDb, ServedIndexed, WorkerDb, GiveUp, Goto
<1> QED
  BY <1>2, <1>3 DEF Connect

\* One index more, or the end of the attempt.
LEMMA EnsureKeeps ==
    ASSUME SchemaAssumption, SchemaInv, NEW c \in Callers, Ensure(c)
    PROVE  SchemaInv'
<1> DEFINE i == Ensured[pos[c]]
<1>1. at[c] = "ensuring" /\ pos[c] <= Len(Ensured) /\ connected' = connected /\ Process(c) \in connected
  BY DEF Ensure, SchemaInv, HasDb
<1>2. CASE Created(i) /\ pos' = [pos EXCEPT ![c] = @ + 1] /\ UNCHANGED <<at, failed>>
  <2>1. Have \subseteq Have' /\ i \in Have' /\ (Indexed => Indexed')
    BY <1>2, CreatedHas, IndexedStays
  <2>2. ProcTypes'
    BY <1>1, <1>2 DEF SchemaAssumption, SchemaInv, ProcTypes
  <2>3. Prefix'
    BY <1>1, <1>2, <2>1 DEF SchemaInv, ProcTypes, Prefix
  <2> QED
    BY <1>1, <1>2, <2>1, <2>2, <2>3 DEF SchemaInv, ProcTypes, HasDb, ServedIndexed, WorkerDb
<1>3. CASE CreateFails(i) /\ GiveUp(c) /\ failed' = failed \cup {Process(c)}
  <2>1. Have \subseteq Have' /\ (Indexed => Indexed')
    BY <1>3, CreateFailsHas, IndexedStays
  <2>2. /\ at' = [at EXCEPT ![c] = IF c \in Apis THEN "exited" ELSE "out"]
        /\ pos' = [pos EXCEPT ![c] = 1]
    BY <1>3 DEF GiveUp, Goto
  <2>3. ProcTypes'
    BY <1>1, <1>3, <2>2 DEF SchemaAssumption, SchemaInv, ProcTypes
  <2>4. Prefix'
    BY <2>1, <2>2 DEF SchemaInv, ProcTypes, Prefix
  <2>5. HasDb' /\ ServedIndexed'
    BY <1>1, <2>1, <2>2 DEF SchemaInv, ProcTypes, HasDb, ServedIndexed
  <2>6. WorkerDb'
    BY <1>1, <1>3, <2>1, <2>2 DEF SchemaInv, ProcTypes, WorkerDb
  <2> QED
    BY <2>3, <2>4, <2>5, <2>6 DEF SchemaInv
<1> QED
  BY <1>2, <1>3 DEF Ensure

\* The end of the list: every index is there, and the API listens.
LEMMA EnsureDoneKeeps ==
    ASSUME SchemaAssumption, SchemaInv, NEW c \in Callers, EnsureDone(c)
    PROVE  SchemaInv'
<1>1. Indexed
  BY PassedAll DEF EnsureDone, SchemaInv
<1>2. Have' = Have /\ Indexed'
  BY <1>1 DEF EnsureDone, Have, Indexed
<1>3. /\ at' = [at EXCEPT ![c] = "using"] /\ pos' = [pos EXCEPT ![c] = 1]
      /\ connected' = connected /\ failed' = failed /\ at[c] = "ensuring"
  BY DEF EnsureDone, Goto
<1> QED
  BY <1>2, <1>3 DEF SchemaAssumption, SchemaInv, ProcTypes, Prefix, HasDb, ServedIndexed, WorkerDb

\* A job ends, a process starts again.
LEMMA RestKeeps ==
    ASSUME SchemaAssumption, SchemaInv,
           (\E j \in Jobs : EndJob(j)) \/ (\E p \in Processes : Restart(p))
    PROVE  SchemaInv'
<1>1. Have' = Have /\ Indexed' = Indexed
  BY DEF EndJob, Restart, Have, Indexed
<1>2. ASSUME NEW j \in Jobs, EndJob(j)
      PROVE  SchemaInv'
  BY <1>1, <1>2
     DEF SchemaAssumption, EndJob, Goto, SchemaInv, ProcTypes, Prefix, HasDb, ServedIndexed, WorkerDb
<1>3. ASSUME NEW p \in Processes, Restart(p)
      PROVE  SchemaInv'
  <2>1. ProcTypes' /\ Prefix'
    BY <1>1, <1>3 DEF SchemaAssumption, Restart, SchemaInv, ProcTypes, Prefix
  <2>2. HasDb' /\ ServedIndexed'
    BY <1>1, <1>3 DEF Restart, SchemaInv, ProcTypes, HasDb, ServedIndexed
  <2>3. WorkerDb'
    BY <1>1, <1>3 DEF SchemaAssumption, Restart, SchemaInv, ProcTypes, WorkerDb
  <2> QED
    BY <2>1, <2>2, <2>3 DEF SchemaInv
<1> QED
  BY <1>2, <1>3
-----------------------------------------------------------------------------
LEMMA InvInit ==
    ASSUME SchemaAssumption, SchemaInit
    PROVE  SchemaInv
BY DEF SchemaAssumption, SchemaInit, SchemaInv, ProcTypes, Prefix, HasDb, ServedIndexed, WorkerDb

LEMMA InvStep ==
    ASSUME SchemaAssumption, SchemaInv, [SchemaNext]_schemaVars
    PROVE  SchemaInv'
<1>1. CASE UNCHANGED schemaVars
  BY <1>1 DEF schemaVars, procVars, SchemaInv, ProcTypes, Prefix, HasDb, ServedIndexed, WorkerDb,
              Have, Indexed
<1>2. ASSUME NEW c \in Callers, Use(c)
      PROVE  SchemaInv'
  BY <1>2, GetDbKeeps, ConnectKeeps, EnsureKeeps, EnsureDoneKeeps DEF Use
<1>3. CASE (\E j \in Jobs : EndJob(j)) \/ (\E p \in Processes : Restart(p))
  BY <1>3, RestKeeps
<1>4. CASE Migrate
  BY <1>4, MigrateKeeps
<1> QED
  BY <1>1, <1>2, <1>3, <1>4 DEF SchemaNext

LEMMA InvHolds == SchemaSpec => []SchemaInv
<1>1. SchemaInit => SchemaInv
  BY SchemaAssumption, InvInit
<1>2. SchemaInv /\ [SchemaNext]_schemaVars => SchemaInv'
  BY SchemaAssumption, InvStep
<1> QED
  BY <1>1, <1>2, PTL DEF SchemaSpec

\* An API process that listens has every index of ensureIndexes that no rollback
\* has dropped, whatever the lists are and whoever else creates indexes meanwhile
\* (server.ts:115-130).
THEOREM ApiIsIndexed == SchemaSpec => []ServedIndexed
<1>1. SchemaInv => ServedIndexed
  BY DEF SchemaInv
<1> QED
  BY <1>1, InvHolds, PTL

\* A job without its indexes runs beside one that still ensures them, or after
\* ensureIndexes has failed in the worker process; nothing else explains it
\* (mongo.ts:8-20).
THEOREM OnlyEnsuringOrFailure == SchemaSpec => []UnindexedHasCause
<1>1. SchemaAssumption /\ SchemaInv => UnindexedHasCause
  BY DEF SchemaAssumption, SchemaInv, HasDb, WorkerDb, UnindexedHasCause
<1> QED
  BY <1>1, SchemaAssumption, InvHolds, PTL
-----------------------------------------------------------------------------
(* The catalog and the scripts *)

\* What migrate-mongo is at fits the changelog: a script that goes up is not in it
\* yet, one that goes down is.  No two indexes of the catalog conflict; and what
\* the first migration has created it has, for each error ends it.
MigTypes ==
    /\ applied \in 0..Len(Up)
    /\ mig \in {"idle", "failed", "up", "down", "dropping"} /\ step \in Nat \ {0}
    /\ mig = "up" => applied < Len(Up)
    /\ mig \in {"down", "dropping"} => applied > 0
    /\ left # {} => mig = "dropping"
CatalogInv ==
    /\ catalog \cap dropped = {}
    /\ \A i, j \in catalog : ~Conflict(i, j)
FirstInv ==
    /\ mig = "up" /\ applied = 0 =>
         \A k \in 1..step - 1 : k <= Len(Up[1]) => Up[1][k].index \in Have
    /\ applied > 0 => \A k \in 1..Len(Up[1]) : Up[1][k].index \in Have

MigrationInv == MigTypes /\ CatalogInv /\ FirstInv

LEMMA CreatedCatalog ==
    ASSUME CatalogInv, NEW i, Created(i)
    PROVE  CatalogInv'
<1>1. \A j \in catalog : ~Conflict(i, j) /\ ~Conflict(j, i)
  BY DEF Created, Clash, Conflict
<1>2. catalog' = catalog \cup {i} /\ dropped' = dropped \ {i} /\ ~Conflict(i, i)
  BY DEF Created, Conflict
<1> QED
  BY <1>1, <1>2 DEF CatalogInv

LEMMA CreateFailsCatalog ==
    ASSUME CatalogInv, NEW i, CreateFails(i)
    PROVE  CatalogInv'
<1>1. CASE Created(i)
  BY <1>1, CreatedCatalog
<1>2. CASE UNCHANGED <<catalog, dropped>>
  BY <1>2 DEF CatalogInv
<1> QED
  BY <1>1, <1>2 DEF CreateFails

LEMMA RemovedCatalog ==
    ASSUME CatalogInv, NEW S, Removed(S)
    PROVE  CatalogInv'
BY DEF CatalogInv, Removed

\* Whatever touches the catalog does so by one of the three (createIndex, dropIndex).
LEMMA CatalogStep ==
    ASSUME CatalogInv, [SchemaNext]_schemaVars
    PROVE  CatalogInv' /\ Have \subseteq Have'
<1>1. CASE UNCHANGED <<catalog, dropped>>
  BY <1>1 DEF CatalogInv, Have
<1>2. ASSUME NEW i, Created(i) \/ CreateFails(i)
      PROVE  CatalogInv' /\ Have \subseteq Have'
  BY <1>2, CreatedCatalog, CreateFailsCatalog, CreatedHas, CreateFailsHas
<1>3. ASSUME NEW S, Removed(S)
      PROVE  CatalogInv' /\ Have \subseteq Have'
  BY <1>3, RemovedCatalog, RemovedHas
<1>4. ASSUME NEW c \in Callers, Use(c)
      PROVE  CatalogInv' /\ Have \subseteq Have'
  BY <1>1, <1>2, <1>4 DEF Use, GetDb, Connect, Ensure, EnsureDone
<1>5. CASE (\E j \in Jobs : EndJob(j)) \/ (\E p \in Processes : Restart(p))
  BY <1>1, <1>5 DEF EndJob, Restart
<1>6. CASE Migrate
  <2>1. CASE CreateStep \/ DropStep
    BY <1>1, <1>2, <1>3, <2>1 DEF CreateStep, DropStep
  <2>2. CASE DropListed
    BY <1>1, <1>3, <2>2 DEF DropListed
  <2>3. CASE MigrateUp \/ MigrateDown \/ ListStep \/ Record \/ MigrateDies
    BY <1>1, <2>3 DEF MigrateUp, MigrateDown, ListStep, Record, MigrateDies
  <2> QED
    BY <1>6, <2>1, <2>2, <2>3 DEF Migrate
<1> QED
  BY <1>1, <1>4, <1>5, <1>6 DEF SchemaNext, schemaVars

\* No caller touches the migrations.
LEMMA CallersLeaveMigrations ==
    ASSUME [SchemaNext]_schemaVars, ~Migrate
    PROVE  UNCHANGED migVars
BY DEF SchemaNext, schemaVars, Use, GetDb, Connect, Ensure, EnsureDone, EndJob, Restart

\* The step a script is at: what it does, and how far it goes when it fails.
LEMMA StepOfScript ==
    ASSUME SchemaAssumption, MigTypes, NEW what, At(what)
    PROVE  /\ step + 1 \in Nat \ {0} /\ step + 1 + Script[step].skip \in Nat \ {0}
           /\ what = "dropAll" => mig = "down"
<1>1. mig \in {"up", "down"} /\ step \in 1..Len(Script) /\ Script[step].do = what
  <2>1. CASE mig = "up"
    <3>1. Script = Up[applied + 1] /\ applied + 1 \in 1..Len(Up)
      BY <2>1 DEF SchemaAssumption, MigTypes, Script
    <3>2. Len(Script) \in Nat
      BY <3>1 DEF SchemaAssumption, IsScript
    <3> QED
      BY <2>1, <3>2 DEF MigTypes, At
  <2>2. CASE mig = "down"
    <3>1. Script = Down[applied] /\ applied \in 1..Len(Up)
      BY <2>2 DEF SchemaAssumption, MigTypes, Script
    <3>2. Len(Script) \in Nat
      BY <3>1 DEF SchemaAssumption, IsScript
    <3> QED
      BY <2>2, <3>2 DEF MigTypes, At
  <2> QED
    BY <2>1, <2>2 DEF At
<1>2. CASE mig = "up"
  <2>1. Script = Up[applied + 1] /\ applied + 1 \in 1..Len(Up)
    BY <1>2 DEF SchemaAssumption, MigTypes, Script
  <2>2. IsScript(Script, {"create", "drop"})
    BY <2>1 DEF SchemaAssumption
  <2>3. Script[step].skip \in Nat /\ what # "dropAll"
    BY <1>1, <2>2 DEF IsScript
  <2> QED
    BY <2>3 DEF MigTypes
<1>3. CASE mig = "down"
  <2>1. Script = Down[applied] /\ applied \in 1..Len(Up)
    BY <1>3 DEF SchemaAssumption, MigTypes, Script
  <2>2. IsScript(Script, {"create", "drop", "dropAll"})
    BY <2>1 DEF SchemaAssumption
  <2>3. Script[step].skip \in Nat
    BY <1>1, <2>2 DEF IsScript
  <2> QED
    BY <1>3, <2>3 DEF MigTypes
<1> QED
  BY <1>1, <1>2, <1>3

LEMMA MigTypesStep ==
    ASSUME SchemaAssumption, MigTypes, Migrate
    PROVE  MigTypes'
<1>1. CASE MigrateUp \/ MigrateDown \/ MigrateDies
  BY <1>1 DEF MigTypes, MigrateUp, MigrateDown, MigrateDies
<1>2. CASE CreateStep \/ DropStep
  <2>1. step + 1 \in Nat \ {0} /\ step + 1 + Script[step].skip \in Nat \ {0}
    BY <1>2, StepOfScript DEF CreateStep, DropStep
  <2>2. mig' \in {mig, "failed"} /\ step' \in Nat \ {0} /\ mig \in {"up", "down"}
    BY <1>2, <2>1 DEF CreateStep, DropStep, At, NextStep, StepFails
  <2> QED
    BY <1>2, <2>2 DEF MigTypes, CreateStep, DropStep
<1>3. CASE ListStep
  <2>1. mig = "down" /\ step + 1 + Script[step].skip \in Nat \ {0}
    BY <1>3, StepOfScript DEF ListStep
  <2> QED
    BY <1>3, <2>1 DEF MigTypes, ListStep, StepFails
<1>4. CASE DropListed
  <2>1. /\ applied' = applied /\ mig = "dropping"
        /\ \/ mig' = mig /\ step' = step
           \/ left' = {} /\ mig' = "down" /\ step' = step + 1
    BY <1>4 DEF DropListed
  <2> QED
    BY <2>1 DEF MigTypes
<1>5. CASE Record
  BY <1>5 DEF SchemaAssumption, MigTypes, Record
<1> QED
  BY <1>1, <1>2, <1>3, <1>4, <1>5 DEF Migrate

LEMMA FirstStep ==
    ASSUME SchemaAssumption, MigTypes, FirstInv, Have \subseteq Have', Migrate
    PROVE  FirstInv'
<1>1. CASE MigrateUp \/ MigrateDown \/ MigrateDies \/ DropListed
  BY <1>1 DEF MigTypes, FirstInv, MigrateUp, MigrateDown, MigrateDies, DropListed
<1>2. ASSUME mig = "up", applied = 0, At("create") \/ At("drop") \/ At("dropAll")
      PROVE  /\ At("create") /\ step \in 1..Len(Up[1]) /\ Script = Up[1]
             /\ Up[1][step].skip = Throws
  BY <1>2, ListsConflict DEF SchemaAssumption, MigTypes, FirstInv, At, Script
<1>3. CASE CreateStep
  <2>1. CASE mig = "up" /\ applied = 0
    <3>1. step \in 1..Len(Up[1]) /\ Script = Up[1] /\ Up[1][step].skip = Throws
      BY <1>2, <1>3, <2>1 DEF CreateStep
    <3>2. CASE Created(Up[1][step].index) /\ NextStep
      <4>1. Up[1][step].index \in Have' /\ step' = step + 1 /\ applied' = 0 /\ mig' = "up"
        BY <1>3, <2>1, <3>2, CreatedHas DEF NextStep, CreateStep
      <4> QED
        BY <2>1, <3>1, <4>1 DEF FirstInv
    <3>3. CASE StepFails
      BY <1>3, <2>1, <3>1, <3>3 DEF FirstInv, StepFails, CreateStep
    <3> QED
      BY <1>3, <3>1, <3>2, <3>3 DEF CreateStep
  <2>2. CASE ~(mig = "up" /\ applied = 0)
    BY <1>3, <2>2 DEF FirstInv, CreateStep, NextStep, StepFails
  <2> QED
    BY <2>1, <2>2
<1>4. CASE DropStep \/ ListStep
  <2>1. ~(mig = "up" /\ applied = 0)
    BY <1>2, <1>4 DEF DropStep, ListStep, At
  <2> QED
    BY <1>4, <2>1 DEF FirstInv, DropStep, ListStep, NextStep, StepFails
<1>5. CASE Record
  <2>1. CASE mig = "up" /\ applied = 0
    <3>1. step > Len(Up[1]) /\ applied' = 1
      BY <1>5, <2>1 DEF Record, Script
    <3>2. \A k \in 1..Len(Up[1]) : Up[1][k].index \in Have
      BY <2>1, <3>1, ListsConflict DEF SchemaAssumption, MigTypes, FirstInv
    <3> QED
      BY <3>1, <3>2 DEF FirstInv
  <2>2. CASE applied > 0
    BY <1>5, <2>2 DEF MigTypes, FirstInv, Record
  <2> QED
    BY <1>5, <2>1, <2>2 DEF MigTypes, Record
<1> QED
  BY <1>1, <1>3, <1>4, <1>5 DEF Migrate

LEMMA MigrationInvHolds == SchemaSpec => []MigrationInv
<1>1. SchemaInit => MigrationInv
  BY SchemaAssumption DEF SchemaAssumption, SchemaInit, MigrationInv, MigTypes, CatalogInv, FirstInv
<1>2. ASSUME MigrationInv, [SchemaNext]_schemaVars
      PROVE  MigrationInv'
  <2>1. CatalogInv' /\ Have \subseteq Have'
    BY <1>2, CatalogStep DEF MigrationInv
  <2>2. CASE Migrate
    BY <1>2, <2>1, <2>2, SchemaAssumption, MigTypesStep, FirstStep DEF MigrationInv
  <2>3. CASE ~Migrate
    BY <1>2, <2>1, <2>3, CallersLeaveMigrations DEF MigrationInv, MigTypes, FirstInv, migVars
  <2> QED
    BY <2>2, <2>3
<1> QED
  BY <1>1, <1>2, PTL DEF SchemaSpec

\* Every variable holds a value of its type: the changelog never runs past the
\* scripts, and an index is not there and dropped at once.
THEOREM SchemaTypeCorrect == SchemaSpec => []SchemaTypeOK
<1>1. SchemaInv /\ MigrationInv => SchemaTypeOK
  BY DEF SchemaInv, ProcTypes, MigrationInv, MigTypes, CatalogInv, SchemaTypeOK
<1> QED
  BY <1>1, InvHolds, MigrationInvHolds, PTL

\* The API and the migrations exclude each other, for any lists that conflict as
\* those of indexes.ts and of the first migration do.
THEOREM ServerExcludesMigrations == SchemaSpec => []ServerOrMigrations
<1>1. ASSUME SchemaInv, MigrationInv, NEW a \in Apis, at[a] = "using", applied # 0, dropped = {}
      PROVE  FALSE
  <2>1. Len(Up) > 0 /\ applied > 0
    BY <1>1, SchemaAssumption DEF SchemaAssumption, MigrationInv, MigTypes
  <2>2. PICK k \in 1..Len(Up[1]), n \in 1..Len(Ensured) : Conflict(Up[1][k].index, Ensured[n])
    BY <2>1, ListsConflict
  <2>3. Up[1][k].index \in catalog
    BY <1>1, <2>1 DEF MigrationInv, FirstInv, Have
  <2>4. Ensured[n] \in catalog
    BY <1>1 DEF SchemaInv, ServedIndexed, Indexed
  <2> QED
    BY <1>1, <2>2, <2>3, <2>4 DEF MigrationInv, CatalogInv
<1>2. SchemaInv /\ MigrationInv => ServerOrMigrations
  BY <1>1 DEF ServerOrMigrations
<1> QED
  BY <1>2, InvHolds, MigrationInvHolds, PTL
===============================================================================
