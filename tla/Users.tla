--------------------------------- MODULE Users ---------------------------------
(***************************************************************************)
(* User accounts: POST /user looks for a user with the same email or      *)
(* phone and then inserts; PATCH sets the fields it is given.  Between the *)
(* look and the insert another request may insert; what then holds is what *)
(* the unique indexes on email and phone hold.                             *)
(*                                                                         *)
(* A user is named by the request that creates it: user_id is a new uuid.  *)
(***************************************************************************)
EXTENDS Naturals

CONSTANTS Creators,  \* POST requests
          Editors,   \* PATCH requests
          Emails, Phones,
          Absent,    \* a field the request does not have
          Null,      \* null, which is also how the driver stores an absent field
          None,      \* no user, no request, no answer
          CallsFail  \* database calls may fail

ASSUME UsersAssumption ==
    /\ Emails \cap Phones = {}
    /\ {Absent, Null} \cap (Emails \cup Phones) = {}
    /\ Absent # Null
    /\ None \notin [email : Emails \cup {Absent, Null}, phone : Phones \cup {Absent, Null}]
    /\ CallsFail \in BOOLEAN

VARIABLES
    pc,      \* where each request waits
    want,    \* the email and phone it gives
    target,  \* the user a PATCH is for
    answer,  \* the answer to each request
    users,   \* collection users
    held     \* history: emails and phones a user has ever had

usersVars == <<pc, want, target, answer, users, held>>

Requests == Creators \cup Editors
Contacts == [email : Emails \cup {Absent, Null}, phone : Phones \cup {Absent, Null}]
Given(c) == {c.email, c.phone} \ {Absent, Null}

UsersInit ==
    /\ pc = [r \in Requests |-> "new"]
    /\ want = [r \in Requests |-> None]
    /\ target = [e \in Editors |-> None]
    /\ answer = [r \in Requests |-> None]
    /\ users = [r \in Creators |-> None]
    /\ held = {}
--------------------------------------------------------------------------------
Jump(r, where) == pc' = [pc EXCEPT ![r] = where]
Reply(r, a)    == answer' = [answer EXCEPT ![r] = a] /\ Jump(r, "answered")

\* The unique indexes: no other document has the email or the phone of c.  They
\* are sparse, but a null is a value.
FreshEmail(u, c) == \A v \in Creators \ {u} : users[v] # None => users[v].email # c.email
Fresh(u, c) ==
    \A v \in Creators \ {u} :
        users[v] # None => users[v].email # c.email /\ users[v].phone # c.phone

\* A write of c as user u is applied and the request goes on, is refused by an
\* index, or fails, applied or not.
Stores(u, c) == users' = [users EXCEPT ![u] = c] /\ held' = held \cup Given(c)
Write(r, u, c, Done) ==
    \/ Fresh(u, c) /\ Stores(u, c) /\ Done
    \/ ~Fresh(u, c) /\ UNCHANGED <<users, held>> /\ Reply(r, "error")
    \/ /\ CallsFail
       /\ (Fresh(u, c) /\ Stores(u, c)) \/ UNCHANGED <<users, held>>
       /\ Reply(r, "error")

\* createUserController, for a request with an email or a phone.
Create(r) ==
    /\ pc[r] = "new"
    /\ \E c \in Contacts : Given(c) # {} /\ want' = [want EXCEPT ![r] = c]
    /\ Jump(r, "existing")
    /\ UNCHANGED <<target, answer, users, held>>

\* The $or has a branch for each field the request gives.
Holder(c) == \E u \in Creators : users[u] # None /\ Given(users[u]) \cap Given(c) # {}

FindExisting(r) ==
    /\ pc[r] = "existing"
    /\ \/ CallsFail /\ Reply(r, "error")
       \/ Holder(want[r]) /\ Reply(r, "conflict")
       \/ ~Holder(want[r]) /\ Jump(r, "insert") /\ UNCHANGED answer
    /\ UNCHANGED <<want, target, users, held>>

\* The fields the request does not have are there, undefined.
NewUser(c) == [email |-> IF c.email = Absent THEN Null ELSE c.email,
               phone |-> IF c.phone = Absent THEN Null ELSE c.phone]

InsertUser(r) ==
    /\ pc[r] = "insert"
    /\ Write(r, r, NewUser(want[r]), Reply(r, "created"))
    /\ UNCHANGED <<want, target>>

\* updateUserController.
Update(e) ==
    /\ pc[e] = "new"
    /\ \E c \in Contacts : want' = [want EXCEPT ![e] = c]
    /\ \E u \in Creators : target' = [target EXCEPT ![e] = u]
    /\ Jump(e, "update")
    /\ UNCHANGED <<answer, users, held>>

\* $set of the fields given, null included.
Merged(u, c) ==
    [email |-> IF c.email = Absent THEN users[u].email ELSE c.email,
     phone |-> IF c.phone = Absent THEN users[u].phone ELSE c.phone]

UpdateUser(e) ==
    LET u == target[e] IN
    /\ pc[e] = "update"
    /\ \/ /\ users[u] = None /\ Reply(e, "not_found")
          /\ UNCHANGED <<users, held>>
       \/ /\ users[u] # None
          /\ Write(e, u, Merged(u, want[e]), Jump(e, "reread") /\ UNCHANGED answer)
    /\ UNCHANGED <<want, target>>

Reread(e) ==
    /\ pc[e] = "reread"
    /\ Reply(e, "updated") \/ (CallsFail /\ Reply(e, "error"))
    /\ UNCHANGED <<want, target, users, held>>

UsersNext ==
    \/ \E r \in Creators : Create(r) \/ FindExisting(r) \/ InsertUser(r)
    \/ \E e \in Editors : Update(e) \/ UpdateUser(e) \/ Reread(e)

UsersSpec == UsersInit /\ [][UsersNext]_usersVars
--------------------------------------------------------------------------------
(* Properties *)

\* Every variable holds a value of its type.
UsersTypeOK ==
    /\ pc \in [Requests -> {"new", "existing", "insert", "update", "reread", "answered"}]
    /\ want \in [Requests -> Contacts \cup {None}]
    /\ target \in [Editors -> Creators \cup {None}]
    /\ answer \in [Requests -> {None, "error", "conflict", "created", "not_found", "updated"}]
    /\ users \in [Creators -> [email : Emails \cup {Null}, phone : Phones \cup {Null}] \cup {None}]
    /\ held \subseteq Emails \cup Phones

\* No two users have an email or a phone in common, whatever creations and
\* changes interleave.
ContactsUnique ==
    \A u, v \in Creators :
        u # v /\ users[u] # None /\ users[v] # None =>
            Given(users[u]) \cap Given(users[v]) = {}
--------------------------------------------------------------------------------
(* What comments say of users and the code does not do *)

\* indexes.ts:98 "unique sparse for optional email/phone": where no call fails, a
\* creation fails only on account of an email or phone that is in use.
OptionalContacts ==
    \A r \in Creators : answer[r] = "error" => Given(want[r]) \cap held # {}
================================================================================
