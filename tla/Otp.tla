---------------------------------- MODULE Otp ----------------------------------
(***************************************************************************)
(* One-time passwords: services/otp.ts behind POST /otp/generate and       *)
(* /otp/verify, and the TTL index on the otps collection.                  *)
(*                                                                         *)
(* A verifier is a connection that verifies again and again; between two   *)
(* of its awaits (the read, argon2, the update, the second read) any other *)
(* verifier may run.  One document is enough: documents do not interact.   *)
(***************************************************************************)
EXTENDS Integers, FiniteSets

CONSTANTS Verifiers,  \* verifications in flight at once
          None,       \* no answer, no document
          MaxTries,   \* the 3 of verifyOtp
          Ttl,        \* ttlSeconds
          MaxNow      \* bound of the clock, for model checking

ASSUME OtpAssumption ==
    /\ IsFiniteSet(Verifiers)
    /\ MaxTries \in Nat \ {0}
    /\ Ttl \in Nat \ {0}
    /\ MaxNow \in Nat

VARIABLES
    now,       \* the clock
    present,   \* the document is in the otps collection
    born,      \* it was inserted at some time
    attempts,  \* its attempts field
    exp,       \* its expires_at field
    at,        \* where each verifier waits
    right,     \* the code the verifier was given is the right one
    answer,    \* its last answer: [valid, remaining]
    wrong,     \* history: answers valid: false given after comparing a code
    accepted,  \* history: answers valid: true
    opened     \* history: attempts in the document when each verifier read it

otpVars == <<now, present, born, attempts, exp, at, right, answer, wrong, accepted, opened>>

Answers == [valid : BOOLEAN, remaining : 0 .. MaxTries]
Refused == [valid |-> FALSE, remaining |-> 0]

OtpInit ==
    /\ now = 0 /\ present = FALSE /\ born = FALSE /\ attempts = 0 /\ exp = 0
    /\ at = [v \in Verifiers |-> "idle"]
    /\ right = [v \in Verifiers |-> FALSE]
    /\ answer = [v \in Verifiers |-> None]
    /\ wrong = 0 /\ accepted = 0
    /\ opened = [v \in Verifiers |-> 0]

Goto(v, where) == at' = [at EXCEPT ![v] = where]
Reply(v, a)    == answer' = [answer EXCEPT ![v] = a] /\ Goto(v, "idle")

\* generateOtp: the insert.
Generate ==
    /\ ~born
    /\ born' = TRUE /\ present' = TRUE /\ attempts' = 0 /\ exp' = now + Ttl
    /\ UNCHANGED <<now, at, right, answer, wrong, accepted, opened>>

\* POST /otp/verify arrives, with the right code or another one.
Ask(v) ==
    /\ at[v] = "idle" /\ born
    /\ \E b \in BOOLEAN : right' = [right EXCEPT ![v] = b]
    /\ answer' = [answer EXCEPT ![v] = None]
    /\ Goto(v, "find")
    /\ UNCHANGED <<now, present, born, attempts, exp, wrong, accepted, opened>>

\* findOne, the three refusals, then the call of argon2.verify.
UsableOneMore == present /\ exp >= now /\ attempts <= MaxTries
Usable == present /\ exp >= now /\ attempts < MaxTries

Find(v) ==
    /\ at[v] = "find"
    /\ IF Usable
       THEN /\ Goto(v, "compare")
            /\ opened' = [opened EXCEPT ![v] = attempts]
            /\ UNCHANGED answer
       ELSE Reply(v, Refused) /\ UNCHANGED opened
    /\ UNCHANGED <<now, present, born, attempts, exp, right, wrong, accepted>>

\* argon2.verify answers.
Compare(v) ==
    /\ at[v] = "compare"
    /\ Goto(v, IF right[v] THEN "delete" ELSE "count")
    /\ UNCHANGED <<now, present, born, attempts, exp, right, answer, wrong, accepted, opened>>

\* deleteOne, then valid: true, whether or not there was a document left.
AcceptKeeps(v) ==
    /\ at[v] = "delete"
    /\ Reply(v, [valid |-> TRUE, remaining |-> 0])
    /\ accepted' = accepted + 1
    /\ UNCHANGED <<now, present, born, attempts, exp, right, wrong, opened>>
Accept(v) ==
    /\ at[v] = "delete"
    /\ present' = FALSE
    /\ Reply(v, [valid |-> TRUE, remaining |-> 0])
    /\ accepted' = accepted + 1
    /\ UNCHANGED <<now, born, attempts, exp, right, wrong, opened>>

\* updateOne with $inc, without effect if the document is gone.
CountReadModifyWrite(v) ==
    /\ at[v] = "count"
    /\ attempts' = IF present THEN opened[v] + 1 ELSE attempts
    /\ Goto(v, "reread")
    /\ UNCHANGED <<now, present, born, exp, right, answer, wrong, accepted, opened>>
Count(v) ==
    /\ at[v] = "count"
    /\ attempts' = IF present THEN attempts + 1 ELSE attempts
    /\ Goto(v, "reread")
    /\ UNCHANGED <<now, present, born, exp, right, answer, wrong, accepted, opened>>

\* The second findOne: what is left, or MaxTries if the document is gone.
LeftUnclamped == IF present THEN MaxTries - attempts ELSE MaxTries
Left == IF ~present THEN MaxTries
        ELSE IF attempts >= MaxTries THEN 0 ELSE MaxTries - attempts

RefuseStale(v) ==
    /\ at[v] = "reread"
    /\ Reply(v, [valid |-> FALSE, remaining |-> MaxTries - opened[v] - 1])
    /\ wrong' = wrong + 1
    /\ UNCHANGED <<now, present, born, attempts, exp, right, accepted, opened>>
Refuse(v) ==
    /\ at[v] = "reread"
    /\ Reply(v, [valid |-> FALSE, remaining |-> Left])
    /\ wrong' = wrong + 1
    /\ UNCHANGED <<now, present, born, attempts, exp, right, accepted, opened>>

\* A call of the handler fails, or its process dies: the handlers have no try,
\* and a rejected promise nobody awaits ends the process with every verification
\* in it.  The delete may have been applied.
Break(v) ==
    /\ at[v] # "idle"
    /\ Goto(v, "idle")
    /\ UNCHANGED present \/ (at[v] = "delete" /\ present' = FALSE)
    /\ UNCHANGED <<now, born, attempts, exp, right, answer, wrong, accepted, opened>>

Tick == now < MaxNow /\ now' = now + 1
        /\ UNCHANGED <<present, born, attempts, exp, at, right, answer, wrong, accepted, opened>>

\* The TTL monitor or the daily cleanup.
TtlDelete ==
    /\ present /\ exp <= now
    /\ present' = FALSE
    /\ UNCHANGED <<now, born, attempts, exp, at, right, answer, wrong, accepted, opened>>

Verify(v) == Find(v) \/ Compare(v) \/ Accept(v) \/ Count(v) \/ Refuse(v)

OtpNext ==
    \/ Generate \/ Tick \/ TtlDelete
    \/ \E v \in Verifiers : Ask(v) \/ Verify(v) \/ Break(v)

OtpSpec == OtpInit /\ [][OtpNext]_otpVars
--------------------------------------------------------------------------------
(* Properties *)

InFlight == {"compare", "delete", "count", "reread"}

\* Every variable holds a value of its type.
OtpTypeOK ==
    /\ now \in 0 .. MaxNow /\ exp \in Nat /\ attempts \in Nat
    /\ present \in BOOLEAN /\ born \in BOOLEAN
    /\ at \in [Verifiers -> InFlight \cup {"idle", "find"}]
    /\ right \in [Verifiers -> BOOLEAN]
    /\ answer \in [Verifiers -> Answers \cup {None}]
    /\ wrong \in Nat /\ accepted \in Nat
    /\ opened \in [Verifiers -> Nat]

\* Concurrent verifications get past the limit of attempts by at most the
\* number that was in flight when the last attempt allowed was counted.
WrongBounded == wrong <= MaxTries + Cardinality(Verifiers) - 1

\* No wrong code goes uncounted while the password can still be used, however
\* the updates of concurrent verifications interleave.
WrongIsCounted ==
    present => wrong + Cardinality({v \in Verifiers : at[v] = "reread"}) <= attempts

\* A refused verification is not promised more tries than the refusals given so
\* far leave, unless the password is gone: the count is read after the update.
RemainingHonest ==
    [][\A v \in Verifiers :
         present /\ answer[v] = None /\ answer'[v] # None =>
            answer'[v].remaining = 0 \/ answer'[v].remaining + wrong' <= MaxTries]_otpVars

\* A password is accepted only by verifications that had read it before it was
\* first accepted: never more than are in flight at once.
AcceptedTogether == accepted <= Cardinality(Verifiers)
================================================================================
