------------------------------ MODULE EventLedger ------------------------------
(***************************************************************************)
(* What the webhook ingress promises to n8n, without saying how.           *)
(*                                                                         *)
(* A request takes the claim on an event id before it posts the event, a   *)
(* claim excludes every other one of the same id for Window units of       *)
(* time, and the holder of a claim makes n8n take the event at most        *)
(* MaxPosts times.  Module Webhook implements this with a unique index, a  *)
(* TTL index and a retry loop.                                             *)
(***************************************************************************)
EXTENDS Naturals

CONSTANTS Requests,   \* deliveries made by webhook senders
          EventIds,   \* values of internal_event_id
          Window,     \* how long a claim excludes another one, in Nat
          MaxPosts    \* posts a claim entitles its holder to, in Nat

VARIABLES now,        \* the clock
          claims,     \* every claim taken so far: who, on what, and when
          taken       \* how often n8n took the event of each request

ledgerVars == <<now, claims, taken>>

LedgerInit == now = 0 /\ claims = {} /\ taken = [r \in Requests |-> 0]

\* No claim on e is younger than Window.
Unclaimed(e) == \A c \in claims : c.key = e => c.at + Window <= now

TakeClaim(r, e) ==
    /\ Unclaimed(e)
    /\ \A c \in claims : c.req # r
    /\ claims' = claims \cup {[req |-> r, key |-> e, at |-> now]}
    /\ UNCHANGED <<now, taken>>

DeliverOnce(r) ==
    /\ \E c \in claims : c.req = r
    /\ taken[r] < MaxPosts
    /\ taken' = [taken EXCEPT ![r] = @ + 1]
    /\ UNCHANGED <<now, claims>>

Advance == now' = now + 1 /\ UNCHANGED <<claims, taken>>

LedgerNext ==
    \/ Advance
    \/ \E r \in Requests : DeliverOnce(r) \/ \E e \in EventIds : TakeClaim(r, e)

LedgerSpec == LedgerInit /\ [][LedgerNext]_ledgerVars
================================================================================
