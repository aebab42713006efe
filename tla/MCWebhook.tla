------------------------------ MODULE MCWebhook -------------------------------
(* Instances of Webhook for TLC. *)
EXTENDS Webhook, TLC

CONSTANTS r1, r2,       \* requests
          k1,           \* an idempotency key
          b1, b1x, b2, bad,  \* raw bodies: b1 and b1x normalise to one payload
          p1, p2,       \* canonical payloads
          lower, upper  \* two texts of one signature

Symmetry == Permutations(Requests) \cup Permutations(Instances)

MCBodies == {b1, b1x, b2, bad}
MCCanon  == b1 :> p1 @@ b1x :> p1 @@ b2 :> p2 @@ bad :> None

Msg(t, b, k) == [ts |-> t, body |-> b, key |-> k, sig |-> lower]

\* Without header: two bodies of one payload, one of them under two texts of its
\* signature, another payload, an unsigned and an invalid delivery, a timestamp
\* from the future.
PlainMessages ==
    {Msg(1, b1, None), [Msg(1, b1, None) EXCEPT !.sig = upper],
     Msg(0, b1x, None), Msg(0, b2, None),
     Msg(1, bad, None), [Msg(0, b1, None) EXCEPT !.sig = None]}

\* One key on deliveries with different bodies and stamps.
KeyedMessages ==
    {Msg(0, b1, k1), Msg(1, b1, k1), Msg(2, b1, k1), Msg(0, bad, k1), Msg(0, b2, k1)}
================================================================================
