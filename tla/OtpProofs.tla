------------------------------- MODULE OtpProofs -------------------------------
(***************************************************************************)
(* What verifyOtp keeps, for any number of verifiers, any limit of tries   *)
(* and any lifetime: the types, the count of refusals (WrongIsCounted,     *)
(* WrongBounded), the count of acceptances (AcceptedTogether) and what a   *)
(* refusal promises (RemainingHonest).                                     *)
(*                                                                         *)
(* Neither bound is inductive: a verification that has read the document   *)
(* will be counted later.  So OtpInv bounds the refusals given together    *)
(* with the verifications that may still become one, and the same for the  *)
(* acceptances; a verification enters that sum in Find, while the document *)
(* is present, and there WrongIsCounted, or the absence of any acceptance, *)
(* bounds the rest of the sum.                                             *)
(***************************************************************************)
EXTENDS Otp, FiniteSetTheorems, TLAPS

\* How many verifiers are at one of the places W.
In(W) == Cardinality({u \in Verifiers : at[u] \in W})

\* Where a verification waits whose refusal is counted but not given yet, where
\* one that may still be refused or accepted, and where one that may be accepted.
Refusing  == {"reread"}
Undecided == {"compare", "delete", "count"}
Accepting == {"compare", "delete"}

\* Before generateOtp there is nothing to verify.
UnbornInv ==
    ~born => /\ ~present /\ wrong = 0 /\ accepted = 0
             /\ \A v \in Verifiers : at[v] = "idle"

\* WrongIsCounted, and the bound of the refusals given and still possible.
WrongInv ==
    /\ present => wrong + In(Refusing) <= attempts
    /\ wrong + In(Refusing) + In(Undecided)
          <= MaxTries + Cardinality(Verifiers) - 1

\* The bound of the acceptances given and still possible.
AcceptInv ==
    /\ present => accepted = 0
    /\ accepted + In(Accepting) <= Cardinality(Verifiers)

OtpInv == OtpTypeOK /\ UnbornInv /\ WrongInv /\ AcceptInv
--------------------------------------------------------------------------------
(* Counting *)

\* A count of verifiers is a natural number, at most all of them.
LEMMA InIsNat ==
    ASSUME NEW CONSTANT W
    PROVE  /\ In(W) \in Nat /\ In(W) <= Cardinality(Verifiers)
           /\ In(W)' \in Nat /\ In(W)' <= Cardinality(Verifiers)
           /\ Cardinality(Verifiers) \in Nat
BY OtpAssumption, FS_Subset, FS_CardinalityType DEF In

\* A count that is not zero has somebody in it, and the other way round.
LEMMA InSome ==
    ASSUME NEW W, NEW v \in Verifiers, at[v] \in W
    PROVE  In(W) >= 1
<1> DEFINE S == {u \in Verifiers : at[u] \in W}
<1>1. IsFiniteSet(S) /\ S # {}
  BY OtpAssumption, FS_Subset
<1>2. Cardinality(S) # 0 /\ Cardinality(S) \in Nat
  BY <1>1, FS_EmptySet, FS_CardinalityType
<1> QED BY <1>2 DEF In

\* Nobody is at a place where nobody waits.
LEMMA InNone ==
    ASSUME NEW W, \A v \in Verifiers : at[v] \notin W
    PROVE  In(W) = 0
<1>1. {u \in Verifiers : at[u] \in W} = {}
  OBVIOUS
<1> QED BY <1>1, FS_EmptySet DEF In

\* One verifier going from one place to another changes a count by at most one.
LEMMA InAfterGoto ==
    ASSUME NEW CONSTANT W, NEW v \in Verifiers, NEW STATE w, Goto(v, w), OtpTypeOK
    PROVE  /\ w \in W /\ at[v] \notin W => In(W)' = In(W) + 1
           /\ w \notin W /\ at[v] \in W => In(W)' = In(W) - 1
           /\ (w \in W <=> at[v] \in W) => In(W)' = In(W)
           /\ w \notin W => In(W)' <= In(W)
<1> DEFINE S == {u \in Verifiers : at[u] \in W}
           T == {u \in Verifiers : at'[u] \in W}
<1>0. IsFiniteSet(S) /\ IsFiniteSet(T)
  BY OtpAssumption, FS_Subset
<1>1. /\ w \in W => T = S \cup {v}
      /\ w \notin W => T = S \ {v}
  BY DEF Goto, OtpTypeOK
<1>2. Cardinality(S) \in Nat /\ In(W) = Cardinality(S) /\ In(W)' = Cardinality(T)
  BY <1>0, FS_CardinalityType DEF In
<1>3. w \in W /\ at[v] \notin W => Cardinality(T) = Cardinality(S) + 1
  BY <1>0, <1>1, FS_AddElement
<1>4. w \notin W /\ at[v] \in W => Cardinality(T) = Cardinality(S) - 1
  BY <1>0, <1>1, FS_RemoveElement
<1>5. (w \in W <=> at[v] \in W) => T = S
  BY <1>1
<1> HIDE DEF S, T
<1> QED BY <1>2, <1>3, <1>4, <1>5

\* Which places are in which of the three sets.
LEMMA WhichPlaces ==
    /\ "reread" \in Refusing /\ "reread" \notin Undecided /\ "reread" \notin Accepting
    /\ "count" \notin Refusing /\ "count" \in Undecided /\ "count" \notin Accepting
    /\ "delete" \notin Refusing /\ "delete" \in Undecided /\ "delete" \in Accepting
    /\ "compare" \notin Refusing /\ "compare" \in Undecided /\ "compare" \in Accepting
    /\ "find" \notin Refusing /\ "find" \notin Undecided /\ "find" \notin Accepting
    /\ "idle" \notin Refusing /\ "idle" \notin Undecided /\ "idle" \notin Accepting
BY DEF Refusing, Undecided, Accepting

\* Nobody moves, nothing is counted anew.
LEMMA InStays ==
    ASSUME NEW CONSTANT W, UNCHANGED at
    PROVE  In(W)' = In(W)
BY DEF In
--------------------------------------------------------------------------------
(* The invariant *)

\* What holds at the start.
LEMMA OtpInitInv == ASSUME OtpInit PROVE OtpInv
<1>1. OtpTypeOK
  <2>1. at \in [Verifiers -> InFlight \cup {"idle", "find"}]
    BY DEF OtpInit
  <2>2. /\ right \in [Verifiers -> BOOLEAN] /\ opened \in [Verifiers -> Nat]
        /\ answer \in [Verifiers -> Answers \cup {None}]
    BY DEF OtpInit
  <2>3. now \in 0 .. MaxNow /\ exp \in Nat /\ attempts \in Nat /\ wrong \in Nat /\ accepted \in Nat
    BY OtpAssumption DEF OtpInit
  <2>4. present \in BOOLEAN /\ born \in BOOLEAN
    BY DEF OtpInit
  <2> QED BY <2>1, <2>2, <2>3, <2>4 DEF OtpTypeOK
<1>2. UnbornInv
  BY DEF OtpInit, UnbornInv
<1>3. In(Refusing) = 0 /\ In(Undecided) = 0 /\ In(Accepting) = 0
  BY InNone, WhichPlaces DEF OtpInit
<1>4. WrongInv /\ AcceptInv
  <2>1. Cardinality(Verifiers) \in Nat
    BY OtpAssumption, FS_CardinalityType
  <2> QED BY <1>3, <2>1, OtpAssumption DEF OtpInit, WrongInv, AcceptInv
<1> QED BY <1>1, <1>2, <1>4 DEF OtpInv

\* Every step keeps the types.
LEMMA OtpTypeStep ==
    ASSUME OtpTypeOK, [OtpNext]_otpVars
    PROVE  OtpTypeOK'
<1>1. (at \in [Verifiers -> InFlight \cup {"idle", "find"}])'
  <2>1. UNCHANGED at \/ \E v \in Verifiers, w \in InFlight \cup {"idle", "find"} : Goto(v, w)
    BY DEF OtpNext, otpVars, Generate, Tick, TtlDelete, Ask, Verify, Find, Compare, Accept,
           Count, Refuse, Break, Reply, InFlight
  <2> QED BY <2>1 DEF OtpTypeOK, Goto
<1>2. (answer \in [Verifiers -> Answers \cup {None}])'
  <2>1. /\ Left \in 0 .. MaxTries
        /\ Refused \in Answers /\ [valid |-> TRUE, remaining |-> 0] \in Answers
        /\ [valid |-> FALSE, remaining |-> Left] \in Answers
    BY OtpAssumption DEF Left, OtpTypeOK, Refused, Answers
  <2>2. \/ UNCHANGED answer
        \/ \E v \in Verifiers, a \in Answers \cup {None} : answer' = [answer EXCEPT ![v] = a]
    BY <2>1 DEF OtpNext, otpVars, Generate, Tick, TtlDelete, Ask, Verify, Find, Compare,
                Accept, Count, Refuse, Break, Reply
  <2> QED BY <2>2 DEF OtpTypeOK
<1>3. (present \in BOOLEAN /\ born \in BOOLEAN)'
  BY DEF OtpTypeOK, OtpNext, otpVars, Generate, Tick, TtlDelete, Ask, Verify, Find, Compare,
         Accept, Count, Refuse, Break
<1>4. (/\ now \in 0 .. MaxNow /\ exp \in Nat /\ attempts \in Nat
       /\ wrong \in Nat /\ accepted \in Nat)'
  BY OtpAssumption
     DEF OtpTypeOK, OtpNext, otpVars, Generate, Tick, TtlDelete, Ask, Verify, Find, Compare,
         Accept, Count, Refuse, Break
<1>5. (right \in [Verifiers -> BOOLEAN] /\ opened \in [Verifiers -> Nat])'
  BY DEF OtpTypeOK, OtpNext, otpVars, Generate, Tick, TtlDelete, Ask, Verify, Find, Compare,
         Accept, Count, Refuse, Break
<1> QED BY <1>1, <1>2, <1>3, <1>4, <1>5 DEF OtpTypeOK

\* A document is verified only after it was inserted.
LEMMA UnbornStep ==
    ASSUME OtpTypeOK, UnbornInv, [OtpNext]_otpVars
    PROVE  UnbornInv'
<1> USE DEF OtpTypeOK, UnbornInv
<1>1. CASE Generate \/ Tick \/ TtlDelete \/ UNCHANGED otpVars
  BY <1>1 DEF Generate, Tick, TtlDelete, otpVars
<1>2. ASSUME NEW v \in Verifiers, Ask(v) \/ Verify(v) \/ Break(v)
      PROVE  UnbornInv'
  BY <1>2 DEF Ask, Verify, Find, Compare, Accept, Count, Refuse, Break, Reply, Goto
<1> QED BY <1>1, <1>2 DEF OtpNext

\* Find lets a verifier in only below the limit, so that what was refused is
\* below it; from there on every move only turns a possible refusal into one.
LEMMA WrongStep ==
    ASSUME OtpTypeOK, UnbornInv, WrongInv, [OtpNext]_otpVars
    PROVE  WrongInv'
<1> USE DEF WrongInv
<1>0. /\ MaxTries \in Nat /\ attempts \in Nat /\ wrong \in Nat
  BY OtpAssumption DEF OtpTypeOK
<1>c. /\ In(Refusing) \in Nat /\ In(Undecided) \in Nat /\ In(Undecided) <= Cardinality(Verifiers)
      /\ In(Refusing)' \in Nat /\ In(Undecided)' \in Nat /\ Cardinality(Verifiers) \in Nat
  BY InIsNat
<1>1. CASE Generate \/ Tick \/ TtlDelete \/ UNCHANGED otpVars
  <2>1. In(Refusing)' = In(Refusing) /\ In(Undecided)' = In(Undecided)
    BY <1>1, InStays DEF Generate, Tick, TtlDelete, otpVars
  <2>2. CASE Generate
    <3>1. In(Refusing) = 0
      BY <2>2, InNone, WhichPlaces DEF Generate, UnbornInv
    <3> QED BY <1>0, <1>c, <2>1, <2>2, <3>1 DEF Generate, UnbornInv
  <2>3. CASE Tick \/ TtlDelete \/ UNCHANGED otpVars
    BY <1>0, <1>c, <2>1, <2>3 DEF Tick, TtlDelete, otpVars
  <2> QED BY <1>1, <2>2, <2>3
<1>2. ASSUME NEW v \in Verifiers, Ask(v)
      PROVE  WrongInv'
  <2>1. In(Refusing)' = In(Refusing) /\ In(Undecided)' = In(Undecided)
    BY <1>2, InAfterGoto, WhichPlaces DEF Ask
  <2> QED BY <1>0, <1>c, <1>2, <2>1 DEF Ask
<1>3. ASSUME NEW v \in Verifiers, Find(v)
      PROVE  WrongInv'
  <2>1. CASE Usable
    <3>1. In(Refusing)' = In(Refusing)
      BY <1>3, <2>1, InAfterGoto, WhichPlaces DEF Find
    <3>2. In(Undecided)' <= Cardinality(Verifiers)
      BY InIsNat
    <3>3. wrong + In(Refusing) <= MaxTries - 1
      BY <1>0, <1>c, <2>1 DEF Usable
    <3> QED BY <1>0, <1>c, <1>3, <2>1, <3>1, <3>2, <3>3 DEF Find
  <2>2. CASE ~Usable
    <3>0. at[v] = "find" /\ Goto(v, "idle")
      BY <1>3, <2>2 DEF Find, Reply
    <3>1. In(Refusing)' = In(Refusing) /\ In(Undecided)' = In(Undecided)
      BY <3>0, InAfterGoto, WhichPlaces
    <3> QED BY <1>0, <1>c, <1>3, <2>2, <3>1 DEF Find
  <2> QED BY <2>1, <2>2
<1>4. ASSUME NEW v \in Verifiers, Compare(v)
      PROVE  WrongInv'
  <2>1. In(Refusing)' = In(Refusing) /\ In(Undecided)' = In(Undecided)
    BY <1>4, InAfterGoto, WhichPlaces DEF Compare
  <2> QED BY <1>0, <1>c, <1>4, <2>1 DEF Compare
<1>5. ASSUME NEW v \in Verifiers, Accept(v)
      PROVE  WrongInv'
  <2>0. at[v] = "delete" /\ Goto(v, "idle")
    BY <1>5 DEF Accept, Reply
  <2>1. In(Refusing)' = In(Refusing) /\ In(Undecided)' = In(Undecided) - 1
    BY <2>0, InAfterGoto, WhichPlaces
  <2> QED BY <1>0, <1>c, <1>5, <2>1 DEF Accept
<1>6. ASSUME NEW v \in Verifiers, Count(v)
      PROVE  WrongInv'
  <2>1. In(Refusing)' = In(Refusing) + 1 /\ In(Undecided)' = In(Undecided) - 1
    BY <1>6, InAfterGoto, WhichPlaces DEF Count
  <2> QED BY <1>0, <1>c, <1>6, <2>1 DEF Count
<1>7. ASSUME NEW v \in Verifiers, Refuse(v)
      PROVE  WrongInv'
  <2>0. at[v] = "reread" /\ Goto(v, "idle")
    BY <1>7 DEF Refuse, Reply
  <2>1. In(Refusing)' = In(Refusing) - 1 /\ In(Undecided)' = In(Undecided)
    BY <2>0, InAfterGoto, WhichPlaces
  <2> QED BY <1>0, <1>c, <1>7, <2>1 DEF Refuse
<1>8. ASSUME NEW v \in Verifiers, Break(v)
      PROVE  WrongInv'
  <2>0. Goto(v, "idle")
    BY <1>8 DEF Break
  <2>1. In(Refusing)' <= In(Refusing)
    BY <1>c, <2>0, InAfterGoto, WhichPlaces
  <2>2. In(Undecided)' <= In(Undecided)
    BY <1>c, <2>0, InAfterGoto, WhichPlaces
  <2> QED BY <1>0, <1>c, <1>8, <2>1, <2>2 DEF Break
<1> QED BY <1>1, <1>2, <1>3, <1>4, <1>5, <1>6, <1>7, <1>8 DEF OtpNext, Verify

\* The first acceptance takes the document away: whoever is accepted later had
\* read it before.
LEMMA AcceptStep ==
    ASSUME OtpTypeOK, UnbornInv, AcceptInv, [OtpNext]_otpVars
    PROVE  AcceptInv'
<1> USE DEF AcceptInv
<1>0. accepted \in Nat
  BY DEF OtpTypeOK
<1>c. /\ In(Accepting) \in Nat /\ In(Accepting)' \in Nat /\ Cardinality(Verifiers) \in Nat
      /\ In(Accepting)' <= Cardinality(Verifiers)
  BY InIsNat
<1>1. CASE Generate \/ Tick \/ TtlDelete \/ UNCHANGED otpVars
  <2>1. In(Accepting)' = In(Accepting)
    BY <1>1, InStays DEF Generate, Tick, TtlDelete, otpVars
  <2> QED BY <1>0, <1>c, <1>1, <2>1 DEF Generate, Tick, TtlDelete, otpVars, UnbornInv
<1>2. ASSUME NEW v \in Verifiers, Ask(v) \/ Count(v) \/ Refuse(v)
      PROVE  AcceptInv'
  <2>0. \E w \in {"find", "reread", "idle"} : Goto(v, w) /\ at[v] \in {"idle", "count", "reread"}
    BY <1>2 DEF Ask, Count, Refuse, Reply
  <2>1. In(Accepting)' = In(Accepting)
    BY <2>0, InAfterGoto, WhichPlaces
  <2> QED BY <1>0, <1>c, <1>2, <2>1 DEF Ask, Count, Refuse
<1>3. ASSUME NEW v \in Verifiers, Find(v)
      PROVE  AcceptInv'
  <2>1. CASE Usable
    BY <1>0, <1>c, <1>3, <2>1 DEF Find, Usable
  <2>2. CASE ~Usable
    <3>0. at[v] = "find" /\ Goto(v, "idle")
      BY <1>3, <2>2 DEF Find, Reply
    <3>1. In(Accepting)' = In(Accepting)
      BY <3>0, InAfterGoto, WhichPlaces
    <3> QED BY <1>0, <1>c, <1>3, <2>2, <3>1 DEF Find
  <2> QED BY <2>1, <2>2
<1>4. ASSUME NEW v \in Verifiers, Compare(v) \/ Break(v)
      PROVE  AcceptInv'
  <2>1. In(Accepting)' <= In(Accepting)
    BY <1>0, <1>c, <1>4, InAfterGoto, WhichPlaces DEF Compare, Break
  <2> QED BY <1>0, <1>c, <1>4, <2>1 DEF Compare, Break
<1>5. ASSUME NEW v \in Verifiers, Accept(v)
      PROVE  AcceptInv'
  <2>0. at[v] = "delete" /\ Goto(v, "idle")
    BY <1>5 DEF Accept, Reply
  <2>1. In(Accepting)' = In(Accepting) - 1
    BY <2>0, InAfterGoto, WhichPlaces
  <2> QED BY <1>0, <1>c, <1>5, <2>1 DEF Accept
<1> QED BY <1>1, <1>2, <1>3, <1>4, <1>5 DEF OtpNext, Verify

\* OtpInv is an invariant.
LEMMA OtpInvariant == OtpSpec => []OtpInv
<1>1. ASSUME OtpInit PROVE OtpInv
  BY <1>1, OtpInitInv
<1>2. ASSUME OtpInv, [OtpNext]_otpVars PROVE OtpInv'
  BY <1>2, OtpTypeStep, UnbornStep, WrongStep, AcceptStep DEF OtpInv
<1> QED BY <1>1, <1>2, PTL DEF OtpSpec
--------------------------------------------------------------------------------
(* Theorems *)

\* Every variable of the verifications holds a value of its type; in
\* particular no answer ever promises less than 0 or more than MaxTries.
THEOREM OtpTypeCorrect == OtpSpec => []OtpTypeOK
BY OtpInvariant, PTL DEF OtpInv

\* Of any number of concurrent verifications with a wrong code at most
\* MaxTries + |Verifiers| - 1 are answered after a comparison (otp.ts:52).
THEOREM WrongCodesBounded == OtpSpec => []WrongBounded
<1>1. ASSUME OtpInv PROVE WrongBounded
  <2>1. /\ In(Refusing) \in Nat /\ In(Undecided) \in Nat
        /\ Cardinality(Verifiers) \in Nat
    BY InIsNat
  <2> QED BY <1>1, <2>1, OtpAssumption DEF OtpInv, OtpTypeOK, WrongInv, WrongBounded
<1> QED BY <1>1, OtpInvariant, PTL

\* As long as the document is there, every refusal given or about to be given is
\* in its attempts: the $inc of concurrent verifications lose nothing.
THEOREM EveryWrongCodeCounted == OtpSpec => []WrongIsCounted
<1>1. ASSUME OtpInv PROVE WrongIsCounted
  <2>1. {v \in Verifiers : at[v] \in Refusing} = {v \in Verifiers : at[v] = "reread"}
    BY DEF Refusing
  <2> QED BY <1>1, <2>1 DEF OtpInv, WrongInv, In, WrongIsCounted
<1> QED BY <1>1, OtpInvariant, PTL

\* One password is accepted at most once by each verifier, whatever the
\* interleaving of reads, comparisons and deletes.
THEOREM AcceptancesBounded == OtpSpec => []AcceptedTogether
<1>1. ASSUME OtpInv PROVE AcceptedTogether
  <2>1. In(Accepting) \in Nat /\ Cardinality(Verifiers) \in Nat
    BY InIsNat
  <2> QED BY <1>1, <2>1 DEF OtpInv, OtpTypeOK, AcceptInv, AcceptedTogether
<1> QED BY <1>1, OtpInvariant, PTL

\* A refusal promises at most what the refusals given so far, itself included,
\* leave of the tries, as long as the document is there.
THEOREM PromiseIsHonest == OtpSpec => RemainingHonest
<1> DEFINE Honest ==
      \A v \in Verifiers :
         present /\ answer[v] = None /\ answer'[v] # None =>
            answer'[v].remaining = 0 \/ answer'[v].remaining + wrong' <= MaxTries
<1>1. ASSUME OtpInv, [OtpNext]_otpVars
      PROVE  Honest \/ UNCHANGED otpVars
  <2> SUFFICES ASSUME NEW v \in Verifiers, present, answer[v] = None, answer'[v] # None
               PROVE  \/ answer'[v].remaining = 0
                      \/ answer'[v].remaining + wrong' <= MaxTries
    OBVIOUS
  <2>1. \E u \in Verifiers : Ask(u) \/ Find(u) \/ Accept(u) \/ Refuse(u)
    BY <1>1 DEF OtpNext, Verify, Generate, Tick, TtlDelete, Compare, Count, Break, otpVars
  <2>2. PICK u \in Verifiers : Ask(u) \/ Find(u) \/ Accept(u) \/ Refuse(u)
    BY <2>1
  <2>3. CASE Ask(u) \/ Find(u) \/ Accept(u)
    <3>1. \E a \in {None, Refused, [valid |-> TRUE, remaining |-> 0]} :
             answer' \in {answer, [answer EXCEPT ![u] = a]}
      BY <2>3 DEF Ask, Find, Accept, Reply
    <3>2. answer \in [Verifiers -> Answers \cup {None}]
      BY <1>1 DEF OtpInv, OtpTypeOK
    <3>3. answer'[v] \in {None, Refused, [valid |-> TRUE, remaining |-> 0]}
      BY <3>1, <3>2
    <3> QED BY <3>3 DEF Refused
  <2>4. CASE Refuse(u)
    <3>1. u = v /\ answer'[v].remaining = Left
      BY <1>1, <2>4 DEF Refuse, Reply
    <3>2. wrong + 1 <= attempts
      <4>1. In(Refusing) \in Nat /\ In(Refusing) >= 1
        BY <2>4, InIsNat, InSome, WhichPlaces DEF Refuse
      <4> QED BY <1>1, <4>1 DEF OtpInv, OtpTypeOK, WrongInv
    <3>3. MaxTries \in Nat /\ wrong \in Nat /\ attempts \in Nat /\ wrong' = wrong + 1
      BY <1>1, <2>4, OtpAssumption DEF OtpInv, OtpTypeOK, Refuse
    <3> QED BY <3>1, <3>2, <3>3 DEF Left
  <2> QED BY <2>2, <2>3, <2>4
<1>2. OtpInv /\ [OtpNext]_otpVars => [Honest]_otpVars
  BY <1>1
<1> QED BY <1>2, OtpInvariant, PTL DEF OtpSpec, RemainingHonest
================================================================================
