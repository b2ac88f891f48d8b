-------------------------------- MODULE Drift --------------------------------
(***************************************************************************)
(* The drift vector of a window of decisions and the posture it recommends *)
(* (governance/drift.py).  Rates are kept as counts and compared by cross  *)
(* multiplication.  Whether a target holds an adversarial pattern is a     *)
(* property of the target.  The entropy of the targets is a function of    *)
(* how often each occurs; of its logarithms only the comparison with the   *)
(* half nat the code asks for is kept, as a constant, for windows of any   *)
(* length.                                                                 *)
(***************************************************************************)
EXTENDS Posture, FiniteSets

CONSTANTS
  Target,       \* what decisions are about
  Adversarial,  \* the targets that match one of _ADVERSARIAL_PATTERNS
  Concentrated  \* the counts of targets whose _entropy is below 0.5

Verdicts == {"allow", "deny"}   \* "review" counts as "allow" does here

ASSUME DriftAssumption == Adversarial \subseteq Target

(* A window of decisions is a function from the positions of the decisions  *)
(* that are in it.                                                          *)
Size(events) == Cardinality(DOMAIN events)

(* How many of the events satisfy the test. *)
Count(events, Test(_)) == Cardinality({i \in DOMAIN events : Test(events[i])})

(* Counter(values): how often each target occurs. *)
Counter(events) == [t \in Target |-> Count(events, LAMBDA e : e.target = t)]

LowEntropy(events) == Counter(events) \in Concentrated

(* DriftVector.from_events: an empty window is an all-zero vector. *)
from_events(events) ==
  [events       |-> Size(events),
   denials      |-> Count(events, LAMBDA e : e.decision = "deny"),
   adversarial  |-> Count(events, LAMBDA e : e.target \in Adversarial),
   concentrated |-> LowEntropy(events)]

(* Is k more than tenths/10 of n? *)
Exceeds(k, n, tenths) == 10 * k > tenths * n

(* Mutant: the mildest rung is tested first. *)
recommend_correction_ascending(v) ==
  LET Denied(tenths)  == Exceeds(v.denials, v.events, tenths)
      Hostile(tenths) == Exceeds(v.adversarial, v.events, tenths)
  IN  IF Denied(2) THEN "elevated"
      ELSE IF Hostile(1) \/ Denied(5) \/ (v.concentrated /\ Denied(3)) THEN "restricted"
      ELSE IF Hostile(3) \/ Denied(8) THEN "locked"
      ELSE "normal"

recommend_correction(v) ==
  LET Denied(tenths)  == Exceeds(v.denials, v.events, tenths)
      Hostile(tenths) == Exceeds(v.adversarial, v.events, tenths)
  IN  IF Hostile(3) \/ Denied(8) THEN "locked"
      ELSE IF Hostile(1) \/ Denied(5) \/ (v.concentrated /\ Denied(3)) THEN "restricted"
      ELSE IF Denied(2) THEN "elevated"
      ELSE "normal"

-----------------------------------------------------------------------------
(* Properties *)

(* What each signal of a window asks for, whatever the other signals say:   *)
(* adversarial payloads prevalent (>30%) or denials above 80%; a lighter    *)
(* adversarial signal, denials above 50% or a focused probe; a moderate     *)
(* denial rate (drift.py:147-151).                                          *)
Demanded(events) ==
  LET v == from_events(events)
      Asks == [locked     |-> {<<v.adversarial, 3>>, <<v.denials, 8>>},
               restricted |-> {<<v.adversarial, 1>>, <<v.denials, 5>>}
                                \cup (IF v.concentrated THEN {<<v.denials, 3>>} ELSE {}),
               elevated   |-> {<<v.denials, 2>>}]
  IN  {p \in DOMAIN Asks : \E a \in Asks[p] : Exceeds(a[1], Size(events), a[2])}

Recommendation(events) == recommend_correction(from_events(events))

(* The recommendation contains the window and no more: it is at least what  *)
(* every signal asks for and is itself asked for ("the mildest Posture that *)
(* will contain the risk", drift.py:13); and one more denial in the place   *)
(* of an allow never makes it milder.                                       *)
Contains(events) ==
  /\ \A p \in Demanded(events) : p \preceq Recommendation(events)
  /\ Recommendation(events) \in Demanded(events) \cup {"normal"}
  /\ \A i \in DOMAIN events :
       Recommendation(events) \preceq Recommendation([events EXCEPT ![i].decision = "deny"])
==============================================================================
