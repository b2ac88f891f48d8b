------------------------------- MODULE Posture -------------------------------
(***************************************************************************)
(* The posture ladder of governance/posture.py: four postures ordered by   *)
(* how much they restrict, the map from a count of denials to a posture,   *)
(* and the ratchet that applies that map to the current posture.  The      *)
(* operators are pure; Runtime, Telemetry, Api and RefinementSession use   *)
(* them for every transition.  The code fixes the three thresholds at 3,   *)
(* 10 and 20; they are constants here, so that small instances reach every *)
(* rung and the theorems hold for every choice of thresholds.              *)
(***************************************************************************)
EXTENDS Naturals

CONSTANTS
  ElevatedAt,      \* denials that imply at least "elevated"   (3 in the code)
  RestrictedAt,    \* denials that imply at least "restricted" (10)
  LockedAt         \* denials that imply "locked"              (20)

ASSUME ThresholdsAssumption ==
  /\ {ElevatedAt, RestrictedAt, LockedAt} \subseteq Nat \ {0}
  /\ ElevatedAt < RestrictedAt
  /\ RestrictedAt < LockedAt

Postures == {"normal", "elevated", "restricted", "locked"}

(* The position of a posture on POSTURE_LADDER. *)
posture_severity(p) ==
  CASE p = "normal"     -> 0
    [] p = "elevated"   -> 1
    [] p = "restricted" -> 2
    [] p = "locked"     -> 3

(* One rung up, capped at "locked". *)
escalate_posture(p) ==
  CASE p = "normal"     -> "elevated"
    [] p = "elevated"   -> "restricted"
    [] p = "restricted" -> "locked"
    [] p = "locked"     -> "locked"

at_least_posture(current, floor) ==
  IF posture_severity(floor) > posture_severity(current) THEN floor ELSE current

posture_for_denials(denials) ==
  CASE denials >= LockedAt                                -> "locked"
    [] denials >= RestrictedAt /\ denials < LockedAt      -> "restricted"
    [] denials >= ElevatedAt   /\ denials < RestrictedAt  -> "elevated"
    [] denials < ElevatedAt                               -> "normal"

(* Mutant: the posture is computed anew from the denials at each decision. *)
next_posture_recomputed(current, denials) == posture_for_denials(denials)

(* PostureManager.next_posture: the denials may raise the posture, never   *)
(* lower it.                                                               *)
next_posture(current, denials) ==
  IF posture_for_denials(denials) = "normal"
  THEN current
  ELSE at_least_posture(current, posture_for_denials(denials))

(* p restricts no more than q. *)
p \preceq q == posture_severity(p) <= posture_severity(q)
=============================================================================
