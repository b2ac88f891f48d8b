---------------------------- MODULE DenialWindow ----------------------------
(***************************************************************************)
(* What the reflexive loop promises, without clocks or queues: a posture,  *)
(* and a count of the denials that are still remembered.  Denials may be   *)
(* forgotten at any moment; a decision is judged together with what is     *)
(* remembered, itself included, and never lowers the posture.  Telemetry   *)
(* implements it with timestamps and a queue of bounded length; Runtime    *)
(* takes its Observe and Forget actions from it.                           *)
(***************************************************************************)
EXTENDS Posture

VARIABLES posture, denials

Init == posture \in Postures /\ denials = 0

Forget ==
  /\ denials' \in 0 .. denials
  /\ UNCHANGED posture

Observe(verdict) ==
  \E kept \in 0 .. denials :
    /\ denials' = kept + (IF verdict = "deny" THEN 1 ELSE 0)
    /\ posture' = next_posture(posture, denials')

(* The operator, or the escalation after a severe outcome. *)
SetPosture ==
  /\ posture' \in Postures
  /\ UNCHANGED denials

Next == Forget \/ SetPosture \/ \E v \in {"allow", "deny"} : Observe(v)

Spec == Init /\ [][Next]_<<posture, denials>>
=============================================================================
