---------------------------- MODULE MCTelemetry -----------------------------
(* Instances of Telemetry for TLC. *)
EXTENDS Telemetry

MCTarget == {"page", "probe"}
MCAdversarial == {"probe"}

(* The counts of two targets, for windows of up to seven decisions: one     *)
(* target alone has no entropy; with one decision about the other it is     *)
(* 0.5004 nats for five decisions and 0.451 for six; with two of seven it   *)
(* is 0.598.                                                                *)
MCConcentrated ==
  {counts \in [MCTarget -> 0 .. 7] :
     LET total == counts["page"] + counts["probe"]
     IN  \E t \in MCTarget :
           counts[t] = total \/ (counts[t] = total - 1 /\ total >= 6)}
=============================================================================
