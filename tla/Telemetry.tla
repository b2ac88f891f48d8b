------------------------------ MODULE Telemetry ------------------------------
(***************************************************************************)
(* TelemetryStore (governance/telemetry.py) and the reflexive loop that    *)
(* reads it (governance/reflexive.py): the newest max_events decisions in  *)
(* memory, counted over the last 60 minutes each time one is recorded.     *)
(* One process; its lock makes an observation one step.  The clock only    *)
(* moves forward.                                                          *)
(***************************************************************************)
EXTENDS Drift, Sequences, Functions

CONSTANTS
  MaxEvents,      \* max_events (1000 in the code)
  Window,         \* minutes that recent() looks back (60)
  MaxTime,        \* bound on the clock
  MaxDecisions,   \* bound on the decisions recorded
  MaxDrift        \* bound on the windows whose recommendation is enumerated

ASSUME TelemetryAssumption ==
  /\ {MaxEvents, Window, MaxTime, MaxDecisions, MaxDrift} \subseteq Nat
  /\ MaxEvents > 0

VARIABLES
  clock,
  events,      \* the queue, oldest first
  posture,     \* RIFRuntime.posture
  eased,       \* has the operator lowered the posture since the last decision?
  recorded     \* every decision since the process started, evicted or not

vars == <<clock, events, posture, eased, recorded>>

Events == [timestamp : Nat, decision : Verdicts, target : Target]

(* Mutant: the newest event gives way instead of the oldest. *)
Kept_newest_dropped(queue, event) ==
  IF Len(queue) < MaxEvents THEN Append(queue, event) ELSE queue

(* TelemetryStore.record: append, then drop the oldest ones in excess. *)
Kept(queue, event) ==
  LET all == Append(queue, event)
      excess == IF Len(all) > MaxEvents THEN Len(all) - MaxEvents ELSE 0
  IN  SubSeq(all, excess + 1, Len(all))

(* The recent events, each under its position in the queue: nobody asks for *)
(* their order.                                                             *)
recent(queue, now) ==
  Restrict(queue, {i \in DOMAIN queue : queue[i].timestamp + Window >= now})

(* Mutant: every recent decision counts. *)
denial_count_all(queue, now) == Size(recent(queue, now))

denial_count(queue, now) ==
  Count(recent(queue, now), LAMBDA e : e.decision = "deny")

(* Mutant: the denials are counted before the decision is recorded. *)
Observe_late(event) ==
  /\ events' = Kept(events, event)
  /\ posture' = next_posture(posture, denial_count(events, clock))

(* ReflexiveLoop.observe. *)
Observe(event) ==
  /\ events' = Kept(events, event)
  /\ posture' = next_posture(posture, denial_count(events', clock))

Record(verdict, target) ==
  /\ Len(recorded) < MaxDecisions
  /\ LET event == [timestamp |-> clock, decision |-> verdict, target |-> target]
     IN  Observe(event) /\ recorded' = Append(recorded, event)
  /\ eased' = FALSE
  /\ UNCHANGED clock

(* set_posture and reset_posture leave the telemetry alone. *)
SetPosture(q) ==
  /\ posture' = q
  /\ eased' = (eased \/ ~(posture \preceq q))
  /\ UNCHANGED <<clock, events, recorded>>

(* Time passes. *)
Tick ==
  /\ clock < MaxTime
  /\ clock' = clock + 1
  /\ UNCHANGED <<events, posture, eased, recorded>>

(* RIFRuntime.drift_vector. *)
drift_vector == from_events(recent(events, clock))

Init ==
  /\ clock = 0
  /\ events = <<>>
  /\ posture \in Postures
  /\ eased = FALSE
  /\ recorded = <<>>

Next ==
  \/ \E v \in Verdicts, t \in Target : Record(v, t)
  \/ \E q \in Postures : SetPosture(q)
  \/ Tick

Spec == Init /\ [][Next]_vars

-----------------------------------------------------------------------------
(* Properties *)

Windows ==
  UNION {[1 .. n -> [decision : Verdicts, target : Target]] : n \in 0 .. MaxDrift}

TypeOK ==
  /\ clock \in Nat
  /\ events \in Seq(Events) /\ Len(events) <= MaxEvents
  /\ posture \in Postures
  /\ eased \in BOOLEAN
  /\ recorded \in Seq(Events)

(* More decisions in one window than the queue holds. *)
Flooded == Size(recent(recorded, clock)) > MaxEvents

(* A burst of denials is contained: when a decision has been recorded, the  *)
(* posture is at least what the denials of the last hour imply, counted     *)
(* over all that were made and not over what the queue kept, unless more    *)
(* than max_events decisions were made in that hour (telemetry.py:13-23).   *)
BurstsAreContained ==
  [][recorded' # recorded =>
       \/ Flooded'
       \/ posture_for_denials(denial_count(recorded', clock)) \preceq posture']_vars

(* Only a denial raises a posture: a decision that allows leaves it alone,  *)
(* except that the first one after an operator's lowering restores what     *)
(* the remembered denials imply (posture.py:51-70).                         *)
AllowsNeverRaise ==
  [][(recorded' # recorded /\ recorded'[Len(recorded')].decision = "allow" /\ ~eased)
       => posture' = posture]_vars

(* The recommendation of /v1/drift/recommend contains the window it is      *)
(* taken from and asks for no more: for the window of this state, and for   *)
(* every window of up to MaxDrift decisions, where all the rates that the   *)
(* code compares with are met from both sides (drift.py:142-163).           *)
DriftIsContained ==
  /\ Contains(recent(events, clock))
  /\ clock = 0 /\ events = <<>> => \A w \in Windows : Contains(w)

(* Queue, clock and eviction implement the count that forgets, which is all *)
(* that Runtime keeps of the telemetry.                                     *)
Remembered == denial_count(events, clock)

Loop == INSTANCE DenialWindow WITH denials <- Remembered

ImplementsDenialWindow == Loop!Spec
==============================================================================
