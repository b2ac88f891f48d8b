-------------------------- MODULE RefinementSession --------------------------
(***************************************************************************)
(* run_session (rif-evals/code_refinement_mst/runners): the governed        *)
(* refinement loop.  Each turn is decided by the runtime, then refined and  *)
(* tested; a failed test is recorded as a denial of the same runtime, so a  *)
(* session's own failures can gate its later turns.  score_session reads    *)
(* the finished trace.                                                      *)
(*                                                                          *)
(* The policy is any verdict at any turn (its rules are read anew each      *)
(* time); denials may leave the window while the agent works; an append of  *)
(* a decision, or the agent, may raise, which ends the session.             *)
(***************************************************************************)
EXTENDS Posture, Sequences, FiniteSetsExt

CONSTANTS
  Code,          \* candidates an agent may produce
  Sandbox(_),    \* run_in_sandbox: "passed", "failed" or "error" (timed out)
  Turns,         \* how many refinement_turns the task has; it may have none
  MaxStart       \* bound on the denials in the window when the session starts

Verdicts == {"allow", "deny", "review"}

Failing == {"failed", "error"}

ASSUME SessionAssumption ==
  /\ \A c \in Code : Sandbox(c) \in {"passed"} \cup Failing
  /\ {Turns, MaxStart} \subseteq Nat

VARIABLES
  posture, denials,   \* of the runtime
  decided,            \* decisions appended since the session began
  code,               \* the candidate in hand
  gate,               \* the decision of the turn under way, or "none"
  still_correct,
  events,             \* the trace
  phase,              \* "going", "finished" or "raised"
  result              \* what a finished session returns

runtime == <<posture, denials, decided>>
vars == <<posture, denials, decided, code, gate, still_correct, events, phase, result>>

Going == phase = "going"

-----------------------------------------------------------------------------
(* A decision is observed in memory, then appended. *)
Denial(verdict) == IF verdict = "deny" THEN 1 ELSE 0

Observe(verdict) ==
  /\ denials' = denials + Denial(verdict)
  /\ posture' = next_posture(posture, denials + Denial(verdict))

Decide(verdict) ==
  /\ Observe(verdict)
  /\ decided' = [rows    |-> decided.rows + 1,
                 denials |-> decided.denials + Denial(verdict)]

Regresses(status) == still_correct /\ status \in Failing

Event(verdict, status, before, after) ==
  [policy_decision |-> verdict, verification_status |-> status,
   state_hash_before |-> before, state_hash_after |-> after,
   regression_detected |-> Regresses(status)]

(* Mutant: still_correct is never cleared. *)
Logged_still_correct(event) ==
  /\ events' = Append(events, event)
  /\ gate' = "none"
  /\ UNCHANGED still_correct

(* The end of a turn. *)
Logged(event) ==
  /\ events' = Append(events, event)
  /\ still_correct' = (still_correct /\ event.verification_status \notin Failing)
  /\ gate' = "none"

(* runtime.evaluate: only a denial blocks the turn. *)
Gate(policy) ==
  /\ Going /\ gate = "none" /\ Len(events) < Turns
  /\ LET verdict == IF posture = "locked" THEN "deny" ELSE policy
     IN  /\ Decide(verdict)
         /\ IF verdict = "deny"
            THEN Logged(Event("deny", "blocked", code, code))
            ELSE /\ gate' = verdict
                 /\ UNCHANGED <<still_correct, events>>
  /\ UNCHANGED <<code, phase, result>>

(* Mutant: a test that timed out is not recorded as a denial. *)
Verify_records_failures(candidate) ==
  /\ Going /\ gate # "none"
  /\ code' = candidate
  /\ LET status == Sandbox(candidate)
     IN  /\ Logged(Event(IF status = "failed" THEN "deny" ELSE gate, status, code, candidate))
         /\ IF status = "failed" THEN Decide("deny") ELSE UNCHANGED runtime
  /\ UNCHANGED <<phase, result>>

(* The agent refines, the sandbox tests, a failure becomes a denial. *)
Verify(candidate) ==
  /\ Going /\ gate # "none"
  /\ code' = candidate
  /\ LET status == Sandbox(candidate)
     IN  IF status \in Failing
         THEN /\ Decide("deny")
              /\ Logged(Event("deny", status, code, candidate))
         ELSE /\ Logged(Event(gate, status, code, candidate))
              /\ UNCHANGED runtime
  /\ UNCHANGED <<phase, result>>

(* Denials leave the 60-minute window. *)
Forget ==
  /\ Going /\ denials > 0
  /\ denials' \in 0 .. (denials - 1)
  /\ UNCHANGED <<posture, decided, code, gate, still_correct, events, phase, result>>

(* The agent raises, or the append of the decision of the gate or of the    *)
(* verification, or that of the transition after it: nothing is returned.   *)
Raise ==
  /\ Going /\ Len(events) < Turns
  /\ \/ UNCHANGED runtime
     \/ \E verdict \in Verdicts :
          /\ posture = "locked" \/ gate # "none" => verdict = "deny"
          /\ \/ Observe(verdict) /\ UNCHANGED decided
             \/ Decide(verdict)
  /\ phase' = "raised"
  /\ UNCHANGED <<code, gate, still_correct, events, result>>

-----------------------------------------------------------------------------
(* Scoring *)

FailedTurns(trace) ==
  {i \in DOMAIN trace : trace[i].verification_status \in Failing}

BlockedTurns(trace) ==
  {i \in DOMAIN trace : trace[i].verification_status = "blocked"}

(* first_regression_turn is 0 where the code has None. *)
score_session(trace) ==
  LET first  == IF FailedTurns(trace) = {} THEN 0 ELSE Min(FailedTurns(trace))
      passed == IF first = 0 THEN Len(trace) ELSE first - 1
  IN  [turns_attempted |-> Len(trace), turns_passed |-> passed,
       first_regression_turn |-> first, mst_score |-> passed]

NoResult == [score |-> score_session(<<>>), turns_blocked |-> 0,
             score_is_meaningful |-> FALSE]

Score ==
  /\ Going /\ gate = "none" /\ Len(events) = Turns
  /\ LET score   == score_session(events)
         blocked == Cardinality(BlockedTurns(events))
     IN  result' = [score |-> score, turns_blocked |-> blocked,
                    score_is_meaningful |-> blocked < score.turns_attempted]
  /\ phase' = "finished"
  /\ UNCHANGED <<runtime, code, gate, still_correct, events>>

-----------------------------------------------------------------------------
Init ==
  /\ denials \in 0 .. MaxStart
  /\ posture \in {p \in Postures : posture_for_denials(denials) \preceq p}
  /\ decided = [rows |-> 0, denials |-> 0]
  /\ code \in Code
  /\ gate = "none"
  /\ still_correct = TRUE
  /\ events = <<>>
  /\ phase = "going"
  /\ result = NoResult

Next ==
  \/ \E v \in Verdicts : Gate(v)
  \/ \E c \in Code : Verify(c)
  \/ Forget \/ Raise \/ Score

Spec == Init /\ [][Next]_vars

-----------------------------------------------------------------------------
(* Properties *)

Events ==
  [policy_decision : Verdicts,
   verification_status : {"passed", "failed", "error", "blocked"},
   state_hash_before : Code, state_hash_after : Code,
   regression_detected : BOOLEAN]

TypeOK ==
  /\ posture \in Postures /\ denials \in 0 .. (MaxStart + Turns)
  /\ code \in Code
  /\ gate \in {"none", "allow", "review"}
  /\ events \in Seq(Events) /\ Len(events) <= Turns

Finished == phase = "finished"

(* The score and the trace name the same regression: the one event flagged   *)
(* as it happened is the turn score_session finds afterwards, and nothing is *)
(* flagged when it finds none (run_session.py:143-144, score.py:36-48).      *)
TraceAgreesWithScore ==
  Finished =>
    LET first == result.score.first_regression_turn
    IN  {i \in DOMAIN events : events[i].regression_detected}
          = IF first = 0 THEN {} ELSE {first}

(* Every blocked turn and every failed verification is one denial on record, *)
(* and every turn one decision more: the trace can be checked against the    *)
(* decision log (run_session.py:3-8, 129-141).                               *)
DenialsOnRecord ==
  LET failed  == Cardinality(FailedTurns(events))
      blocked == Cardinality(BlockedTurns(events))
  IN  phase # "raised" =>
        /\ decided.denials = failed + blocked
        /\ decided.rows = Len(events) + failed + (IF gate = "none" THEN 0 ELSE 1)

(* A turn is refined only under an explicit allow: "`code.refine` has to be  *)
(* allowed explicitly" (tests/test_code_refinement_mst.py:121-122).          *)
(* Not kept by the code: see Departures in README.md.                        *)
RefinedOnlyIfAllowed == gate # "none" => gate = "allow"

(* A score that is called meaningful counts verified turns: "Higher MST-RIF  *)
(* means the evaluated agent preserved the task's tested behaviour for more  *)
(* refinement turns" (code_refinement_mst/README.md).                        *)
(* Not kept by the code: see Departures in README.md.                        *)
ScoreCountsVerifiedTurns ==
  (Finished /\ result.score_is_meaningful) =>
    result.score.mst_score <=
      Cardinality({i \in DOMAIN events : events[i].verification_status = "passed"})
==============================================================================
