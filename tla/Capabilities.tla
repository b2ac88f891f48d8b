---------------------------- MODULE Capabilities ----------------------------
(***************************************************************************)
(* Governed execution: CapabilityRegistry (capabilities/registry.py) and   *)
(* RIFRuntime.execute_capability (runtime.py) through ExecutionKernel.     *)
(*                                                                         *)
(* The runtime's lock covers execute_capability; the registry's operations *)
(* take no lock of their own and interleave with an execution between any  *)
(* two of its steps.  Policy is any verdict.                               *)
(***************************************************************************)
EXTENDS Naturals, FiniteSets

CONSTANTS
  Name,       \* capability names
  Adapter,    \* the executable objects
  Manifest,   \* manifest_ids, each executed at most once (a bound)
  None

Statuses == {"discovered", "identified", "inspected", "scanned", "evaluated",
             "admitted", "available", "revoked"}

(* What admission looks at.  The record's id is the name it is filed under. *)
Records == [verified : BOOLEAN, passed : BOOLEAN, status : Statuses]

Verdicts == {"allow", "deny", "review"}

(* ExecutionStatus. *)
Results == {"pending", "running", "succeeded", "failed", "denied"}

(* An execution under way: "at" is the next thing to do. *)
Executions ==
  [manifest : Manifest, name : Name, at : {"admit", "execute", "record", "deny"},
   status : {"none"} \cup Results]

Answers == {"raised"} \cup Results

(* A row of capability_evidence.jsonl: a completion has the status of its result. *)
Denial == [event |-> "execution_denied", status |-> "none"]
Completion(status) == [event |-> "execution_completed", status |-> status]
Evidence == {Denial} \cup {Completion(status) : status \in Results}

ASSUME NoneAssumption ==
  None \notin Adapter \cup Records \cup Executions \cup Verdicts \cup Answers \cup Evidence

VARIABLES
  _capabilities,   \* the adapter of each name, or None
  _records,        \* the governance record of each name, or None
  execution,       \* the execution under way, or None
  decided,         \* decisions.jsonl: manifest -> verdict, or None
  admitted,        \* manifests admitted
  executed,        \* manifests whose adapter ran
  evidence,        \* capability_evidence.jsonl: manifest -> row, or None
  answer           \* what execute_capability did: a result, "raised", or None

registry == <<_capabilities, _records>>
vars == <<_capabilities, _records, execution, decided, admitted, executed,
          evidence, answer>>

Free == execution = None

-----------------------------------------------------------------------------
(* Registration *)

(* The adapter, with its record (register_capability) or without one; a      *)
(* record registered before gives way.                                       *)
register(n, a, rec) ==
  /\ _capabilities[n] = None
  /\ _capabilities' = [_capabilities EXCEPT ![n] = a]
  /\ _records' = [_records EXCEPT ![n] = IF rec = None THEN @ ELSE rec]
  /\ UNCHANGED <<execution, decided, admitted, executed, evidence, answer>>

register_record(n, rec) ==
  /\ _records[n] = None
  /\ _records' = [_records EXCEPT ![n] = rec]
  /\ UNCHANGED <<_capabilities, execution, decided, admitted, executed, evidence, answer>>

add_evaluation(n, passed) ==
  /\ _records[n] # None
  /\ _records' = [_records EXCEPT ![n] =
                    IF passed THEN [@ EXCEPT !.passed = TRUE, !.status = "evaluated"]
                    ELSE @]
  /\ UNCHANGED <<_capabilities, execution, decided, admitted, executed, evidence, answer>>

-----------------------------------------------------------------------------
(* Execution *)

Executing(m, n, at) == [manifest |-> m, name |-> n, at |-> at, status |-> "none"]

At(step) == execution # None /\ execution.at = step

(* The exception propagates to the caller. *)
Raise ==
  /\ answer' = [answer EXCEPT ![execution.manifest] = "raised"]
  /\ execution' = None

Unused(m) == decided[m] = None /\ answer[m] = None

(* Mutant: only a denial stops an execution. *)
Authorize_review(m, n, verdict) ==
  /\ Free /\ Unused(m)
  /\ decided' = [decided EXCEPT ![m] = verdict]
  /\ execution' = Executing(m, n, IF verdict = "deny" THEN "deny" ELSE "admit")
  /\ UNCHANGED <<registry, admitted, executed, evidence, answer>>

(* The policy decides, and the decision is recorded. *)
Authorize(m, n, verdict) ==
  /\ Free /\ Unused(m)
  /\ decided' = [decided EXCEPT ![m] = verdict]
  /\ execution' = Executing(m, n, IF verdict = "allow" THEN "admit" ELSE "deny")
  /\ UNCHANGED <<registry, admitted, executed, evidence, answer>>

(* evaluate raises, before its decision is on record (no such profile, a     *)
(* policy file it cannot read, an append that fails) or after (the append of *)
(* a transition fails).                                                      *)
AuthorizeRaises(m, verdict) ==
  /\ Free /\ Unused(m)
  /\ decided' = [decided EXCEPT ![m] = verdict]
  /\ answer' = [answer EXCEPT ![m] = "raised"]
  /\ UNCHANGED <<registry, execution, admitted, executed, evidence>>

Admissible(rec) ==
  /\ rec # None /\ rec.verified /\ rec.passed
  /\ rec.status \in {"evaluated", "admitted", "available"}

admit ==
  /\ At("admit")
  /\ LET n == execution.name
     IN  IF Admissible(_records[n])
         THEN /\ _records' = [_records EXCEPT ![n].status = "admitted"]
              /\ admitted' = admitted \cup {execution.manifest}
              /\ execution' = [execution EXCEPT !.at = "execute"]
              /\ UNCHANGED answer
         ELSE /\ Raise
              /\ UNCHANGED <<_records, admitted>>
  /\ UNCHANGED <<_capabilities, decided, executed, evidence>>

Result(status) ==
  /\ execution' = [execution EXCEPT !.at = "record", !.status = status]
  /\ UNCHANGED answer

(* The kernel resolves the adapter, which raises or returns a result, whose  *)
(* status it is free to choose: the kernel hands it on as it is.             *)
execute ==
  /\ At("execute")
  /\ IF _capabilities[execution.name] = None
     THEN Raise /\ UNCHANGED executed
     ELSE /\ executed' = executed \cup {execution.manifest}
          /\ Raise \/ \E status \in Results : Result(status)
  /\ UNCHANGED <<registry, decided, admitted, evidence>>

(* Mutant: a denial is answered and leaves no evidence. *)
Record_completions ==
  /\ At("record") \/ At("deny")
  /\ LET m == execution.manifest
         denied == execution.at = "deny"
     IN  /\ evidence' = IF denied THEN evidence
                        ELSE [evidence EXCEPT ![m] = Completion(execution.status)]
         /\ answer' = [answer EXCEPT ![m] = IF denied THEN "denied" ELSE execution.status]
  /\ execution' = None
  /\ UNCHANGED <<registry, decided, admitted, executed>>

(* The evidence is appended, then the result returned. *)
Record ==
  /\ At("record") \/ At("deny")
  /\ LET m == execution.manifest
         denied == execution.at = "deny"
     IN  /\ evidence' = [evidence EXCEPT ![m] =
                           IF denied THEN Denial ELSE Completion(execution.status)]
         /\ answer' = [answer EXCEPT ![m] = IF denied THEN "denied" ELSE execution.status]
  /\ execution' = None
  /\ UNCHANGED <<registry, decided, admitted, executed>>

RecordRaises ==
  /\ At("record") \/ At("deny")
  /\ Raise
  /\ UNCHANGED <<registry, decided, admitted, executed, evidence>>

Init ==
  /\ _capabilities = [n \in Name |-> None]
  /\ _records = [n \in Name |-> None]
  /\ execution = None
  /\ decided = [m \in Manifest |-> None]
  /\ admitted = {}
  /\ executed = {}
  /\ evidence = [m \in Manifest |-> None]
  /\ answer = [m \in Manifest |-> None]

Next ==
  \/ \E n \in Name, a \in Adapter, rec \in Records \cup {None} : register(n, a, rec)
  \/ \E n \in Name, rec \in Records : register_record(n, rec)
  \/ \E n \in Name, passed \in BOOLEAN : add_evaluation(n, passed)
  \/ \E m \in Manifest, n \in Name, v \in Verdicts : Authorize(m, n, v)
  \/ \E m \in Manifest, v \in Verdicts \cup {None} : AuthorizeRaises(m, v)
  \/ admit \/ execute \/ Record \/ RecordRaises

Spec == Init /\ [][Next]_vars

-----------------------------------------------------------------------------
(* Properties *)

TypeOK ==
  /\ _capabilities \in [Name -> Adapter \cup {None}]
  /\ _records \in [Name -> Records \cup {None}]
  /\ execution \in Executions \cup {None}
  /\ decided \in [Manifest -> Verdicts \cup {None}]
  /\ admitted \subseteq Manifest /\ executed \subseteq Manifest
  /\ evidence \in [Manifest -> Evidence \cup {None}]
  /\ answer \in [Manifest -> Answers \cup {None}]

(* No adapter runs without both an allow on record and an admission, and a   *)
(* denial, a review or a refusal is never followed by a run                  *)
(* (ARCHITECTURE.md:78, runtime.py:192-209).                                 *)
AuthorizedAndAdmitted ==
  \A m \in executed : decided[m] = "allow" /\ m \in admitted

(* What a caller was told is in the evidence: a refusal by the policy as a   *)
(* denial of what never ran, a result of the adapter, whatever its status,   *)
(* as the completion, with that status, of what ran under an allow           *)
(* (runtime.py:193-226).                                                     *)
AnswersHaveEvidence ==
  \A m \in Manifest :
    answer[m] \in Results =>
      \/ /\ answer[m] = "denied" /\ evidence[m] = Denial
         /\ m \notin executed /\ decided[m] \in {"deny", "review"}
      \/ /\ evidence[m] = Completion(answer[m])
         /\ m \in executed /\ decided[m] = "allow"

(* A caller that is told "denied" can take it that nothing ran               *)
(* (tests/capabilities/test_governed_execution.py:84-100).  Not kept by the  *)
(* code for every adapter: one may return DENIED itself, after it ran (see   *)
(* Departures in README.md).  The evidence tells the two apart.              *)
DeniedNeverRan == \A m \in Manifest : answer[m] = "denied" => m \notin executed

(* An adapter runs under a record that could be admitted when it runs:       *)
(* "Execute only after policy authorization and capability admission"        *)
(* (runtime.py:180).  Not kept by the code: an adapter registered straight   *)
(* with the registry between admission and execution brings a record of its  *)
(* own (see Departures in README.md).                                        *)
RunsUnderAdmission ==
  [][executed' # executed => Admissible(_records[execution.name])]_vars

(* Every attempt that is over left evidence: "Every execution attempt,       *)
(* successful or otherwise, produces an ExecutionResult suitable for         *)
(* evidence recording" (execution/result.py:20-23).                          *)
(* Not kept by the code: see Departures in README.md.                        *)
AttemptsHaveEvidence ==
  \A m \in Manifest : answer[m] # None => evidence[m] # None
=============================================================================
