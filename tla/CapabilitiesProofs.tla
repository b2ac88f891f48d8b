------------------------- MODULE CapabilitiesProofs -------------------------
(***************************************************************************)
(* Theorems about Capabilities, for any capabilities, adapters and number  *)
(* of executions.                                                          *)
(***************************************************************************)
EXTENDS Capabilities, TLAPS

(* How far each execution is: what has been decided, admitted and run when   *)
(* it is about to take its next step.  Between the steps the registry may    *)
(* change under it; none of this rests on the registry.                      *)
InProgress ==
  execution # None =>
    LET m == execution.manifest
    IN  /\ answer[m] = None
        /\ execution.at = "deny" => m \notin executed /\ decided[m] \in {"deny", "review"}
        /\ execution.at # "deny" => decided[m] = "allow"
        /\ execution.at = "execute" => m \in admitted
        /\ execution.at = "record" => m \in executed /\ execution.status \in Results

Inv ==
  /\ TypeOK
  /\ InProgress
  /\ AuthorizedAndAdmitted
  /\ AnswersHaveEvidence

(* What the registry does while an execution is between two steps.           *)
LEMMA RegistrySteps ==
  ASSUME Inv, NEW n \in Name,
         \/ \E a \in Adapter, rec \in Records \cup {None} : register(n, a, rec)
         \/ \E rec \in Records : register_record(n, rec)
         \/ \E passed \in BOOLEAN : add_evaluation(n, passed)
  PROVE  Inv'
<1> DEFINE Typed == /\ _capabilities' \in [Name -> Adapter \cup {None}]
                    /\ _records' \in [Name -> Records \cup {None}]
<1>1. TypeOK
  BY DEF Inv
<1>2. UNCHANGED <<execution, decided, admitted, executed, evidence, answer>>
  BY DEF register, register_record, add_evaluation
<1>3. Typed
  <2>1. ASSUME NEW a \in Adapter, NEW rec \in Records \cup {None}, register(n, a, rec)
        PROVE  Typed
    BY <1>1, <2>1 DEF register, TypeOK
  <2>2. ASSUME NEW rec \in Records, register_record(n, rec)
        PROVE  Typed
    BY <1>1, <2>2 DEF register_record, TypeOK
  <2>3. ASSUME NEW passed \in BOOLEAN, add_evaluation(n, passed)
        PROVE  Typed
    <3>1. _records[n] \in Records
      BY <1>1, <2>3 DEF add_evaluation, TypeOK
    <3>2. [_records[n] EXCEPT !.passed = TRUE, !.status = "evaluated"] \in Records
      BY <3>1 DEF Records, Statuses
    <3> QED
      BY <1>1, <2>3, <3>1, <3>2 DEF add_evaluation, TypeOK
  <2> QED
    BY <2>1, <2>2, <2>3
<1>4. TypeOK'
  BY <1>1, <1>2, <1>3 DEF TypeOK
<1> QED
  BY <1>2, <1>4 DEF Inv, InProgress, AuthorizedAndAdmitted, AnswersHaveEvidence

(* The execution begins under its own verdict, which no later step changes.  *)
LEMMA AuthorizeStep ==
  ASSUME Inv, NEW m \in Manifest, NEW n \in Name, NEW v \in Verdicts, Authorize(m, n, v)
  PROVE  Inv'
<1>1. TypeOK /\ execution = None /\ decided[m] = None /\ answer[m] = None
  BY DEF Inv, Authorize, Free, Unused
<1>2. v # None
  BY NoneAssumption
<1>3. decided' = [decided EXCEPT ![m] = v]
      /\ decided' \in [Manifest -> Verdicts \cup {None}]
  BY <1>1 DEF Authorize, TypeOK
<1>4. execution' = [manifest |-> m, name |-> n,
                    at |-> IF v = "allow" THEN "admit" ELSE "deny", status |-> "none"]
  BY DEF Authorize, Executing
<1>5. execution' \in Executions
  BY <1>4 DEF Executions
<1>6. UNCHANGED <<registry, admitted, executed, evidence, answer>>
  BY DEF Authorize
<1>7. m \notin executed
  BY <1>1, NoneAssumption DEF Inv, AuthorizedAndAdmitted, Verdicts
<1>8. TypeOK'
  BY <1>1, <1>3, <1>5, <1>6 DEF TypeOK, registry
<1>9. InProgress'
  <2>1. execution'.manifest = m /\ (execution'.at = "admit" \/ execution'.at = "deny")
    BY <1>4
  <2>2. IF v = "allow" THEN execution'.at = "admit" ELSE execution'.at = "deny"
    BY <1>4
  <2>3. decided'[m] = v
    BY <1>1, <1>3 DEF TypeOK
  <2>4. answer' = answer /\ executed' = executed
    BY <1>6
  <2> QED
    BY <1>1, <1>7, <2>1, <2>2, <2>3, <2>4 DEF InProgress, Verdicts
<1>10. AuthorizedAndAdmitted'
  BY <1>1, <1>3, <1>6, <1>7 DEF Inv, AuthorizedAndAdmitted, TypeOK
<1>11. AnswersHaveEvidence'
  BY <1>1, <1>3, <1>6, NoneAssumption DEF Inv, AnswersHaveEvidence, TypeOK, Answers
<1> QED
  BY <1>8, <1>9, <1>10, <1>11 DEF Inv

(* An evaluation that raises ends the attempt before anything ran.           *)
LEMMA AuthorizeRaisesStep ==
  ASSUME Inv, NEW m \in Manifest, NEW v \in Verdicts \cup {None}, AuthorizeRaises(m, v)
  PROVE  Inv'
<1>1. /\ TypeOK /\ execution = None /\ decided[m] = None /\ answer[m] = None
      /\ decided' = [decided EXCEPT ![m] = v]
      /\ answer' = [answer EXCEPT ![m] = "raised"]
      /\ UNCHANGED <<registry, execution, admitted, executed, evidence>>
  BY DEF Inv, AuthorizeRaises, Free, Unused
<1>2. m \notin executed
  BY <1>1, NoneAssumption DEF Inv, AuthorizedAndAdmitted, Verdicts
<1>3. TypeOK'
  BY <1>1 DEF TypeOK, registry, Answers
<1>4. InProgress' /\ AuthorizedAndAdmitted'
  BY <1>1, <1>2 DEF Inv, InProgress, AuthorizedAndAdmitted, TypeOK
<1>5. AnswersHaveEvidence'
  BY <1>1 DEF Inv, AnswersHaveEvidence, TypeOK, Results
<1> QED
  BY <1>3, <1>4, <1>5 DEF Inv

(* An execution that raises is answered with that, and claims nothing else.  *)
LEMMA Raising ==
  ASSUME Inv, execution # None, Raise
  PROVE  /\ answer' \in [Manifest -> Answers \cup {None}]
         /\ execution' = None
         /\ \A m \in Manifest : m # execution.manifest => answer'[m] = answer[m]
         /\ answer'[execution.manifest] = "raised"
         /\ execution.manifest \in Manifest
<1>1. TypeOK /\ execution.manifest \in Manifest
  BY DEF Inv, TypeOK, Executions
<1> QED
  BY <1>1 DEF Inv, Raise, TypeOK, Answers

(* Admission admits the execution it was asked about, or raises.             *)
LEMMA AdmitStep ==
  ASSUME Inv, admit
  PROVE  Inv'
<1> DEFINE m == execution.manifest
           n == execution.name
<1>1. TypeOK /\ execution # None /\ execution.at = "admit" /\ execution \in Executions
  BY DEF Inv, admit, At, TypeOK
<1>2. m \in Manifest /\ n \in Name
  BY <1>1 DEF Executions
<1>3. decided[m] = "allow" /\ answer[m] = None
  BY <1>1 DEF Inv, InProgress
<1>4. UNCHANGED <<_capabilities, decided, executed, evidence>>
  BY DEF admit
<1>5. CASE Admissible(_records[n])
  <2>1. /\ _records' = [_records EXCEPT ![n].status = "admitted"]
        /\ admitted' = admitted \cup {m}
        /\ execution' = [execution EXCEPT !.at = "execute"]
        /\ answer' = answer
    BY <1>5 DEF admit
  <2>2. _records[n] \in Records
    BY <1>1, <1>2, <1>5 DEF Admissible, TypeOK
  <2>3. [_records[n] EXCEPT !.status = "admitted"] \in Records
    BY <2>2 DEF Records, Statuses
  <2>4. _records' \in [Name -> Records \cup {None}]
    BY <1>1, <1>2, <2>1, <2>3 DEF TypeOK
  <2>5. /\ execution' \in Executions
        /\ execution'.manifest = m /\ execution'.at = "execute"
    BY <1>1, <2>1 DEF Executions
  <2>6. TypeOK'
    BY <1>1, <1>2, <1>4, <2>1, <2>4, <2>5 DEF TypeOK
  <2>7. InProgress'
    BY <1>2, <1>3, <1>4, <2>1, <2>5, NoneAssumption DEF Inv, InProgress
  <2>8. AuthorizedAndAdmitted' /\ AnswersHaveEvidence'
    BY <1>4, <2>1 DEF Inv, AuthorizedAndAdmitted, AnswersHaveEvidence
  <2> QED
    BY <2>6, <2>7, <2>8 DEF Inv
<1>6. CASE ~Admissible(_records[n])
  <2>1. Raise /\ UNCHANGED <<_records, admitted>>
    BY <1>6 DEF admit
  <2>2. TypeOK'
    BY <1>1, <1>4, <2>1, Raising DEF TypeOK
  <2>3. InProgress' /\ AnswersHaveEvidence'
    BY <1>1, <1>4, <2>1, Raising DEF Inv, InProgress, AnswersHaveEvidence, Results
  <2>4. AuthorizedAndAdmitted'
    BY <1>4, <2>1 DEF Inv, AuthorizedAndAdmitted
  <2> QED
    BY <2>2, <2>3, <2>4 DEF Inv
<1> QED
  BY <1>5, <1>6

(* The adapter runs only for an execution that was allowed and admitted.     *)
LEMMA ExecuteStep ==
  ASSUME Inv, execute
  PROVE  Inv'
<1> DEFINE m == execution.manifest
<1>1. TypeOK /\ execution # None /\ execution.at = "execute" /\ execution \in Executions
  BY DEF Inv, execute, At, TypeOK
<1>2. m \in Manifest
  BY <1>1 DEF Executions
<1>3. decided[m] = "allow" /\ m \in admitted /\ answer[m] = None
  BY <1>1 DEF Inv, InProgress
<1>4. UNCHANGED <<registry, decided, admitted, evidence>>
  BY DEF execute
<1>5. executed' = executed \/ executed' = executed \cup {m}
  BY DEF execute
<1>6. AuthorizedAndAdmitted'
  BY <1>3, <1>4, <1>5 DEF Inv, AuthorizedAndAdmitted
<1>7. CASE Raise
  <2>1. TypeOK'
    BY <1>1, <1>2, <1>4, <1>5, <1>7, Raising DEF TypeOK, registry
  <2>2. InProgress'
    BY <1>1, <1>4, <1>7, Raising DEF Inv, InProgress
  <2>3. AnswersHaveEvidence'
    BY <1>1, <1>3, <1>4, <1>5, <1>7, Raising, NoneAssumption
       DEF Inv, AnswersHaveEvidence, Results
  <2> QED
    BY <1>6, <2>1, <2>2, <2>3 DEF Inv
<1>8. CASE ~Raise
  <2>0. PICK status \in Results : Result(status)
    BY <1>8 DEF execute
  <2>1. execution' = [execution EXCEPT !.at = "record", !.status = status]
    BY <2>0 DEF Result
  <2>2. answer' = answer /\ executed' = executed \cup {m}
    <3>1. executed' = executed \cup {m}
      BY <1>8 DEF execute
    <3> QED BY <2>0, <3>1 DEF Result
  <2>3. /\ execution' \in Executions
        /\ execution'.manifest = m /\ execution'.at = "record"
        /\ execution'.status = status
    BY <1>1, <2>1 DEF Executions
  <2>4. TypeOK'
    BY <1>1, <1>2, <1>4, <2>2, <2>3 DEF TypeOK, registry
  <2>5. InProgress'
    BY <1>2, <1>3, <1>4, <2>2, <2>3, NoneAssumption DEF Inv, InProgress, Verdicts
  <2>6. AnswersHaveEvidence'
    BY <1>3, <1>4, <2>2, NoneAssumption DEF Inv, AnswersHaveEvidence, Answers
  <2> QED
    BY <1>6, <2>4, <2>5, <2>6 DEF Inv
<1> QED
  BY <1>7, <1>8

(* The evidence is that of the execution that ends, and the answer says no   *)
(* more than the evidence.                                                   *)
LEMMA RecordStep ==
  ASSUME Inv, Record
  PROVE  Inv'
<1> DEFINE m == execution.manifest
           denied == execution.at = "deny"
<1>1. /\ TypeOK /\ execution # None /\ execution \in Executions
      /\ denied \/ execution.at = "record"
  BY DEF Inv, Record, At, TypeOK
<1>2. m \in Manifest
  BY <1>1 DEF Executions
<1>3. /\ denied => m \notin executed /\ decided[m] \in {"deny", "review"}
      /\ ~denied => /\ m \in executed /\ decided[m] = "allow"
                    /\ execution.status \in Results
  BY <1>1 DEF Inv, InProgress
<1>4. /\ evidence' = [evidence EXCEPT ![m] =
                        IF denied THEN Denial ELSE Completion(execution.status)]
      /\ answer' = [answer EXCEPT ![m] = IF denied THEN "denied" ELSE execution.status]
      /\ execution' = None
      /\ UNCHANGED <<registry, decided, admitted, executed>>
  BY DEF Record
<1>5. TypeOK'
  <2>1. /\ (IF denied THEN Denial ELSE Completion(execution.status)) \in Evidence
        /\ (IF denied THEN "denied" ELSE execution.status) \in Answers
    BY <1>3 DEF Evidence, Answers, Results
  <2> QED BY <1>1, <1>2, <1>4, <2>1 DEF TypeOK, registry
<1>6. InProgress'
  BY <1>1, <1>2, <1>4 DEF Inv, InProgress, TypeOK
<1>7. AuthorizedAndAdmitted'
  BY <1>4 DEF Inv, AuthorizedAndAdmitted
<1>8. AnswersHaveEvidence'
  <2> SUFFICES ASSUME NEW k \in Manifest, answer'[k] \in Results
               PROVE  \/ /\ answer'[k] = "denied" /\ evidence'[k] = Denial
                         /\ k \notin executed' /\ decided'[k] \in {"deny", "review"}
                      \/ /\ evidence'[k] = Completion(answer'[k])
                         /\ k \in executed' /\ decided'[k] = "allow"
    BY DEF AnswersHaveEvidence
  <2>1. CASE k = m
    BY <1>1, <1>2, <1>3, <1>4, <2>1 DEF TypeOK
  <2>2. CASE k # m
    BY <1>1, <1>4, <2>2 DEF TypeOK, Inv, AnswersHaveEvidence
  <2> QED
    BY <2>1, <2>2
<1> QED
  BY <1>5, <1>6, <1>7, <1>8 DEF Inv

LEMMA RecordRaisesStep ==
  ASSUME Inv, RecordRaises
  PROVE  Inv'
<1>1. /\ TypeOK /\ execution # None /\ Raise
      /\ UNCHANGED <<registry, decided, admitted, executed, evidence>>
  BY DEF Inv, RecordRaises, At
<1>2. TypeOK'
  BY <1>1, Raising DEF TypeOK, registry
<1>3. InProgress' /\ AnswersHaveEvidence'
  BY <1>1, Raising DEF Inv, InProgress, AnswersHaveEvidence, Results
<1>4. AuthorizedAndAdmitted'
  BY <1>1 DEF Inv, AuthorizedAndAdmitted
<1> QED
  BY <1>2, <1>3, <1>4 DEF Inv

(* The invariant holds of every behaviour.                                   *)
THEOREM Invariance == Spec => []Inv
<1>1. Init => Inv
  BY NoneAssumption DEF Init, Inv, TypeOK, InProgress, AuthorizedAndAdmitted,
     AnswersHaveEvidence, Answers
<1>2. Inv /\ [Next]_vars => Inv'
  <2> SUFFICES ASSUME Inv, [Next]_vars
               PROVE  Inv'
    OBVIOUS
  <2>1. ASSUME NEW n \in Name, NEW a \in Adapter, NEW rec \in Records \cup {None},
               register(n, a, rec)
        PROVE  Inv'
    BY <2>1, RegistrySteps
  <2>2. ASSUME NEW n \in Name, NEW rec \in Records, register_record(n, rec)
        PROVE  Inv'
    BY <2>2, RegistrySteps
  <2>3. ASSUME NEW n \in Name, NEW passed \in BOOLEAN, add_evaluation(n, passed)
        PROVE  Inv'
    BY <2>3, RegistrySteps
  <2>4. ASSUME NEW m \in Manifest, NEW n \in Name, NEW v \in Verdicts, Authorize(m, n, v)
        PROVE  Inv'
    BY <2>4, AuthorizeStep
  <2>5. ASSUME NEW m \in Manifest, NEW v \in Verdicts \cup {None}, AuthorizeRaises(m, v)
        PROVE  Inv'
    BY <2>5, AuthorizeRaisesStep
  <2>6. CASE UNCHANGED vars
    BY <2>6 DEF vars, registry, Inv, TypeOK, InProgress, AuthorizedAndAdmitted,
       AnswersHaveEvidence
  <2> QED
    BY <2>1, <2>2, <2>3, <2>4, <2>5, <2>6, AdmitStep, ExecuteStep, RecordStep, RecordRaisesStep
       DEF Next
<1> QED
  BY <1>1, <1>2, PTL DEF Spec

(* Whatever is registered, evaluated and executed, and however the registry  *)
(* changes under an execution, no adapter runs without an allow on record    *)
(* and an admission (runtime.py:192-209).                                    *)
THEOREM RunsAreAuthorized == Spec => []AuthorizedAndAdmitted
<1>1. Inv => AuthorizedAndAdmitted
  BY DEF Inv
<1> QED
  BY <1>1, Invariance, PTL

(* What a caller was told is in the evidence (runtime.py:193-226).           *)
THEOREM AnswersAreEvidenced == Spec => []AnswersHaveEvidence
<1>1. Inv => AnswersHaveEvidence
  BY DEF Inv
<1> QED
  BY <1>1, Invariance, PTL
=============================================================================
