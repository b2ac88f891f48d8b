------------------------------ MODULE ApiProofs ------------------------------
(***************************************************************************)
(* Theorems about Api, for any number of calls side by side, any keys, and *)
(* any appends and mirror writes that fail.                                *)
(***************************************************************************)
EXTENDS Api, TLAPS

Recording(c) == On(c, {"evaluate", "create_run"})

(* How far a call is tells what its guard let through ... *)
PastItsGuard(c) ==
  /\ at[c] \notin {"new", "done"} => Passes(c)
  /\ at[c] \in {"decided", "raised", "logged"} => Recording(c)
  /\ at[c] \in {"run", "evidence"} => On(c, {"create_run"})
  /\ at[c] = "set" => On(c, {"posture", "reset_posture"})
  /\ at[c] \in {"live", "iterating"} => ~Recording(c)

(* ... what it has decided, and what of that is on record. *)
OnRecord(c) ==
  /\ at[c] # "done" => answer[c] = None
  /\ at[c] \in {"new", "admitted", "decided", "raised"} =>
       decisions[c] = None /\ execution_runs[c] = None /\ evidence_ledger[c] = None
  /\ at[c] \in {"decided", "raised"} => decision[c] \in Verdicts
  /\ at[c] \in {"logged", "run", "evidence"} \/ (at[c] = "respond" /\ Recording(c)) =>
       decision[c] \in Verdicts /\ decisions[c] = decision[c]

CallInv(c) == PastItsGuard(c) /\ OnRecord(c) /\ Auditable(c) /\ Mirrored(c)

Inv == TypeOK /\ \A c \in Call : CallInv(c)

(* A step of one call leaves what is known of the others as it is.           *)
LEMMA Apart ==
  ASSUME NEW d \in Call, CallInv(d), UNCHANGED settings,
         at'[d] = at[d], answer'[d] = answer[d],
         decision'[d] = decision[d], decisions'[d] = decisions[d],
         execution_runs'[d] = execution_runs[d],
         evidence_ledger'[d] = evidence_ledger[d]
  PROVE  CallInv(d)'
BY DEF CallInv, PastItsGuard, OnRecord, Auditable, Mirrored, Passes, Recording, On,
   require_api_key, settings

(* A call that ends with a code that claims no verdict.                      *)
LEMMA EndsAside ==
  ASSUME Inv, NEW c \in Call, NEW code \in Codes,
         at' = [at EXCEPT ![c] = "done"], Answer(c, code),
         code \in {200, 403} => ~Recording(c),
         UNCHANGED <<settings, decision, decisions, mirror>>,
         lock' \in Call \cup {None}
  PROVE  Inv'
<1>1. TypeOK /\ \A d \in Call : CallInv(d)
  BY DEF Inv
<1>2. TypeOK'
  BY <1>1 DEF TypeOK, Answer, settings, mirror
<1>3. at'[c] = "done" /\ answer'[c] = code
  BY <1>1 DEF TypeOK, Answer
<1>4. CallInv(c)'
  <2>1. CallInv(c)
    BY <1>1
  <2>2. request' = request /\ keys' = keys /\ read_auth' = read_auth
    BY DEF settings
  <2>3. PastItsGuard(c)' /\ OnRecord(c)'
    BY <1>3 DEF PastItsGuard, OnRecord
  <2>4. Auditable(c)'
    BY <1>3, <2>2 DEF Auditable, On, Recording
  <2>5. Mirrored(c)'
    BY <2>1 DEF CallInv, Mirrored, mirror
  <2> QED
    BY <2>3, <2>4, <2>5 DEF CallInv
<1>5. ASSUME NEW d \in Call, d # c PROVE CallInv(d)'
  BY <1>1, <1>5, Apart DEF TypeOK, Answer, mirror
<1> QED
  BY <1>2, <1>4, <1>5 DEF Inv

(* A call that records nothing goes on.                                      *)
LEMMA MovesAside ==
  ASSUME Inv, NEW c \in Call, NEW next \in {"respond", "live", "iterating", "set"},
         at[c] \in {"admitted", "live"}, at' = [at EXCEPT ![c] = next],
         ~Recording(c), next = "set" => On(c, {"posture", "reset_posture"}),
         UNCHANGED <<settings, answer, decision, decisions, mirror>>,
         lock' \in Call \cup {None}
  PROVE  Inv'
<1>1. TypeOK /\ \A d \in Call : CallInv(d)
  BY DEF Inv
<1>2. TypeOK'
  BY <1>1 DEF TypeOK, settings, mirror
<1>3. at'[c] = next
  BY <1>1 DEF TypeOK
<1>4. CallInv(c)'
  <2>1. CallInv(c)
    BY <1>1
  <2>2. request' = request /\ keys' = keys /\ read_auth' = read_auth
    BY DEF settings
  <2>3. PastItsGuard(c)'
    BY <1>3, <2>1, <2>2 DEF CallInv, PastItsGuard, Passes, Recording, On, require_api_key
  <2>4. OnRecord(c)'
    BY <1>3, <2>1, <2>2 DEF CallInv, OnRecord, Recording, On
  <2>5. Auditable(c)' /\ Mirrored(c)'
    BY <2>1, <2>2 DEF CallInv, Auditable, Mirrored, On, mirror
  <2> QED
    BY <2>3, <2>4, <2>5 DEF CallInv
<1>5. ASSUME NEW d \in Call, d # c PROVE CallInv(d)'
  BY <1>1, <1>5, Apart DEF TypeOK, mirror
<1> QED
  BY <1>2, <1>4, <1>5 DEF Inv

(* The guard lets a call through, or not.                                    *)
LEMMA GuardSteps ==
  ASSUME Inv, NEW c \in Call, Admit(c) \/ Refuse(c)
  PROVE  Inv'
<1>1. TypeOK /\ \A d \in Call : CallInv(d)
  BY DEF Inv
<1>2. CASE Admit(c)
  <2>1. /\ at[c] = "new" /\ at' = [at EXCEPT ![c] = "admitted"] /\ Passes(c)
        /\ UNCHANGED <<settings, answer, lock, decision, decisions, mirror>>
    BY <1>2 DEF Admit, To, governance
  <2>2. TypeOK'
    BY <1>1, <2>1 DEF TypeOK, settings, mirror
  <2>3. at'[c] = "admitted" /\ CallInv(c)
    BY <1>1, <2>1 DEF TypeOK
  <2>4. CallInv(c)'
    BY <2>1, <2>3 DEF CallInv, PastItsGuard, OnRecord, Auditable, Mirrored, Passes, Recording, On,
       require_api_key, settings, mirror
  <2>5. ASSUME NEW d \in Call, d # c PROVE CallInv(d)'
    BY <1>1, <2>1, <2>5, Apart DEF TypeOK, mirror
  <2> QED
    BY <2>2, <2>4, <2>5 DEF Inv
<1>3. CASE Refuse(c)
  <2>1. /\ at' = [at EXCEPT ![c] = "done"]
        /\ UNCHANGED <<settings, lock, decision, decisions, mirror>>
    BY <1>3 DEF Refuse, To, governance
  <2>2. lock' \in Call \cup {None}
    BY <1>1, <2>1 DEF TypeOK
  <2>3. ASSUME NEW code \in {401, 503}, Answer(c, code) PROVE Inv'
    <3>1. code \in Codes
      BY DEF Codes
    <3>2. code \in {200, 403} => ~Recording(c)
      OBVIOUS
    <3>3. UNCHANGED <<settings, decision, decisions, mirror>>
      BY <2>1
    <3> QED
      BY <2>1, <2>2, <2>3, <3>1, <3>2, <3>3, EndsAside, Zenon
  <2> QED
    BY <1>3, <2>3 DEF Refuse
<1> QED
  BY <1>2, <1>3

(* The decision is made under the lock and not on record yet.                *)
LEMMA DecideStep ==
  ASSUME Inv, NEW c \in Call, NEW v \in Verdicts, Decide(c, v)
  PROVE  Inv'
<1>1. TypeOK /\ CallInv(c) /\ \A d \in Call : CallInv(d)
  BY DEF Inv
<1>2. PICK next \in {"decided", "raised"} : at' = [at EXCEPT ![c] = next]
  BY DEF Decide, To
<1>3. /\ at[c] = "admitted" /\ Recording(c) /\ lock' = c
      /\ decision' = [decision EXCEPT ![c] = v]
      /\ UNCHANGED <<settings, answer, decisions, mirror>>
  BY DEF Decide, To, Recording
<1>4. TypeOK'
  BY <1>1, <1>2, <1>3 DEF TypeOK, settings, mirror
<1>5. at'[c] = next /\ decision'[c] = v
  BY <1>1, <1>2, <1>3 DEF TypeOK
<1>6. PastItsGuard(c)'
  BY <1>1, <1>3, <1>5 DEF CallInv, PastItsGuard, Passes, Recording, On, require_api_key, settings
<1>7. OnRecord(c)' /\ Auditable(c)' /\ Mirrored(c)'
  BY <1>1, <1>3, <1>5 DEF CallInv, OnRecord, Auditable, Mirrored, Recording, On, settings, mirror
<1>8. ASSUME NEW d \in Call, d # c PROVE CallInv(d)'
  BY <1>1, <1>2, <1>3, <1>8, Apart DEF TypeOK, mirror
<1> QED
  BY <1>4, <1>6, <1>7, <1>8 DEF Inv, CallInv

(* What is appended is what was decided, and the call goes on only then.     *)
LEMMA AppendSteps ==
  ASSUME Inv, NEW c \in Call, AppendDecision(c) \/ AppendTransition(c)
  PROVE  Inv'
<1>1. TypeOK /\ CallInv(c) /\ \A d \in Call : CallInv(d)
  BY DEF Inv
<1>2. PICK next \in {"logged", "run", "respond"} :
        /\ at' = [at EXCEPT ![c] = next]
        /\ next = "run" => On(c, {"create_run"})
  BY DEF AppendDecision, AppendTransition, To, AfterEvaluate
<1>3. /\ at[c] \in {"decided", "raised", "logged"}
      /\ lock' \in {lock, None}
      /\ decisions' = [decisions EXCEPT ![c] = decision[c]] \/ decisions' = decisions
      /\ at[c] # "logged" => decisions' = [decisions EXCEPT ![c] = decision[c]]
      /\ UNCHANGED <<settings, answer, decision, mirror>>
  BY DEF AppendDecision, AppendTransition, To
<1>4. Recording(c) /\ Passes(c) /\ decision[c] \in Verdicts /\ answer[c] = None
  BY <1>1, <1>3 DEF CallInv, PastItsGuard, OnRecord
<1>5. at'[c] = next /\ decisions'[c] = decision[c]
  BY <1>1, <1>2, <1>3, <1>4 DEF TypeOK, CallInv, OnRecord
<1>6. TypeOK'
  BY <1>1, <1>2, <1>3, <1>4 DEF TypeOK, settings, mirror
<1>7. request' = request /\ keys' = keys /\ read_auth' = read_auth
  BY <1>3 DEF settings
<1>8. PastItsGuard(c)'
  BY <1>2, <1>4, <1>5, <1>7 DEF PastItsGuard, Passes, Recording, On, require_api_key
<1>9. OnRecord(c)' /\ Auditable(c)'
  BY <1>3, <1>4, <1>5, <1>7, NoneAssumption DEF OnRecord, Auditable, Recording, On, Codes
<1>10. Mirrored(c)'
  <2>1. decisions[c] # None => decisions'[c] = decisions[c]
    BY <1>1, <1>3, <1>5 DEF CallInv, OnRecord
  <2> QED
    BY <1>1, <1>3, <2>1 DEF CallInv, Mirrored, mirror
<1>11. ASSUME NEW d \in Call, d # c PROVE CallInv(d)'
  BY <1>1, <1>2, <1>3, <1>11, Apart DEF TypeOK, mirror
<1> QED
  BY <1>6, <1>8, <1>9, <1>10, <1>11 DEF Inv, CallInv

(* The mirror's rows are of the decision that is on record.                  *)
LEMMA MirrorSteps ==
  ASSUME Inv, NEW c \in Call, write_run(c) \/ write_evidence(c)
  PROVE  Inv'
<1>1. TypeOK /\ CallInv(c) /\ \A d \in Call : CallInv(d)
  BY DEF Inv
<1>2. PICK next \in {"evidence", "respond"} : at' = [at EXCEPT ![c] = next]
  BY DEF write_run, write_evidence, To
<1>3. /\ at[c] \in {"run", "evidence"}
      /\ \/ execution_runs' = execution_runs
         \/ execution_runs' = [execution_runs EXCEPT ![c] = run_status(decision[c])]
      /\ \/ evidence_ledger' = evidence_ledger
         \/ evidence_ledger' = [evidence_ledger EXCEPT ![c] = decision[c]]
      /\ UNCHANGED <<settings, answer, lock, decision, decisions>>
  BY DEF write_run, write_evidence, To, governance
<1>4. /\ On(c, {"create_run"}) /\ Passes(c) /\ answer[c] = None
      /\ decision[c] \in Verdicts /\ decisions[c] = decision[c]
  BY <1>1, <1>3 DEF CallInv, PastItsGuard, OnRecord
<1>5. run_status(decision[c]) \in Statuses
  BY DEF run_status, Statuses
<1>6. TypeOK'
  <2>1. execution_runs' \in [Call -> Statuses \cup {None}]
    BY <1>1, <1>3, <1>5 DEF TypeOK
  <2>2. evidence_ledger' \in [Call -> Verdicts \cup {None}]
    BY <1>1, <1>3, <1>4 DEF TypeOK
  <2> QED
    BY <1>1, <1>2, <1>3, <2>1, <2>2 DEF TypeOK, settings
<1>7. at'[c] = next
  BY <1>1, <1>2 DEF TypeOK
<1>8. request' = request /\ keys' = keys /\ read_auth' = read_auth
  BY <1>3 DEF settings
<1>9. PastItsGuard(c)'
  BY <1>4, <1>7, <1>8 DEF PastItsGuard, Passes, Recording, On, require_api_key
<1>10. OnRecord(c)' /\ Auditable(c)'
  BY <1>3, <1>4, <1>7, <1>8, NoneAssumption DEF OnRecord, Auditable, Recording, On, Codes
<1>11. Mirrored(c)'
  <2>1. execution_runs'[c] # None =>
          (execution_runs'[c] = "policy_approved" <=> decisions'[c] = "allow")
    BY <1>1, <1>3, <1>4 DEF CallInv, Mirrored, TypeOK, run_status
  <2>2. evidence_ledger'[c] # None => evidence_ledger'[c] = decisions'[c]
    BY <1>1, <1>3, <1>4 DEF CallInv, Mirrored, TypeOK
  <2> QED
    BY <1>3, <1>4, <2>1, <2>2, NoneAssumption DEF Mirrored
<1>12. ASSUME NEW d \in Call, d # c PROVE CallInv(d)'
  BY <1>1, <1>2, <1>3, <1>12, Apart DEF TypeOK
<1> QED
  BY <1>6, <1>9, <1>10, <1>11, <1>12 DEF Inv, CallInv

(* A recording call answers the verdict it has on record.                    *)
LEMMA RespondStep ==
  ASSUME Inv, NEW c \in Call, Respond(c)
  PROVE  Inv'
<1>1. TypeOK /\ CallInv(c) /\ \A d \in Call : CallInv(d)
  BY DEF Inv
<1>2. /\ at[c] = "respond" /\ at' = [at EXCEPT ![c] = "done"]
      /\ UNCHANGED <<settings, lock, decision, decisions, mirror>>
  BY DEF Respond, To, governance
<1>3. CASE ~Recording(c)
  <2>1. Answer(c, 200)
    BY <1>3 DEF Respond, Recording, On
  <2>2. 200 \in Codes /\ lock' \in Call \cup {None}
    BY <1>1, <1>2 DEF Codes, TypeOK
  <2> QED
    BY <1>2, <1>3, <2>1, <2>2, EndsAside
<1>4. CASE Recording(c)
  <2>1. decision[c] \in Verdicts /\ decisions[c] = decision[c]
    BY <1>1, <1>2, <1>4 DEF CallInv, OnRecord
  <2> DEFINE code == IF On(c, {"create_run"}) /\ decision[c] # "allow" THEN 403 ELSE 200
  <2>2. answer' = [answer EXCEPT ![c] = code]
    BY DEF Respond, Answer
  <2>3. TypeOK'
    BY <1>1, <1>2, <2>2 DEF TypeOK, Codes, settings, mirror
  <2>4. at'[c] = "done" /\ answer'[c] = code /\ decisions'[c] = decision[c]
    BY <1>1, <1>2, <2>1, <2>2 DEF TypeOK
  <2>5. PastItsGuard(c)' /\ OnRecord(c)'
    BY <2>4 DEF PastItsGuard, OnRecord
  <2>6. Auditable(c)'
    BY <1>2, <2>1, <2>2, <2>4, NoneAssumption DEF Auditable, On, Verdicts, settings
  <2>7. Mirrored(c)'
    BY <1>1, <1>2 DEF CallInv, Mirrored, mirror
  <2>8. ASSUME NEW d \in Call, d # c PROVE CallInv(d)'
    BY <1>1, <1>2, <2>2, <2>8, Apart DEF TypeOK, mirror
  <2> QED
    BY <2>3, <2>5, <2>6, <2>7, <2>8 DEF Inv, CallInv
<1> QED
  BY <1>3, <1>4

(* An append that raises ends the call without a verdict.                    *)
LEMMA AppendRaisesStep ==
  ASSUME Inv, NEW c \in Call, AppendRaises(c)
  PROVE  Inv'
<1>1. at' = [at EXCEPT ![c] = "done"] /\ Answer(c, 500) /\ lock' = None
  BY DEF AppendRaises
<1>2. UNCHANGED <<settings, decision, decisions, mirror>>
  BY DEF AppendRaises, governance
<1>3. 500 \in Codes /\ lock' \in Call \cup {None}
  BY <1>1 DEF Codes
<1>4. 500 \in {200, 403} => ~Recording(c)
  OBVIOUS
<1> QED
  BY <1>1, <1>2, <1>3, <1>4, EndsAside, Zenon

(* An evaluation that raises has nothing on record.                          *)
LEMMA EvaluateRaisesStep ==
  ASSUME Inv, NEW c \in Call, EvaluateRaises(c)
  PROVE  Inv'
<1>1. at' = [at EXCEPT ![c] = "done"] /\ Answer(c, 500) /\ lock' = lock
  BY DEF EvaluateRaises, To
<1>2. UNCHANGED <<settings, decision, decisions, mirror>>
  BY DEF EvaluateRaises, governance
<1>3. 500 \in Codes /\ lock' \in Call \cup {None}
  BY <1>1 DEF Codes, Inv, TypeOK
<1>4. 500 \in {200, 403} => ~Recording(c)
  OBVIOUS
<1> QED
  BY <1>1, <1>2, <1>3, <1>4, EndsAside, Zenon

(* set_posture, reset_posture and the row they append.                       *)
LEMMA PostureSteps ==
  ASSUME Inv, NEW c \in Call, (\E q \in BOOLEAN : SetPosture(c, q)) \/ AppendSetting(c)
  PROVE  Inv'
<1>1. TypeOK /\ CallInv(c) /\ 200 \in Codes
  BY DEF Inv, Codes
<1>2. UNCHANGED <<settings, decision, decisions, mirror>>
  BY DEF SetPosture, AppendSetting
<1>3. ASSUME NEW q \in BOOLEAN, SetPosture(c, q)
      PROVE  Inv'
  <2>1. On(c, {"posture", "reset_posture"}) /\ ~Recording(c) /\ at[c] = "admitted"
    BY <1>3 DEF SetPosture, On, Recording, To
  <2>2. lock' \in Call \cup {None}
    BY <1>1, <1>3 DEF SetPosture, TypeOK
  <2>3. CASE locked = q
    <3>1. at' = [at EXCEPT ![c] = "done"] /\ Answer(c, 200)
      BY <1>3, <2>3 DEF SetPosture, To
    <3> QED
      BY <1>1, <1>2, <2>1, <2>2, <3>1, EndsAside
  <2>4. CASE locked # q
    <3>1. at' = [at EXCEPT ![c] = "set"] /\ UNCHANGED answer
      BY <1>3, <2>4 DEF SetPosture, To
    <3> QED
      BY <1>2, <2>1, <2>2, <3>1, MovesAside
  <2> QED
    BY <2>3, <2>4
<1>4. CASE AppendSetting(c)
  <2>1. /\ at[c] = "set" /\ at' = [at EXCEPT ![c] = "done"]
        /\ Answer(c, 200) /\ lock' \in Call \cup {None}
    BY <1>4 DEF AppendSetting, To
  <2>2. ~Recording(c)
    BY <1>1, <2>1 DEF CallInv, PastItsGuard, On, Recording
  <2> QED
    BY <1>1, <1>2, <2>1, <2>2, EndsAside
<1> QED
  BY <1>3, <1>4

(* The routes that answer in one step, or set the environment or the rules.  *)
LEMMA OtherRoutes ==
  ASSUME Inv, NEW c \in Call, SetEnvironment(c) \/ WritePolicy(c) \/ Simulate(c) \/ Simple(c)
  PROVE  Inv'
<1>1. ~Recording(c)
  BY DEF SetEnvironment, WritePolicy, Simulate, Simple, Plain, Malformed, On, Recording
<1>2. /\ at' = [at EXCEPT ![c] = "done"]
      /\ lock' = lock
      /\ UNCHANGED <<settings, decision, decisions, mirror>>
  BY DEF SetEnvironment, WritePolicy, Simulate, Simple, To, governance
<1>3. lock' \in Call \cup {None}
  BY <1>2 DEF Inv, TypeOK
<1>4. \E code \in Codes : Answer(c, code)
  BY DEF SetEnvironment, WritePolicy, Simulate, Simple, Plain, Malformed, Codes
<1> QED
  BY <1>1, <1>2, <1>3, <1>4, EndsAside

(* Summaries read, and say nothing of a verdict.                             *)
LEMMA ReadSteps ==
  ASSUME Inv, NEW c \in Call, ReadLog(c) \/ ReadRaises(c) \/ ReadLive(c) \/ EndLive(c)
  PROVE  Inv'
<1>1. TypeOK /\ CallInv(c)
  BY DEF Inv
<1>2. /\ lock' = lock
      /\ UNCHANGED <<settings, decision, decisions, mirror>>
  BY DEF ReadLog, ReadRaises, ReadLive, EndLive, governance
<1>3. lock' \in Call \cup {None}
  BY <1>1, <1>2 DEF TypeOK
<1>4. ~Recording(c)
  BY <1>1 DEF ReadLog, ReadRaises, ReadLive, EndLive, To, CallInv, PastItsGuard, On, Recording
<1>5. CASE ReadLog(c) \/ ReadLive(c)
  <2>1. answer' = answer /\ at[c] \in {"admitted", "live"}
    BY <1>5 DEF ReadLog, ReadLive, To
  <2>2. \E next \in {"respond", "live", "iterating"} : at' = [at EXCEPT ![c] = next]
    BY <1>5 DEF ReadLog, ReadLive, To, AfterLog
  <2> QED
    BY <1>2, <1>3, <1>4, <2>1, <2>2, MovesAside
<1>6. CASE ReadRaises(c) \/ EndLive(c)
  <2>1. at' = [at EXCEPT ![c] = "done"]
    BY <1>6 DEF ReadRaises, EndLive, To
  <2>2. \E code \in Codes : Answer(c, code)
    BY <1>6 DEF ReadRaises, EndLive, Codes
  <2> QED
    BY <1>2, <1>3, <1>4, <2>1, <2>2, EndsAside
<1> QED
  BY <1>5, <1>6

(* Calls under way end without an answer; what is on record stays.           *)
LEMMA RestartStep ==
  ASSUME Inv, Restart
  PROVE  Inv'
<1>1. TypeOK /\ \A c \in Call : CallInv(c)
  BY DEF Inv
<1>2. UNCHANGED <<settings, answer, decisions, mirror>>
  BY DEF Restart
<1>3. TypeOK'
  BY <1>1, <1>2 DEF Restart, TypeOK, settings, mirror
<1>4. ASSUME NEW c \in Call PROVE CallInv(c)'
  <2>1. CallInv(c)
    BY <1>1
  <2>2. at'[c] = (IF at[c] = "new" THEN "new" ELSE "done")
    BY DEF Restart
  <2>3. PastItsGuard(c)' /\ OnRecord(c)'
    BY <1>2, <2>1, <2>2 DEF CallInv, PastItsGuard, OnRecord, mirror
  <2>4. Auditable(c)' /\ Mirrored(c)'
    BY <1>2, <2>1 DEF CallInv, Auditable, Mirrored, On, settings, mirror
  <2> QED
    BY <2>3, <2>4 DEF CallInv
<1> QED
  BY <1>3, <1>4 DEF Inv

(* The invariant holds of every behaviour.                                   *)
THEOREM Invariance == Spec => []Inv
<1>1. Init => Inv
  <2> SUFFICES ASSUME Init PROVE Inv
    OBVIOUS
  <2>1. TypeOK
    BY DEF Init, TypeOK
  <2>2. ASSUME NEW c \in Call PROVE CallInv(c)
    BY NoneAssumption DEF Init, CallInv, PastItsGuard, OnRecord, Auditable, Mirrored, Codes
  <2> QED
    BY <2>1, <2>2 DEF Inv
<1>2. Inv /\ [Next]_vars => Inv'
  <2> SUFFICES ASSUME Inv, [Next]_vars
               PROVE  Inv'
    OBVIOUS
  <2>1. ASSUME NEW c \in Call, Admit(c) \/ Refuse(c)
        PROVE  Inv'
    BY <2>1, GuardSteps
  <2>2. ASSUME NEW c \in Call, Step(c)
        PROVE  Inv'
    BY <2>2, DecideStep, EvaluateRaisesStep, AppendSteps, AppendRaisesStep, MirrorSteps, RespondStep, PostureSteps,
       OtherRoutes, ReadSteps DEF Step
  <2>3. CASE UNCHANGED vars
    <3>1. TypeOK /\ \A d \in Call : CallInv(d)
      BY DEF Inv
    <3>2. UNCHANGED <<settings, at, answer, lock, decision, decisions, mirror>>
      BY <2>3 DEF vars, governance
    <3>3. TypeOK'
      BY <3>1, <3>2 DEF TypeOK, settings, mirror
    <3>4. ASSUME NEW d \in Call PROVE CallInv(d)'
      BY <3>1, <3>2, Apart DEF mirror
    <3> QED
      BY <3>3, <3>4 DEF Inv
  <2> QED
    BY <2>1, <2>2, <2>3, RestartStep DEF Next
<1> QED
  BY <1>1, <1>2, PTL DEF Spec

(* For any number of calls side by side: a verdict that a recording route    *)
(* answered is in the local log (api.py:276-277).                            *)
THEOREM VerdictsAreOnRecord == Spec => []AnswersAreAuditable
<1>1. Inv => AnswersAreAuditable
  BY DEF Inv, CallInv, AnswersAreAuditable
<1> QED
  BY <1>1, Invariance, PTL

(* The mirror's rows are of decisions on record, and of the same call        *)
(* (supabase.py:105-109).                                                    *)
THEOREM MirrorIsFaithful == Spec => []MirrorFollowsLog
<1>1. Inv => MirrorFollowsLog
  BY DEF Inv, CallInv, MirrorFollowsLog
<1> QED
  BY <1>1, Invariance, PTL

(* A call that changes what the process decides by was vouched for.          *)
LEMMA GovernanceSteps ==
  ASSUME Inv, NEW c \in Call, Step(c), governance' # governance
  PROVE  at'[c] # at[c] /\ Vouched(c)
<1>1. TypeOK /\ CallInv(c)
  BY DEF Inv
<1>2. \/ \E v \in Verdicts : Decide(c, v)
      \/ AppendDecision(c) \/ AppendTransition(c)
      \/ \E q \in BOOLEAN : SetPosture(c, q)
      \/ AppendSetting(c) \/ SetEnvironment(c) \/ WritePolicy(c)
  BY DEF Step, EvaluateRaises, AppendRaises, write_run, write_evidence, Respond, Simulate, Simple, ReadLog,
     ReadRaises, ReadLive, EndLive
<1>3. at[c] \in {"admitted", "decided", "raised", "logged", "set"} /\ at'[c] # at[c]
  <2>1. \E from \in {"admitted", "decided", "raised", "logged", "set"},
           next \in {"decided", "raised", "logged", "run", "respond", "set", "done"} :
          To(c, from, next) /\ from # next
    <3>1. CASE \E v \in Verdicts : Decide(c, v)
      BY <3>1 DEF Decide, To
    <3>2. CASE AppendDecision(c) \/ AppendTransition(c)
      BY <3>2 DEF AppendDecision, AppendTransition, To, AfterEvaluate
    <3>3. CASE \E q \in BOOLEAN : SetPosture(c, q)
      BY <3>3 DEF SetPosture, To
    <3>4. CASE AppendSetting(c) \/ SetEnvironment(c) \/ WritePolicy(c)
      BY <3>4 DEF AppendSetting, SetEnvironment, WritePolicy, To
    <3> QED
      BY <1>2, <3>1, <3>2, <3>3, <3>4
  <2> QED
    BY <1>1, <2>1 DEF To, TypeOK
<1>4. On(c, {"evaluate", "create_run", "posture", "reset_posture", "set_environment",
             "upsert_policy", "delete_policy"})
  BY <1>1, <1>2 DEF Decide, AppendDecision, AppendTransition, SetPosture, AppendSetting,
     SetEnvironment, WritePolicy, To, CallInv, PastItsGuard, Recording, On
<1>5. Passes(c)
  BY <1>1, <1>3 DEF CallInv, PastItsGuard
<1> QED
  BY <1>3, <1>4, <1>5 DEF Passes, Vouched, On, ControlRoutes, ReadRoutes, OpenRoutes,
     require_api_key

(* However many calls interleave, only a call with a configured key, or of a *)
(* user Supabase vouches for, moves the posture, the environment, the rules, *)
(* the graph or the log (api.py:164-166, 189-191, auth.py:5-7).              *)
THEOREM GuardsFailClosed == Spec => OnlyVouchedCallsGovern
<1>1. Inv /\ [Next]_vars => [governance' # governance =>
                               Restart \/ \E c \in Call : at'[c] # at[c] /\ Vouched(c)]_vars
  <2> SUFFICES ASSUME Inv, Next, governance' # governance
               PROVE  Restart \/ \E c \in Call : at'[c] # at[c] /\ Vouched(c)
    OBVIOUS
  <2>1. ASSUME NEW c \in Call, Admit(c) \/ Refuse(c) PROVE FALSE
    BY <2>1 DEF Admit, Refuse
  <2>2. ASSUME NEW c \in Call, Step(c) PROVE at'[c] # at[c] /\ Vouched(c)
    BY <2>2, GovernanceSteps
  <2> QED
    BY <2>1, <2>2 DEF Next
<1> QED
  BY <1>1, Invariance, PTL DEF Spec, OnlyVouchedCallsGovern

-----------------------------------------------------------------------------
(* Summaries taken while decisions are recorded. *)

Reports == [rows : SUBSET Call, live : SUBSET Call]

(* A decision is in the graph before it is in the log, except those that were *)
(* there when the process started.                                           *)
GraphLeads ==
  /\ inherited \subseteq Logged /\ graph \subseteq Call
  /\ Logged \ inherited \subseteq graph
  /\ \A c \in Call : at[c] \in {"decided", "raised"} => c \in graph

(* What a reading call has read, by how far it is.                           *)
Reading(c) ==
  /\ at[c] = "respond" => ~On(c, {"audit"})
  /\ On(c, {"audit"}) =>
       /\ at[c] = "live" => report[c].rows \ inherited \subseteq graph
       /\ at[c] = "iterating" \/ answer[c] = 200 =>
            report[c].rows \ inherited \subseteq report[c].live

AuditInv ==
  /\ report \in [Call -> Reports]
  /\ GraphLeads
  /\ \A c \in Call : Reading(c)

(* Steps of other calls only add to the graph.                               *)
LEMMA ReadingApart ==
  ASSUME NEW d \in Call, Reading(d), request' = request,
         at'[d] = at[d], answer'[d] = answer[d], report'[d] = report[d],
         inherited \subseteq inherited', graph \subseteq graph'
  PROVE  Reading(d)'
BY DEF Reading, On

(* The graph goes first, the log follows.                                    *)
LEMMA GraphLeadsStep ==
  ASSUME Inv, GraphLeads, NEW c \in Call, Admit(c) \/ Refuse(c) \/ Step(c)
  PROVE  GraphLeads' /\ inherited' = inherited /\ graph \subseteq graph'
<1>1. TypeOK
  BY DEF Inv
<1>2. ASSUME NEW v \in Verdicts, Decide(c, v)
      PROVE  GraphLeads' /\ inherited' = inherited /\ graph \subseteq graph'
  <2>1. /\ graph' = graph \cup {c}
        /\ inherited' = inherited /\ decisions' = decisions
        /\ \A d \in Call : d # c => at'[d] = at[d]
    BY <1>2 DEF Decide, To
  <2> QED
    BY <2>1 DEF GraphLeads, Logged
<1>3. CASE AppendDecision(c)
  <2>1. /\ at[c] \in {"decided", "raised"} /\ c \in graph
        /\ at'[c] \notin {"decided", "raised"}
        /\ \A d \in Call : d # c => at'[d] = at[d]
    BY <1>1, <1>3 DEF AppendDecision, To, AfterEvaluate, GraphLeads, TypeOK
  <2>2. /\ decisions'[c] = decision[c]
        /\ \A d \in Call : d # c => decisions'[d] = decisions[d]
        /\ graph' = graph /\ inherited' = inherited
    BY <1>1, <1>3 DEF AppendDecision, TypeOK, memory
  <2>3. decision[c] # None
    BY <2>1, NoneAssumption DEF Inv, CallInv, OnRecord
  <2> QED
    BY <2>1, <2>2, <2>3 DEF GraphLeads, Logged
<1>4. ASSUME UNCHANGED <<decisions, graph, inherited>>,
             at'[c] \notin {"decided", "raised"}, \A d \in Call : d # c => at'[d] = at[d]
      PROVE  GraphLeads' /\ inherited' = inherited /\ graph \subseteq graph'
  BY <1>4 DEF GraphLeads, Logged
<1>5. CASE Admit(c) \/ Refuse(c)
  BY <1>1, <1>4, <1>5 DEF Admit, Refuse, To, TypeOK, governance, memory
<1>6. CASE AppendTransition(c) \/ EvaluateRaises(c) \/ AppendRaises(c) \/ AppendSetting(c)
  BY <1>1, <1>4, <1>6 DEF AppendTransition, EvaluateRaises, AppendRaises, AppendSetting, AfterEvaluate, To, TypeOK,
     governance, memory
<1>7. CASE write_run(c) \/ write_evidence(c) \/ Respond(c)
  BY <1>1, <1>4, <1>7 DEF write_run, write_evidence, Respond, To, TypeOK, governance, memory
<1>8. CASE \E q \in BOOLEAN : SetPosture(c, q)
  BY <1>1, <1>4, <1>8 DEF SetPosture, To, TypeOK
<1>9. CASE SetEnvironment(c) \/ WritePolicy(c) \/ Simulate(c) \/ Simple(c)
  BY <1>1, <1>4, <1>9 DEF SetEnvironment, WritePolicy, Simulate, Simple, To, TypeOK, governance, memory
<1>10. CASE ReadLog(c) \/ ReadRaises(c) \/ ReadLive(c) \/ EndLive(c)
  BY <1>1, <1>4, <1>10 DEF ReadLog, ReadRaises, ReadLive, EndLive, AfterLog, To, TypeOK,
     governance, memory
<1> QED
  BY <1>2, <1>3, <1>5, <1>6, <1>7, <1>8, <1>9, <1>10 DEF Step

(* Every step is of one call, and only a reading one changes its report.     *)
LEMMA ReportSteps ==
  ASSUME Inv, AuditInv, NEW c \in Call, Admit(c) \/ Refuse(c) \/ Step(c)
  PROVE  /\ request' = request
         /\ \A d \in Call : d # c =>
              at'[d] = at[d] /\ answer'[d] = answer[d] /\ report'[d] = report[d]
         /\ report' = report \/ ReadLog(c) \/ ReadLive(c)
<1>1. TypeOK /\ report \in [Call -> Reports]
  BY DEF Inv, AuditInv
<1>2. request' = request /\ (report' = report \/ ReadLog(c) \/ ReadLive(c))
  BY DEF Admit, Refuse, Step, Decide, AppendDecision, AppendTransition, EvaluateRaises, AppendRaises, write_run,
     write_evidence, Respond, SetPosture, AppendSetting, SetEnvironment, WritePolicy, Simulate,
     Simple, ReadLog, ReadRaises, ReadLive, EndLive, settings
<1>3. \E next : at' = [at EXCEPT ![c] = next]
  BY DEF Admit, Refuse, Step, Decide, AppendDecision, AppendTransition, EvaluateRaises, AppendRaises, write_run,
     write_evidence, Respond, SetPosture, AppendSetting, SetEnvironment, WritePolicy, Simulate,
     Simple, ReadLog, ReadRaises, ReadLive, EndLive, To
<1>4. answer' = answer \/ \E code : Answer(c, code)
  <2>1. CASE \/ Admit(c) \/ \E v \in Verdicts : Decide(c, v)
             \/ AppendDecision(c) \/ AppendTransition(c)
             \/ write_run(c) \/ write_evidence(c) \/ ReadLog(c) \/ ReadLive(c)
    BY <2>1 DEF Admit, Decide, AppendDecision, AppendTransition, write_run, write_evidence,
       ReadLog, ReadLive
  <2>2. CASE Refuse(c) \/ EvaluateRaises(c) \/ AppendRaises(c) \/ Respond(c) \/ AppendSetting(c)
    BY <2>2 DEF Refuse, EvaluateRaises, AppendRaises, Respond, AppendSetting
  <2>3. CASE \E q \in BOOLEAN : SetPosture(c, q)
    BY <2>3 DEF SetPosture
  <2>4. CASE SetEnvironment(c) \/ WritePolicy(c) \/ Simulate(c) \/ Simple(c)
    BY <2>4 DEF SetEnvironment, WritePolicy, Simulate, Simple, Plain, Malformed
  <2>5. CASE ReadRaises(c) \/ EndLive(c)
    BY <2>5 DEF ReadRaises, EndLive
  <2> QED
    BY <2>1, <2>2, <2>3, <2>4, <2>5 DEF Step
<1>5. \A d \in Call : d # c => at'[d] = at[d]
  BY <1>1, <1>3 DEF TypeOK
<1>6. \A d \in Call : d # c => answer'[d] = answer[d]
  BY <1>1, <1>4 DEF TypeOK, Answer
<1>7. \A d \in Call : d # c => report'[d] = report[d]
  BY <1>1, <1>2 DEF ReadLog, ReadLive
<1> QED
  BY <1>2, <1>5, <1>6, <1>7

(* What an audit can do, by where it is.                                     *)
LEMMA AuditSteps ==
  ASSUME Inv, NEW c \in Call, Reading(c), On(c, {"audit"}), Admit(c) \/ Refuse(c) \/ Step(c)
  PROVE  \/ Admit(c) \/ Refuse(c)
         \/ ReadLog(c) \/ ReadRaises(c) \/ ReadLive(c) \/ EndLive(c)
<1>1. CallInv(c)
  BY DEF Inv
<1>2. at[c] \notin {"decided", "raised", "logged", "set", "run", "evidence", "respond"}
  BY <1>1 DEF CallInv, PastItsGuard, Recording, On, Reading
<1> QED
  BY <1>2 DEF Step, Decide, AppendDecision, AppendTransition, EvaluateRaises, AppendRaises, write_run,
     write_evidence, Respond, SetPosture, AppendSetting, SetEnvironment, WritePolicy, Simulate,
     Simple, Plain, Malformed, To, On, Appending

(* A step keeps what is known of its own reading.                            *)
LEMMA OwnReading ==
  ASSUME Inv, AuditInv, NEW c \in Call, Admit(c) \/ Refuse(c) \/ Step(c)
  PROVE  report' \in [Call -> Reports] /\ Reading(c)'
<1>1. /\ TypeOK /\ CallInv(c) /\ Reading(c)
      /\ report \in [Call -> Reports] /\ GraphLeads
  BY DEF Inv, AuditInv
<1>2. /\ request' = request /\ inherited' = inherited /\ graph \subseteq graph'
      /\ report' = report \/ ReadLog(c) \/ ReadLive(c)
  BY <1>1, ReportSteps, GraphLeadsStep
<1>3. CASE ReadLog(c)
  <2> DEFINE r == [report[c] EXCEPT !.rows = Logged]
  <2>1. report' = [report EXCEPT ![c] = r]
    BY <1>1, <1>3 DEF ReadLog
  <2>2. /\ r \in Reports /\ r.rows = Logged
    <3>1. Logged \in SUBSET Call /\ report[c] \in Reports
      BY <1>1 DEF Logged
    <3> HIDE DEF Logged
    <3> QED BY <3>1 DEF Reports
  <2>3. /\ at[c] = "admitted" /\ at'[c] = AfterLog(c) /\ answer' = answer
        /\ graph' = graph
    BY <1>1, <1>3 DEF ReadLog, To, TypeOK, governance, memory
  <2>4. report' \in [Call -> Reports] /\ report'[c] = r
    BY <1>1, <2>1, <2>2
  <2> HIDE DEF r
  <2>5. On(c, {"audit"}) => at'[c] = "live"
    BY <2>3 DEF AfterLog
  <2>6. ~On(c, {"audit"}) => at'[c] = "respond"
    BY <2>3 DEF AfterLog
  <2>7. answer'[c] = None /\ answer'[c] # 200
    BY <1>1, <2>3, NoneAssumption DEF CallInv, OnRecord, Codes
  <2>8. r.rows \ inherited' \subseteq graph'
    BY <1>1, <1>2, <2>2 DEF GraphLeads
  <2>9. Reading(c)'
    BY <1>2, <2>2, <2>4, <2>5, <2>6, <2>7, <2>8 DEF Reading, On
  <2> QED
    BY <2>4, <2>9
<1>4. CASE ReadLive(c)
  <2> DEFINE r == [report[c] EXCEPT !.live = graph]
  <2>1. report' = [report EXCEPT ![c] = r]
    BY <1>1, <1>4 DEF ReadLive
  <2>2. /\ r \in Reports /\ r.live = graph
        /\ r.rows = report[c].rows
    BY <1>1 DEF Reports, GraphLeads
  <2>3. at'[c] = "iterating" /\ (On(c, {"audit"}) => at[c] = "live")
    BY <1>1, <1>4 DEF ReadLive, To, TypeOK, On
  <2>4. report' \in [Call -> Reports] /\ report'[c] = r
    BY <1>1, <2>1, <2>2
  <2> HIDE DEF r
  <2>5. Reading(c)'
    BY <1>1, <1>2, <2>2, <2>3, <2>4 DEF Reading, On
  <2> QED
    BY <2>4, <2>5
<1>5. CASE report' = report /\ ~On(c, {"audit"})
  BY <1>1, <1>2, <1>5 DEF Reading, On
<1>6. CASE report' = report /\ On(c, {"audit"}) /\ ~ReadLog(c) /\ ~ReadLive(c)
  <2>1. Admit(c) \/ Refuse(c) \/ ReadRaises(c) \/ EndLive(c)
    BY <1>1, <1>6, AuditSteps
  <2>2. at'[c] \in {"admitted", "done"}
    BY <1>1, <2>1 DEF Admit, Refuse, ReadRaises, EndLive, To, TypeOK
  <2>3. answer'[c] = 200 => at[c] = "iterating"
    BY <1>1, <2>1, NoneAssumption
       DEF Admit, Refuse, ReadRaises, EndLive, To, TypeOK, Answer, CallInv, OnRecord, Codes
  <2> QED
    BY <1>1, <1>2, <1>6, <2>2, <2>3 DEF Reading, On
<1> QED
  BY <1>2, <1>3, <1>4, <1>5, <1>6

(* A restart takes what is on record for what was there before.              *)
LEMMA RestartReading ==
  ASSUME Inv, AuditInv, Restart
  PROVE  AuditInv'
<1>1. TypeOK /\ report \in [Call -> Reports] /\ GraphLeads /\ \A c \in Call : Reading(c)
  BY DEF Inv, AuditInv
<1>2. /\ decisions' = decisions /\ report' = report /\ answer' = answer /\ request' = request
      /\ inherited' = Logged /\ graph' = {}
      /\ at' = [c \in Call |-> IF at[c] = "new" THEN "new" ELSE "done"]
  BY DEF Restart, settings
<1>3. GraphLeads'
  BY <1>2 DEF GraphLeads, Logged
<1>4. ASSUME NEW c \in Call PROVE Reading(c)'
  <2>1. at'[c] \in {"new", "done"} /\ inherited \subseteq inherited'
    BY <1>1, <1>2 DEF GraphLeads
  <2> QED
    BY <1>1, <1>2, <2>1 DEF Reading, On
<1> QED
  BY <1>1, <1>2, <1>3, <1>4 DEF AuditInv

LEMMA AuditHolds == Spec => []AuditInv
<1>1. Init => AuditInv
  <2> SUFFICES ASSUME Init PROVE AuditInv
    OBVIOUS
  <2>1. NoReport \in Reports
    BY DEF NoReport, Reports
  <2>2. report \in [Call -> Reports] /\ \A c \in Call : report[c] = NoReport
    BY <2>1 DEF Init
  <2>3. GraphLeads
    BY DEF Init, GraphLeads, Logged
  <2>4. ASSUME NEW c \in Call PROVE Reading(c)
    <3>1. at[c] = "new" /\ answer[c] # 200
      BY NoneAssumption DEF Init, Codes
    <3> QED
      BY <2>2, <3>1 DEF Reading, NoReport
  <2> QED
    BY <2>2, <2>3, <2>4 DEF AuditInv
<1>2. Inv /\ AuditInv /\ [Next]_vars => AuditInv'
  <2> SUFFICES ASSUME Inv, AuditInv, [Next]_vars PROVE AuditInv'
    OBVIOUS
  <2>1. ASSUME NEW c \in Call, Admit(c) \/ Refuse(c) \/ Step(c) PROVE AuditInv'
    <3>1. GraphLeads' /\ inherited' = inherited /\ graph \subseteq graph'
      BY <2>1, GraphLeadsStep DEF AuditInv
    <3>2. report' \in [Call -> Reports] /\ Reading(c)'
      BY <2>1, OwnReading
    <3>3. ASSUME NEW d \in Call, d # c PROVE Reading(d)'
      BY <2>1, <3>1, <3>3, ReportSteps, ReadingApart DEF AuditInv
    <3> QED
      BY <3>1, <3>2, <3>3 DEF AuditInv
  <2>2. CASE UNCHANGED vars
    BY <2>2 DEF vars, settings, governance, memory, mirror, AuditInv, GraphLeads, Logged, Reading, On
  <2> QED
    BY <2>1, <2>2, RestartReading DEF Next
<1> QED
  BY <1>1, <1>2, Invariance, PTL DEF Spec

(* An audit's live half has every decision of this process that its          *)
(* persisted half lists, for the graph is written before the log and read    *)
(* after it (runtime.py:159-163, 302-310).                                   *)
THEOREM LiveHalfCovers == Spec => []LiveCoversPersisted
<1>1. AuditInv => LiveCoversPersisted
  BY DEF AuditInv, Reading, LiveCoversPersisted
<1> QED
  BY <1>1, AuditHolds, PTL
=============================================================================
