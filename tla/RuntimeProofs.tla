---------------------------- MODULE RuntimeProofs ----------------------------
(***************************************************************************)
(* Theorems about Posture, Runtime and Startup, for any number of          *)
(* processes, any thresholds, any policy, any names and any bounds: the    *)
(* ladder, the runtime's postures, what its files say of one another, and  *)
(* how a runtime comes up.                                                 *)
(***************************************************************************)
EXTENDS Runtime, Startup, FiniteSets, FiniteSetTheorems, TLAPS

-----------------------------------------------------------------------------
(* The posture ladder, for every choice of thresholds. *)

(* Severity is a position 0..3, and tells the postures apart. *)
LEMMA SeverityFacts ==
  /\ \A p \in Postures : posture_severity(p) \in 0 .. 3
  /\ \A p, q \in Postures : posture_severity(p) = posture_severity(q) => p = q
<1>1. /\ posture_severity("normal") = 0
      /\ posture_severity("elevated") = 1
      /\ posture_severity("restricted") = 2
      /\ posture_severity("locked") = 3
  BY DEF posture_severity
<1> QED BY <1>1 DEF Postures

(* "Restricts no more than" is a linear order. *)
LEMMA LadderOrder ==
  /\ \A p \in Postures : p \preceq p
  /\ \A p, q, r \in Postures : p \preceq q /\ q \preceq r => p \preceq r
  /\ \A p, q \in Postures : p \preceq q \/ q \preceq p
  /\ \A p, q \in Postures : p \preceq q /\ q \preceq p => p = q
BY SeverityFacts DEF \preceq

(* at_least_posture is the least upper bound: configuration and denials can  *)
(* only tighten (governance/posture.py:24-31).                               *)
LEMMA AtLeastIsUpperBound ==
  ASSUME NEW current \in Postures, NEW floor \in Postures
  PROVE  /\ at_least_posture(current, floor) \in Postures
         /\ current \preceq at_least_posture(current, floor)
         /\ floor \preceq at_least_posture(current, floor)
         /\ \A p \in Postures :
              current \preceq p /\ floor \preceq p
                => at_least_posture(current, floor) \preceq p
BY SeverityFacts DEF at_least_posture, \preceq

LEMMA EscalateRaises ==
  ASSUME NEW p \in Postures
  PROVE  escalate_posture(p) \in Postures /\ p \preceq escalate_posture(p)
BY DEF Postures, escalate_posture, posture_severity, \preceq

LEMMA DenialsPosture ==
  ASSUME NEW n \in Nat
  PROVE  posture_for_denials(n) \in Postures
<1>1. /\ n >= LockedAt => posture_for_denials(n) = "locked"
      /\ n >= RestrictedAt /\ n < LockedAt => posture_for_denials(n) = "restricted"
      /\ n >= ElevatedAt /\ n < RestrictedAt => posture_for_denials(n) = "elevated"
      /\ n < ElevatedAt => posture_for_denials(n) = "normal"
  BY ThresholdsAssumption DEF posture_for_denials
<1> QED BY <1>1, ThresholdsAssumption DEF Postures

(* More denials never imply a weaker posture. *)
LEMMA DenialsMonotone ==
  ASSUME NEW m \in Nat, NEW n \in Nat, m <= n
  PROVE  posture_for_denials(m) \preceq posture_for_denials(n)
<1>1. \A k \in Nat :
        /\ k >= LockedAt => posture_for_denials(k) = "locked"
        /\ k >= RestrictedAt /\ k < LockedAt => posture_for_denials(k) = "restricted"
        /\ k >= ElevatedAt /\ k < RestrictedAt => posture_for_denials(k) = "elevated"
        /\ k < ElevatedAt => posture_for_denials(k) = "normal"
  BY ThresholdsAssumption DEF posture_for_denials
<1> QED BY <1>1, ThresholdsAssumption DEF posture_severity, \preceq

(* The ratchet: whatever the count of denials, the next posture is at least  *)
(* the current one and at least what the denials imply                       *)
(* (governance/posture.py:51-70).                                            *)
THEOREM Ratchet ==
  ASSUME NEW current \in Postures, NEW n \in Nat
  PROVE  /\ next_posture(current, n) \in Postures
         /\ current \preceq next_posture(current, n)
         /\ posture_for_denials(n) \preceq next_posture(current, n)
<1>1. posture_for_denials(n) \in Postures
  BY DenialsPosture
<1>2. "normal" \preceq current
  BY SeverityFacts DEF \preceq, posture_severity, Postures
<1> QED BY <1>1, <1>2, AtLeastIsUpperBound, LadderOrder DEF next_posture

-----------------------------------------------------------------------------
(* Types *)

(* A process that is down has no operation under way; an evaluation that has *)
(* only read the environment's name has a request and has not moved the      *)
(* posture.                                                                  *)
OpsWellFormed ==
  \A p \in Proc :
    op[p] # None =>
      /\ p \in up
      /\ op[p].stage = "named" => op[p].request \in Request /\ op[p].old = posture[p]

Typed == TypeOK /\ OpsWellFormed

LEMMA StartPostureFacts ==
  ASSUME TypeOK
  PROVE  /\ Restored \in Postures
         /\ StartPosture \in Postures
         /\ Restored \preceq StartPosture
         /\ Floor \preceq StartPosture
<1>1. Restored \in Postures
  <2>1. CASE history # <<>>
    <3>1. history[Len(history)] \in Transitions
      BY <2>1 DEF TypeOK
    <3> QED BY <2>1, <3>1 DEF Restored, Transitions
  <2>2. CASE history = <<>>
    BY <2>2, DenialsPosture DEF Restored, TypeOK
  <2> QED BY <2>1, <2>2
<1> QED BY <1>1, AtLeastIsUpperBound, RuntimeAssumption DEF StartPosture

(* What observing a decision does to the posture and the telemetry.         *)
LEMMA ObserveRaises ==
  ASSUME TypeOK, NEW p \in Proc, NEW v, NEW severe \in BOOLEAN, Observe(p, v, severe)
  PROVE  /\ posture' \in [Proc -> Postures]
         /\ denials' \in [Proc -> Nat]
         /\ posture[p] \preceq posture'[p]
         /\ \A q \in Proc \ {p} : posture'[q] = posture[q]
<1> DEFINE seen == denials[p] + (IF v = "deny" THEN 1 ELSE 0)
           next == next_posture(posture[p], seen)
           new  == IF severe THEN escalate_posture(next) ELSE next
<1>1. seen \in Nat /\ posture[p] \in Postures
  BY DEF TypeOK
<1>2. next \in Postures /\ posture[p] \preceq next
  BY <1>1, Ratchet
<1>3. new \in Postures /\ posture[p] \preceq new
  <2> HIDE DEF next
  <2>1. escalate_posture(next) \in Postures /\ next \preceq escalate_posture(next)
    BY <1>2, EscalateRaises
  <2> QED BY <1>1, <1>2, <2>1, LadderOrder
<1>4. posture' = [posture EXCEPT ![p] = new] /\ denials' = [denials EXCEPT ![p] = seen]
  BY DEF Observe
<1> HIDE DEF seen, new
<1> QED BY <1>1, <1>3, <1>4 DEF TypeOK

LEMMA OpShape ==
  ASSUME NEW kind \in {"decision", "metasploit", "operator"},
         NEW stage \in {"named", "decisions", "evidence", "history"},
         NEW r \in Request \cup {None}, NEW e \in Env \cup {None},
         NEW f \in Env \cup {None}, NEW v \in Verdicts \cup {None}, NEW old \in Postures
  PROVE  /\ Begun(kind, stage, r, e, f, v, old) \in Ops
         /\ Begun(kind, stage, r, e, f, v, old).stage = stage
         /\ Begun(kind, stage, r, e, f, v, old).old = old
         /\ Begun(kind, stage, r, e, f, v, old).kind = kind
         /\ Begun(kind, stage, r, e, f, v, old).request = r
         /\ Begun(kind, stage, r, e, f, v, old).verdict = v
BY DEF Begun, Ops

LEMMA ThenHistoryTyped ==
  ASSUME TypeOK, OpsWellFormed, NEW p \in Proc, op[p] # None, ThenHistory(p),
         UNCHANGED <<posture, up>>
  PROVE  op' \in [Proc -> Ops \cup {None}] /\ OpsWellFormed'
<1>1. op[p] \in Ops
  BY DEF TypeOK
<1>2. [op[p] EXCEPT !.stage = "history"] \in Ops
  BY <1>1 DEF Ops
<1>3. op' \in [Proc -> Ops \cup {None}]
  BY <1>2 DEF ThenHistory, TypeOK
<1>4. /\ \A q \in Proc \ {p} : op'[q] = op[q]
      /\ op'[p] # None => op'[p] = [op[p] EXCEPT !.stage = "history"]
  BY DEF ThenHistory, TypeOK
<1>5. op'[p] # None => op'[p].stage = "history"
  BY <1>1, <1>4 DEF Ops
<1> QED BY <1>3, <1>4, <1>5 DEF OpsWellFormed

(* A step that begins or advances the operation of a running process, and    *)
(* may move its posture and its telemetry, keeps the types.                  *)
LEMMA OpStep ==
  ASSUME Typed, NEW p \in up, NEW o \in Ops, op' = [op EXCEPT ![p] = o],
         o.stage = "named" => o.request \in Request /\ o.old = posture'[p],
         posture' \in [Proc -> Postures], denials' \in [Proc -> Nat],
         \A q \in Proc \ {p} : posture'[q] = posture[q],
         UNCHANGED <<up, env, decided, evidence, history, tail, relaxed, confirmed>>
  PROVE  Typed'
<1>1. TypeOK'
  BY DEF Typed, TypeOK
<1>2. OpsWellFormed'
  BY DEF Typed, TypeOK, OpsWellFormed
<1> QED BY <1>1, <1>2 DEF Typed

(* A torn row leaves the rows before it as they were.                        *)
LEMMA TornTyped ==
  ASSUME TypeOK, NEW p \in Proc, Torn(p)
  PROVE  /\ history' \in Seq(Transitions) /\ tail' \in {"clean", "unended", "broken"}
         /\ UNCHANGED <<decided, evidence>>
<1>1. op[p] \in Ops /\ posture[p] \in Postures
  BY DEF Torn, TypeOK
<1>2. Transition(p) \in Transitions
  BY <1>1 DEF Ops, Transition, Transitions
<1>3. history \in Seq(Transitions)
  BY DEF TypeOK
<1>4. Append(history, Transition(p)) \in Seq(Transitions)
  BY <1>2, <1>3
<1>5. history' = history \/ history' = Append(history, Transition(p))
  BY DEF Torn
<1>6. tail' \in {"clean", "unended", "broken"} /\ UNCHANGED <<decided, evidence>>
  BY DEF Torn
<1> QED BY <1>3, <1>4, <1>5, <1>6

(* Every variable stays in its type. *)
THEOREM Typing == Spec => []Typed
<1>1. Init => Typed
  BY RuntimeAssumption DEF Init, Typed, TypeOK, OpsWellFormed
<1>2. Typed /\ [Next]_vars => Typed'
  <2> SUFFICES ASSUME Typed, [Next]_vars PROVE Typed'
    OBVIOUS
  <2>0. TypeOK /\ OpsWellFormed
    BY DEF Typed
  <2> USE RuntimeAssumption, NoneAssumption
  <2>1. ASSUME NEW p \in Proc, Start(p) PROVE Typed'
    BY <2>0, <2>1, StartPostureFacts
    DEF Start, Typed, TypeOK, OpsWellFormed, files
  <2>2. ASSUME NEW p \in Proc, Stop(p) PROVE Typed'
    BY <2>0, <2>2 DEF Stop, Down, Typed, TypeOK, OpsWellFormed, files
  <2>3. ASSUME NEW p \in Proc, NEW r \in Request, BeginEvaluate(p, r) PROVE Typed'
    <3>1. posture[p] \in Postures /\ env[p] \in Env \cup {None}
      BY <2>0 DEF TypeOK
    <3>2. PICK o \in Ops : /\ op' = [op EXCEPT ![p] = o]
                           /\ o.request = r /\ o.old = posture[p]
      <4> DEFINE o == Begun("decision", "named", r, env[p], None, None, posture[p])
      <4>1. o \in Ops /\ o.request = r /\ o.old = posture[p]
        BY <3>1 DEF Begun, Ops
      <4>2. op' = [op EXCEPT ![p] = o]
        BY <2>3 DEF BeginEvaluate
      <4> HIDE DEF o
      <4> QED BY <4>1, <4>2
    <3>3. /\ p \in up
          /\ UNCHANGED <<up, posture, denials, env, decided, evidence, history, tail,
                         relaxed, confirmed>>
      BY <2>3 DEF BeginEvaluate, MayDecide, Idle, memory, files, ghosts
    <3> QED BY <2>0, <3>2, <3>3, OpStep DEF TypeOK
  <2>4. ASSUME NEW p \in Proc, Evaluate(p) PROVE Typed'
    <3> DEFINE verdict == IF posture[p] = "locked" THEN "deny"
                          ELSE PolicyVerdict(op[p].request, env[p])
    <3>1. op[p] \in Ops /\ op[p].request \in Request /\ env[p] \in Env
      BY <2>0, <2>4 DEF Evaluate, TypeOK, OpsWellFormed
    <3>2. verdict \in Verdicts
      BY <3>1 DEF Verdicts
    <3>3. PICK o \in Ops : op' = [op EXCEPT ![p] = o] /\ o.stage = "decisions"
      <4> DEFINE o == [op[p] EXCEPT !.stage = "decisions", !.profile = env[p],
                                    !.verdict = verdict]
      <4>1. o \in Ops /\ o.stage = "decisions"
        <5> HIDE DEF verdict
        <5> QED BY <3>1, <3>2 DEF Ops
      <4>2. op' = [op EXCEPT ![p] = o]
        BY <2>0, <2>4 DEF Evaluate, TypeOK
      <4> HIDE DEF o
      <4> QED BY <4>1, <4>2
    <3>4. /\ posture' \in [Proc -> Postures] /\ denials' \in [Proc -> Nat]
          /\ \A q \in Proc \ {p} : posture'[q] = posture[q]
      BY <2>0, <2>4, ObserveRaises DEF Evaluate
    <3>5. p \in up /\ UNCHANGED <<up, env, decided, evidence, history, tail, relaxed, confirmed>>
      BY <2>4 DEF Evaluate, files, ghosts
    <3> QED BY <3>3, <3>4, <3>5, OpStep
  <2>5. ASSUME NEW p \in Proc, NEW v \in Verdicts, RecordDecision(p, v) PROVE Typed'
    <3>1. posture[p] \in Postures
      BY <2>0 DEF TypeOK
    <3>2. PICK o \in Ops : op' = [op EXCEPT ![p] = o] /\ o.stage = "decisions"
      <4> DEFINE o == Begun("decision", "decisions", None, None, None, v, posture[p])
      <4>1. o \in Ops /\ o.stage = "decisions"
        BY <3>1, OpShape
      <4>2. op' = [op EXCEPT ![p] = o]
        BY <2>5 DEF RecordDecision
      <4> HIDE DEF o
      <4> QED BY <4>1, <4>2
    <3>3. /\ posture' \in [Proc -> Postures] /\ denials' \in [Proc -> Nat]
          /\ \A q \in Proc \ {p} : posture'[q] = posture[q]
      BY <2>0, <2>5, ObserveRaises DEF RecordDecision
    <3>4. p \in up /\ UNCHANGED <<up, env, decided, evidence, history, tail, relaxed, confirmed>>
      BY <2>5 DEF RecordDecision, MayDecide, Idle, files, ghosts
    <3> QED BY <3>2, <3>3, <3>4, OpStep
  <2>6. ASSUME NEW p \in Proc, NEW v \in Verdicts, NEW severe \in BOOLEAN,
               EvaluateMetasploit(p, v, severe)
        PROVE  Typed'
    <3>1. posture[p] \in Postures /\ env[p] \in Env \cup {None}
      BY <2>0 DEF TypeOK
    <3>2. PICK o \in Ops : op' = [op EXCEPT ![p] = o] /\ o.stage = "decisions"
      <4> DEFINE o == Begun("metasploit", "decisions", None, env[p], env[p], v, posture[p])
      <4>1. o \in Ops /\ o.stage = "decisions"
        BY <3>1 DEF Begun, Ops
      <4>2. op' = [op EXCEPT ![p] = o]
        BY <2>6 DEF EvaluateMetasploit
      <4> HIDE DEF o
      <4> QED BY <4>1, <4>2
    <3>3. /\ posture' \in [Proc -> Postures] /\ denials' \in [Proc -> Nat]
          /\ \A q \in Proc \ {p} : posture'[q] = posture[q]
      BY <2>0, <2>6, ObserveRaises DEF EvaluateMetasploit
    <3>4. p \in up /\ UNCHANGED <<up, env, decided, evidence, history, tail, relaxed, confirmed>>
      BY <2>6 DEF EvaluateMetasploit, MayDecide, Idle, files, ghosts
    <3> QED BY <3>2, <3>3, <3>4, OpStep
  <2>7. ASSUME NEW p \in Proc, AppendDecision(p) PROVE Typed'
    <3>1. op[p] \in Ops
      BY <2>0, <2>7 DEF AppendDecision, TypeOK
    <3>2. op' \in [Proc -> Ops \cup {None}] /\ OpsWellFormed'
      <4>1. CASE op[p].kind = "metasploit"
        <5>1. [op[p] EXCEPT !.stage = "evidence"] \in Ops
          BY <3>1 DEF Ops
        <5>2. [op[p] EXCEPT !.stage = "evidence"].stage = "evidence"
          BY <3>1 DEF Ops
        <5>3. op' = [op EXCEPT ![p] = [op[p] EXCEPT !.stage = "evidence"]]
          BY <2>0, <2>7, <4>1 DEF AppendDecision, TypeOK
        <5> QED BY <2>0, <2>7, <5>1, <5>2, <5>3 DEF AppendDecision, TypeOK, OpsWellFormed, memory
      <4>2. CASE op[p].kind # "metasploit"
        BY <2>0, <2>7, <4>2, ThenHistoryTyped DEF AppendDecision, memory
      <4> QED BY <4>1, <4>2
    <3>3. decided' \in [rows : Nat, denials : Nat, metasploit : Nat]
      <4> DEFINE a == IF op[p].verdict = "deny" THEN 1 ELSE 0
                 b == IF op[p].kind = "metasploit" THEN 1 ELSE 0
      <4>1. a \in Nat /\ b \in Nat
        OBVIOUS
      <4>2. decided' = [decided EXCEPT !.rows = @ + 1, !.denials = @ + a,
                                       !.metasploit = @ + b]
        BY <2>7 DEF AppendDecision
      <4> HIDE DEF a, b
      <4>3. decided' = [rows |-> decided.rows + 1, denials |-> decided.denials + a,
                        metasploit |-> decided.metasploit + b]
        BY <2>0, <4>2 DEF TypeOK
      <4>4. /\ decided.rows + 1 \in Nat /\ decided.denials + a \in Nat
            /\ decided.metasploit + b \in Nat
        BY <2>0, <4>1 DEF TypeOK
      <4> QED BY <4>3, <4>4
    <3> QED BY <2>0, <2>7, <3>2, <3>3 DEF AppendDecision, Typed, TypeOK, memory, ghosts
  <2>8. ASSUME NEW p \in Proc, AppendEvidence(p) PROVE Typed'
    <3>1. op' \in [Proc -> Ops \cup {None}] /\ OpsWellFormed'
      BY <2>0, <2>8, ThenHistoryTyped DEF AppendEvidence, memory
    <3> QED BY <2>0, <2>8, <3>1 DEF AppendEvidence, Typed, TypeOK, memory, ghosts
  <2>9. ASSUME NEW p \in Proc, AppendTransition(p) PROVE Typed'
    <3>1. op[p] \in Ops /\ posture[p] \in Postures
      BY <2>0, <2>9 DEF AppendTransition, TypeOK
    <3>2. Transition(p) \in Transitions
      BY <3>1 DEF Ops, Transition, Transitions
    <3>3. history' \in Seq(Transitions) /\ tail' \in {"clean", "unended", "broken"}
      <4>1. history \in Seq(Transitions) /\ tail \in {"clean", "unended", "broken"}
        BY <2>0 DEF TypeOK
      <4>2. Append(history, Transition(p)) \in Seq(Transitions)
        BY <3>2, <4>1
      <4> QED BY <2>9, <4>1, <4>2 DEF AppendTransition
    <3> QED
      BY <2>0, <2>9, <3>1, <3>3
      DEF AppendTransition, Typed, TypeOK, OpsWellFormed, memory
  <2>10. ASSUME NEW p \in Proc, AppendRaises(p) PROVE Typed'
    <3>1. /\ history' \in Seq(Transitions) /\ tail' \in {"clean", "unended", "broken"}
          /\ UNCHANGED <<decided, evidence>>
      BY <2>0, <2>10, TornTyped DEF AppendRaises, files, TypeOK
    <3> QED BY <2>0, <2>10, <3>1
            DEF AppendRaises, Typed, TypeOK, OpsWellFormed, memory, ghosts
  <2>11. ASSUME NEW p \in Proc, NEW q \in Postures, SetPosture(p, q) PROVE Typed'
    <3>1. posture[p] \in Postures
      BY <2>0 DEF TypeOK
    <3>2. \/ UNCHANGED op
          \/ \E o \in Ops : op' = [op EXCEPT ![p] = o] /\ o.stage = "history"
      BY <2>11, <3>1, OpShape DEF SetPosture
    <3>3. /\ p \in up /\ op[p] = None /\ confirmed' \in Postures \cup {None}
          /\ posture' = [posture EXCEPT ![p] = q]
          /\ relaxed' = [relaxed EXCEPT ![p] = TRUE]
          /\ UNCHANGED <<up, denials, env, decided, evidence, history, tail>>
      BY <2>11 DEF SetPosture, Idle, files
    <3>4. TypeOK'
      BY <2>0, <3>2, <3>3, ZenonT(60) DEF TypeOK
    <3>5. OpsWellFormed'
      BY <2>0, <3>2, <3>3 DEF TypeOK, OpsWellFormed
    <3> QED BY <3>4, <3>5 DEF Typed
  <2>12. ASSUME NEW p \in Proc, NEW e \in Env, SetEnvironment(p, e) PROVE Typed'
    BY <2>0, <2>12 DEF SetEnvironment, Typed, TypeOK, OpsWellFormed, files, ghosts
  <2>13. ASSUME NEW p \in Proc, Forget(p) PROVE Typed'
    BY <2>0, <2>13 DEF Forget, Typed, TypeOK, OpsWellFormed, files, ghosts
  <2>14. ASSUME NEW p \in Proc, StopTorn(p) PROVE Typed'
    <3>1. /\ history' \in Seq(Transitions) /\ tail' \in {"clean", "unended", "broken"}
          /\ UNCHANGED <<decided, evidence>>
      BY <2>0, <2>14, TornTyped DEF StopTorn
    <3> QED BY <2>0, <2>14, <3>1 DEF StopTorn, Down, Typed, TypeOK, OpsWellFormed
  <2>15. CASE UNCHANGED vars
    BY <2>0, <2>15 DEF vars, Typed, TypeOK, OpsWellFormed
  <2> QED
    BY <2>1, <2>2, <2>3, <2>4, <2>5, <2>6, <2>7, <2>8, <2>9, <2>10, <2>11, <2>12,
       <2>13, <2>14, <2>15
    DEF Next
<1> QED BY <1>1, <1>2, PTL DEF Spec

-----------------------------------------------------------------------------
(* The ratchet of the running process *)

(* What each step does to the posture of the processes that keep running.    *)
LEMMA PostureSteps ==
  ASSUME Typed, Next, NEW q \in up, q \in up'
  PROVE  posture[q] \preceq posture'[q] \/ \E p \in Proc, r \in Postures : SetPosture(p, r) /\ p = q
<1> DEFINE Raised == posture[q] \preceq posture'[q]
<1>0. TypeOK /\ q \in Proc /\ posture[q] \in Postures
  BY DEF Typed, TypeOK
<1>1. posture'[q] = posture[q] => Raised
  BY <1>0, LadderOrder
<1>2. ASSUME NEW p \in Proc, Start(p) PROVE Raised
  BY <1>0, <1>1, <1>2 DEF Start, TypeOK
<1>3. ASSUME NEW p \in Proc, Stop(p) \/ StopTorn(p) PROVE Raised
  BY <1>0, <1>1, <1>3 DEF Stop, StopTorn, Down, TypeOK
<1>4. ASSUME NEW p \in Proc, NEW v, NEW severe \in BOOLEAN, Observe(p, v, severe)
      PROVE  Raised
  BY <1>0, <1>1, <1>4, ObserveRaises
<1>5. ASSUME NEW p \in Proc, NEW r \in Request, BeginEvaluate(p, r) PROVE Raised
  BY <1>1, <1>5 DEF BeginEvaluate, memory
<1>6. ASSUME NEW p \in Proc, Evaluate(p) PROVE Raised
  BY <1>4, <1>6 DEF Evaluate
<1>7. ASSUME NEW p \in Proc, NEW v \in Verdicts, RecordDecision(p, v) PROVE Raised
  BY <1>4, <1>7 DEF RecordDecision
<1>8. ASSUME NEW p \in Proc, NEW v \in Verdicts, NEW severe \in BOOLEAN,
             EvaluateMetasploit(p, v, severe)
      PROVE  Raised
  BY <1>4, <1>8 DEF EvaluateMetasploit
<1>9. ASSUME NEW p \in Proc,
             \/ AppendDecision(p) \/ AppendEvidence(p) \/ AppendTransition(p)
             \/ AppendRaises(p) \/ Forget(p) \/ \E e \in Env : SetEnvironment(p, e)
      PROVE  Raised
  BY <1>1, <1>9
  DEF AppendDecision, AppendEvidence, AppendTransition, AppendRaises, Forget,
      SetEnvironment, memory
<1>10. ASSUME NEW p \in Proc, NEW r \in Postures, SetPosture(p, r), p # q PROVE Raised
  BY <1>0, <1>1, <1>10 DEF SetPosture, TypeOK
<1> HIDE DEF Raised
<1>11. Raised \/ \E p \in Proc, r \in Postures : SetPosture(p, r) /\ p = q
  BY <1>2, <1>3, <1>5, <1>6, <1>7, <1>8, <1>9, <1>10 DEF Next
<1> QED BY <1>11 DEF Raised

(* While a process runs, only an operator lowers its posture.                *)
THEOREM RatchetHolds == Spec => OnlyOperatorRelaxes
<1> DEFINE Step == \A p \in Proc :
                     (p \in up /\ p \in up' /\ ~(posture[p] \preceq posture'[p]))
                       => \E q \in Postures : SetPosture(p, q)
<1>1. Typed /\ [Next]_vars => [Step]_vars
  <2> SUFFICES ASSUME Typed, Next PROVE Step
    OBVIOUS
  <2> QED BY PostureSteps
<1> QED BY <1>1, Typing, PTL DEF Spec, OnlyOperatorRelaxes

(* The configured floor does not erode.                                      *)
THEOREM FloorNeverErodes == Spec => []FloorHolds
<1>1. Init => FloorHolds
  BY DEF Init, FloorHolds
<1>2. Typed /\ Typed' /\ FloorHolds /\ [Next]_vars => FloorHolds'
  <2> SUFFICES ASSUME Typed, Typed', FloorHolds, [Next]_vars,
                      NEW q \in up', ~relaxed'[q]
               PROVE  Floor \preceq posture'[q]
    BY DEF FloorHolds
  <2>0. TypeOK /\ TypeOK' /\ q \in Proc
    BY SMTT(30) DEF Typed, TypeOK
  <2>1. CASE UNCHANGED vars
    BY <2>1 DEF vars, FloorHolds
  <2>2. CASE Next /\ q \notin up
    <3>1. PICK p \in Proc : Start(p)
      BY <2>2, ZenonT(60) DEF Next, Stop, StopTorn, Down, BeginEvaluate, Evaluate, RecordDecision,
         EvaluateMetasploit, AppendDecision, AppendEvidence, AppendTransition,
         AppendRaises, SetPosture, SetEnvironment, Forget
    <3>2. p = q /\ posture'[q] = StartPosture
      BY <2>0, <2>2, <3>1 DEF Start, TypeOK
    <3> QED BY <2>0, <3>2, StartPostureFacts
  <2>3. CASE Next /\ q \in up
    <3>1. ~relaxed[q] /\ ~\E r \in Postures : SetPosture(q, r)
      <4>1. ASSUME NEW r \in Postures, SetPosture(q, r) PROVE FALSE
        BY <2>0, <4>1 DEF SetPosture, TypeOK
      <4>2. \A p \in Proc : p # q \/ (~Start(p) /\ ~Stop(p) /\ ~StopTorn(p))
        BY <2>3 DEF Start, Stop, StopTorn, Down
      <4>3. relaxed'[q] = relaxed[q]
        BY <2>0, <2>3, <4>1, <4>2, ZenonT(60)
        DEF Next, Start, Stop, StopTorn, Down, BeginEvaluate, Evaluate, RecordDecision,
            EvaluateMetasploit, AppendDecision, AppendEvidence, AppendTransition,
            AppendRaises, SetPosture, SetEnvironment, Forget, ghosts, TypeOK
      <4> QED BY <4>1, <4>3
    <3>2. Floor \preceq posture[q] /\ posture[q] \preceq posture'[q]
      BY <2>3, <3>1, PostureSteps DEF FloorHolds
    <3> QED BY <2>0, <3>2, LadderOrder, RuntimeAssumption DEF TypeOK
  <2> QED BY <2>1, <2>2, <2>3
<1> QED BY <1>1, <1>2, Typing, PTL DEF Spec

-----------------------------------------------------------------------------
(* Restarting one runtime *)

(* Appending a transition makes the history start where the process is.      *)
LEMMA TransitionRestores ==
  ASSUME Typed, NEW p \in Proc, AppendTransition(p), Startable'
  PROVE  StartPosture' \in Postures /\ posture'[p] \preceq StartPosture'
<1>1. posture[p] \in Postures /\ UNCHANGED posture
  BY DEF Typed, TypeOK, AppendTransition, memory
<1>2. history' # <<>> /\ history'[Len(history')].new_posture = posture[p]
  <2> DEFINE row == Transition(p)
  <2>1. history' = Append(history, row) /\ history \in Seq(Transitions)
    BY DEF AppendTransition, Startable, Typed, TypeOK
  <2>2. row.new_posture = posture[p]
    BY DEF Transition
  <2>3. row \in Transitions
    <3>1. op[p] \in Ops
      BY DEF AppendTransition, Typed, TypeOK
    <3> QED BY <1>1, <3>1 DEF Ops, Transition, Transitions
  <2> HIDE DEF row
  <2>4. Len(history') = Len(history) + 1 /\ history'[Len(history) + 1] = row
    BY <2>1, <2>3
  <2>5. history' # <<>>
    BY <2>1, <2>3
  <2> QED BY <2>2, <2>4, <2>5
<1>3. Restored' = posture[p]
  BY <1>2 DEF Restored
<1> QED BY <1>1, <1>3, AtLeastIsUpperBound, RuntimeAssumption DEF StartPosture

(* Recording a decision never lowers what a restart restores.                *)
LEMMA DecisionKeepsRestored ==
  ASSUME Typed, NEW p \in Proc, AppendDecision(p)
  PROVE  /\ StartPosture' \in Postures
         /\ StartPosture \preceq StartPosture'
<1>1. UNCHANGED history /\ decided.denials \in Nat /\ decided'.denials \in Nat
      /\ decided.denials <= decided'.denials
  BY DEF AppendDecision, Typed, TypeOK
<1>2. /\ Restored \in Postures /\ Restored' \in Postures
      /\ Restored \preceq Restored'
  <2>1. CASE history = <<>>
    BY <1>1, <2>1, DenialsPosture, DenialsMonotone DEF Restored
  <2>2. CASE history # <<>>
    <3>1. Restored \in Postures
      BY StartPostureFacts DEF Typed
    <3>2. Restored' = Restored
      BY <1>1, <2>2 DEF Restored
    <3> QED BY <3>1, <3>2, LadderOrder
  <2> QED BY <2>1, <2>2
<1>3. /\ StartPosture \in Postures /\ StartPosture' \in Postures
      /\ Restored' \preceq StartPosture' /\ Floor \preceq StartPosture'
  BY <1>2, AtLeastIsUpperBound, RuntimeAssumption DEF StartPosture
<1>4. Restored \preceq StartPosture'
  BY <1>2, <1>3, LadderOrder
<1>5. StartPosture \preceq StartPosture'
  BY <1>2, <1>3, <1>4, AtLeastIsUpperBound, RuntimeAssumption DEF StartPosture
<1> QED BY <1>3, <1>5

(* Nothing mends a row that cannot be parsed.                                *)
LEMMA StaysBroken ==
  ASSUME [Next]_vars, Startable'
  PROVE  Startable
BY ZenonT(60) DEF Next, vars, files, ghosts, memory, Startable, Start, Stop, StopTorn, Down, Torn,
   BeginEvaluate, Evaluate, RecordDecision, EvaluateMetasploit, AppendDecision,
   AppendEvidence, AppendTransition, AppendRaises, SetPosture, SetEnvironment, Forget

(* The posture a process is bound to: what it has, or had before the         *)
(* operation under way.                                                      *)
Bound(p) == IF op[p] = None THEN posture[p] ELSE op[p].old

(* One runtime on its data directory, whose appends succeed unless it stops  *)
(* in the middle of one: a restart at any moment does not relax it.          *)
THEOREM OneRuntimeRestarts ==
  ASSUME ~AppendMayFail, \A p, q \in Proc : p = q
  PROVE  Spec => []RestartNeverRelaxes
<1>1. Init => RestartNeverRelaxes
  BY DEF Init, RestartNeverRelaxes
<1>2. Typed /\ Typed' /\ RestartNeverRelaxes /\ [Next]_vars => RestartNeverRelaxes'
  <2> SUFFICES ASSUME Typed, Typed', RestartNeverRelaxes, [Next]_vars
               PROVE  RestartNeverRelaxes'
    OBVIOUS
  <2> SUFFICES ASSUME Startable', NEW q \in up' PROVE Bound(q)' \preceq StartPosture'
    BY DEF RestartNeverRelaxes, Bound
  <2>20. Startable
    BY StaysBroken
  <2>0. /\ TypeOK /\ TypeOK' /\ OpsWellFormed
        /\ \A p \in up : Bound(p) \preceq StartPosture
    BY <2>20 DEF Typed, RestartNeverRelaxes, Bound
  <2> DEFINE Same == q \in up /\ Bound(q)' = Bound(q) /\ StartPosture' = StartPosture
  <2>1. Same => Bound(q)' \preceq StartPosture'
    BY <2>0
  <2>2. q \in Proc
    BY <2>0 DEF TypeOK
  <2>18. ASSUME q \in up, UNCHANGED <<posture, op, files>> PROVE Same
    BY <2>18 DEF Bound, files, StartPosture, Restored
  <2>19. ASSUME Idle(q), UNCHANGED files, NEW o \in Ops, o.old = posture[q],
                op' = [op EXCEPT ![q] = o]
         PROVE  Same
    <3>1. op'[q] = o /\ o # None
      BY <2>0, <2>2, <2>19, NoneAssumption DEF TypeOK
    <3>2. Bound(q)' = Bound(q)
      BY <2>19, <3>1 DEF Idle, Bound
    <3> QED BY <2>19, <3>2 DEF Idle, files, StartPosture, Restored
  <2>3. ASSUME NEW p \in Proc, Start(p) PROVE Bound(q)' \preceq StartPosture'
    <3>1. p = q /\ op'[q] = None /\ posture'[q] = StartPosture /\ StartPosture' = StartPosture
      BY <2>0, <2>2, <2>3
      DEF Start, TypeOK, OpsWellFormed, files, StartPosture, Restored
    <3> QED BY <2>0, <3>1, StartPostureFacts, LadderOrder DEF Bound
  <2>4. ASSUME NEW p \in Proc, Stop(p) \/ StopTorn(p) PROVE FALSE
    BY <2>2, <2>4 DEF Stop, StopTorn, Down
  <2>5. ASSUME NEW p \in Proc, NEW r \in Request, BeginEvaluate(p, r) PROVE Same
    <3>1. p = q /\ Idle(p) /\ UNCHANGED files /\ posture[p] \in Postures
          /\ env[p] \in Env
      BY <2>0, <2>2, <2>5 DEF BeginEvaluate, MayDecide, TypeOK
    <3> DEFINE o == Begun("decision", "named", r, env[p], None, None, posture[p])
    <3>2. o \in Ops /\ o.old = posture[p]
      BY <3>1 DEF Begun, Ops
    <3>3. op' = [op EXCEPT ![p] = o]
      BY <2>5 DEF BeginEvaluate
    <3> HIDE DEF o, Same
    <3> QED BY <2>19, <3>1, <3>2, <3>3
  <2>6. ASSUME NEW p \in Proc, Evaluate(p) PROVE Same
    <3> DEFINE verdict == IF posture[p] = "locked" THEN "deny"
                          ELSE PolicyVerdict(op[p].request, env[p])
    <3>1. p = q /\ op[q] \in Ops /\ op[q] # None
      BY <2>0, <2>2, <2>6, NoneAssumption DEF Evaluate, TypeOK
    <3>2. op'[q] = [op[q] EXCEPT !.stage = "decisions", !.profile = env[q],
                                 !.verdict = verdict]
      BY <2>0, <2>2, <2>6, <3>1 DEF Evaluate, TypeOK
    <3> HIDE DEF verdict
    <3>3. op'[q].old = op[q].old
      BY <3>1, <3>2 DEF Ops
    <3>4. op'[q] # None
      <4>1. op'[q] \in Ops \cup {None} /\ op'[q].stage = "decisions"
        BY <2>0, <2>2, <3>1, <3>2 DEF TypeOK, Ops
      <4>2. env[q] \in Env /\ op[q].request \in Request
        BY <2>0, <2>2, <2>6, <3>1 DEF TypeOK, OpsWellFormed, Evaluate
      <4>3. verdict \in Verdicts
        BY <3>1, <4>2, RuntimeAssumption DEF verdict, Verdicts
      <4>4. op'[q] \in Ops
        BY <3>1, <3>2, <4>2, <4>3 DEF Ops
      <4> QED BY <4>4, NoneAssumption
    <3> QED BY <2>6, <3>3, <3>4, <3>1 DEF Evaluate, Bound, files, StartPosture, Restored
  <2>7. ASSUME NEW p \in Proc, NEW v \in Verdicts, RecordDecision(p, v) PROVE Same
    <3>1. p = q /\ Idle(p) /\ UNCHANGED files /\ posture[p] \in Postures
      BY <2>0, <2>2, <2>7 DEF RecordDecision, MayDecide, TypeOK
    <3> DEFINE o == Begun("decision", "decisions", None, None, None, v, posture[p])
    <3>2. o \in Ops /\ o.old = posture[p]
      BY <3>1 DEF Begun, Ops
    <3>3. op' = [op EXCEPT ![p] = o]
      BY <2>7 DEF RecordDecision
    <3> HIDE DEF o, Same
    <3> QED BY <2>19, <3>1, <3>2, <3>3
  <2>8. ASSUME NEW p \in Proc, NEW v \in Verdicts, NEW severe \in BOOLEAN,
               EvaluateMetasploit(p, v, severe)
        PROVE  Same
    <3>1. p = q /\ Idle(p) /\ UNCHANGED files /\ posture[p] \in Postures
          /\ env[p] \in Env
      BY <2>0, <2>2, <2>8 DEF EvaluateMetasploit, MayDecide, TypeOK
    <3> DEFINE o == Begun("metasploit", "decisions", None, env[p], env[p], v, posture[p])
    <3>2. o \in Ops /\ o.old = posture[p]
      BY <3>1, OpShape
    <3>3. op' = [op EXCEPT ![p] = o]
      BY <2>8 DEF EvaluateMetasploit
    <3> HIDE DEF o, Same
    <3> QED BY <2>19, <3>1, <3>2, <3>3
  <2>9. ASSUME NEW p \in Proc, op[p] # None, ThenHistory(p), UNCHANGED <<up, posture>>
        PROVE  q \in up /\ Bound(q)' = Bound(q)
    <3>1. p = q /\ op[q] \in Ops
      BY <2>0, <2>2, <2>9 DEF TypeOK
    <3>2. CASE op[q].old = posture[q]
      BY <2>0, <2>9, <3>1, <3>2 DEF ThenHistory, Bound, TypeOK
    <3>3. CASE op[q].old # posture[q]
      <4>1. op'[q] = [op[q] EXCEPT !.stage = "history"]
        BY <2>0, <2>9, <3>1, <3>3 DEF ThenHistory, TypeOK
      <4>2. op'[q] \in Ops /\ op'[q].old = op[q].old
        BY <3>1, <4>1 DEF Ops
      <4> QED BY <2>9, <3>1, <4>2, NoneAssumption DEF Bound
    <3> QED BY <3>2, <3>3
  <2>10. ASSUME NEW p \in Proc, AppendDecision(p) PROVE Bound(q)' \preceq StartPosture'
    <3>1. q \in up /\ Bound(q)' = Bound(q)
      <4>1. CASE op[p].kind = "metasploit"
        <5>1. p = q /\ op[q] \in Ops /\ op[q] # None
          BY <2>0, <2>2, <2>10 DEF TypeOK, AppendDecision
        <5>2. op'[q] = [op[q] EXCEPT !.stage = "evidence"]
          BY <2>0, <2>10, <4>1, <5>1 DEF AppendDecision, TypeOK
        <5>3. op'[q] \in Ops /\ op'[q].old = op[q].old
          BY <5>1, <5>2 DEF Ops
        <5> QED BY <2>10, <5>1, <5>3, NoneAssumption DEF Bound, AppendDecision
      <4>2. CASE op[p].kind # "metasploit"
        BY <2>9, <2>10, <4>2 DEF AppendDecision, memory
      <4> QED BY <4>1, <4>2
    <3>2. Bound(q) \preceq StartPosture /\ StartPosture \preceq StartPosture'
      BY <2>0, <2>10, <3>1, DecisionKeepsRestored
    <3>3. Bound(q) \in Postures
      BY <2>0, <2>2 DEF Bound, TypeOK, Ops
    <3>4. StartPosture \in Postures /\ StartPosture' \in Postures
      BY <2>0, <2>10, StartPostureFacts, DecisionKeepsRestored
    <3> QED BY <3>1, <3>2, <3>3, <3>4, LadderOrder
  <2>11. ASSUME NEW p \in Proc, AppendEvidence(p) PROVE Same
    BY <2>9, <2>11 DEF AppendEvidence, memory, StartPosture, Restored
  <2>12. ASSUME NEW p \in Proc, AppendTransition(p) PROVE Bound(q)' \preceq StartPosture'
    <3>1. p = q /\ op'[q] = None
      BY <2>0, <2>2, <2>12 DEF AppendTransition, TypeOK
    <3> QED BY <2>12, <3>1, TransitionRestores DEF Bound
  <2>13. ASSUME NEW p \in Proc, NEW r \in Postures, SetPosture(p, r), posture[p] # r
         PROVE  Same
    <3>1. p = q /\ Idle(p) /\ UNCHANGED files /\ posture[p] \in Postures
      BY <2>0, <2>2, <2>13 DEF SetPosture, TypeOK
    <3> DEFINE o == Begun("operator", "history", None, None, None, None, posture[p])
    <3>2. o \in Ops /\ o.old = posture[p]
      BY <3>1 DEF Begun, Ops
    <3>3. op' = [op EXCEPT ![p] = o]
      BY <2>13 DEF SetPosture
    <3> HIDE DEF o, Same
    <3> QED BY <2>19, <3>1, <3>2, <3>3
  <2>14. ASSUME NEW p \in Proc, NEW r \in Postures, SetPosture(p, r), posture[p] = r
         PROVE  Same
    BY <2>0, <2>2, <2>14 DEF SetPosture, Bound, TypeOK, files, StartPosture, Restored
  <2>15. ASSUME NEW p \in Proc, Forget(p) \/ \E e \in Env : SetEnvironment(p, e)
         PROVE  Same
    BY <2>0, <2>15 DEF Forget, SetEnvironment, Bound, files, StartPosture, Restored
  <2>16. CASE UNCHANGED vars
    <3> HIDE DEF Same
    <3> QED BY <2>1, <2>16, <2>18 DEF vars, files
  <2>17. ASSUME NEW p \in Proc, AppendRaises(p) PROVE FALSE
    BY <2>17 DEF AppendRaises
  <2> HIDE DEF Same
  <2> QED
    BY <2>1, <2>3, <2>4, <2>5, <2>6, <2>7, <2>8, <2>10, <2>11, <2>12, <2>13, <2>14,
       <2>15, <2>16, <2>17
    DEF Next
<1> QED BY <1>1, <1>2, Typing, PTL DEF Spec

-----------------------------------------------------------------------------
(* What an operator was told *)

(* What a restart resumes to and what runs are both at least the posture     *)
(* that the last set_posture confirmed.                                      *)
Upheld ==
  confirmed # None =>
    /\ Startable => confirmed \preceq StartPosture
    /\ \A p \in up : confirmed \preceq posture[p]

(* A row of the history that tears but for its newline is read all the same. *)
LEMMA TornRestores ==
  ASSUME Typed, NEW p \in Proc, Torn(p), Startable'
  PROVE  StartPosture' \in Postures /\ posture[p] \preceq StartPosture'
<1>1. posture[p] \in Postures
  BY DEF Typed, TypeOK
<1> DEFINE row == Transition(p)
<1>2. history' = Append(history, row) /\ history \in Seq(Transitions)
  BY DEF Torn, Startable, Typed, TypeOK
<1>3. row \in Transitions /\ row.new_posture = posture[p]
  <2>1. op[p] \in Ops
    BY DEF Torn, Typed, TypeOK
  <2> QED BY <1>1, <2>1 DEF Ops, Transition, Transitions
<1> HIDE DEF row
<1>4. Len(history') = Len(history) + 1 /\ history'[Len(history) + 1] = row
      /\ history' # <<>>
  BY <1>2, <1>3
<1>5. Restored' = posture[p]
  BY <1>3, <1>4 DEF Restored
<1> QED BY <1>1, <1>5, AtLeastIsUpperBound, RuntimeAssumption DEF StartPosture

(* With one runtime on the data directory, whose appends succeed unless it   *)
(* stops in the middle of one, no later step and no restart undoes a posture *)
(* that set_posture returned.                                                *)
THEOREM ConfirmationsStand ==
  ASSUME ~AppendMayFail, \A p, q \in Proc : p = q
  PROVE  Spec => []ConfirmedPostureSurvives
<1>1. Init => Upheld
  BY DEF Init, Upheld
<1>2. Typed /\ Typed' /\ RestartNeverRelaxes /\ Upheld /\ [Next]_vars => Upheld'
  <2> SUFFICES ASSUME Typed, Typed', RestartNeverRelaxes, Upheld, [Next]_vars,
                      confirmed' # None
               PROVE  /\ Startable' => confirmed' \preceq StartPosture'
                      /\ \A p \in up' : confirmed' \preceq posture'[p]
    BY DEF Upheld
  <2>0. TypeOK /\ TypeOK' /\ OpsWellFormed /\ confirmed' \in Postures
    BY DEF Typed, TypeOK
  <2>1. Startable' => Startable
    BY StaysBroken
  <2>2. /\ StartPosture \in Postures
        /\ \A p \in up : p \in Proc /\ posture[p] \in Postures
        /\ \A p \in up' : p \in Proc /\ posture'[p] \in Postures
    BY <2>0, StartPostureFacts DEF TypeOK
  <2> DEFINE Same == confirmed' = confirmed
             Resumes == Startable' => confirmed' \preceq StartPosture'
             Runs == \A p \in up' : confirmed' \preceq posture'[p]
  <2>3. ASSUME Same, UNCHANGED files PROVE Resumes
    BY <2>1, <2>3 DEF Upheld, files, StartPosture, Restored
  <2>5. ASSUME NEW p \in Proc, Start(p) PROVE Resumes /\ Runs
    <3>1. Same /\ UNCHANGED files /\ up' = up \cup {p} /\ posture' = [posture EXCEPT ![p] = StartPosture]
          /\ Startable
      BY <2>5 DEF Start
    <3>2. confirmed \preceq StartPosture
      BY <3>1 DEF Upheld
    <3>3. ASSUME NEW q \in up' PROVE confirmed' \preceq posture'[q]
      BY <2>0, <2>2, <3>1, <3>2 DEF TypeOK, Upheld
    <3> HIDE DEF Resumes
    <3> QED BY <2>3, <3>1, <3>3
  <2>6. ASSUME NEW p \in Proc, Stop(p) PROVE Resumes /\ Runs
    <3>1. Same /\ UNCHANGED files /\ Runs
      BY <2>0, <2>6 DEF Stop, Down, Upheld, TypeOK
    <3> HIDE DEF Resumes, Runs
    <3> QED BY <2>3, <3>1
  <2>7. ASSUME NEW p \in Proc, StopTorn(p) PROVE Resumes /\ Runs
    <3>1. Same /\ p \in up /\ confirmed \preceq posture[p] /\ Runs
      BY <2>0, <2>7 DEF StopTorn, Down, Upheld, TypeOK
    <3>2. Startable' => StartPosture' \in Postures /\ posture[p] \preceq StartPosture'
      BY <2>7, TornRestores DEF StopTorn
    <3> QED BY <2>0, <2>2, <3>1, <3>2, LadderOrder
  <2>8. ASSUME NEW p \in Proc, AppendDecision(p) PROVE Resumes /\ Runs
    <3>1. Same /\ UNCHANGED tail /\ Runs
      BY <2>8 DEF AppendDecision, memory, ghosts, Upheld
    <3>2. StartPosture \preceq StartPosture' /\ StartPosture' \in Postures
      BY <2>8, DecisionKeepsRestored
    <3>3. Startable' => confirmed \preceq StartPosture
      BY <2>1, <3>1 DEF Upheld
    <3> QED BY <2>0, <2>2, <3>1, <3>2, <3>3, LadderOrder
  <2>9. ASSUME NEW p \in Proc, AppendTransition(p) PROVE Resumes /\ Runs
    <3>1. /\ p \in up /\ UNCHANGED <<up, posture>> /\ \A q \in up : q = p
          /\ confirmed' \in {posture[p], confirmed}
      BY <2>0, <2>2, <2>9 DEF AppendTransition, memory, OpsWellFormed
    <3>2. confirmed' \preceq posture[p]
      BY <2>2, <3>1, LadderOrder DEF Upheld
    <3>3. Startable' => StartPosture' \in Postures /\ posture'[p] \preceq StartPosture'
      BY <2>9, TransitionRestores
    <3> QED BY <2>0, <2>2, <3>1, <3>2, <3>3, LadderOrder
  <2>10. ASSUME NEW p \in Proc, NEW r \in Postures, SetPosture(p, r) PROVE Resumes /\ Runs
    <3>1. /\ p \in up /\ op[p] = None /\ confirmed' = r /\ posture[p] = r
          /\ UNCHANGED <<up, files>> /\ posture' = [posture EXCEPT ![p] = r]
      BY <2>10 DEF SetPosture, Idle
    <3>2. Startable' => r \preceq StartPosture
      BY <2>1, <3>1 DEF RestartNeverRelaxes
    <3>3. \A q \in up' : posture'[q] = r
      BY <2>0, <2>2, <3>1 DEF TypeOK
    <3> QED BY <2>0, <3>1, <3>2, <3>3, LadderOrder DEF files, StartPosture, Restored
  <2>11. ASSUME NEW p \in Proc,
                \/ \E r \in Request : BeginEvaluate(p, r)
                \/ Evaluate(p)
                \/ \E v \in Verdicts : RecordDecision(p, v)
                \/ \E v \in Verdicts, severe \in BOOLEAN : EvaluateMetasploit(p, v, severe)
                \/ \E e \in Env : SetEnvironment(p, e)
                \/ Forget(p)
         PROVE  Resumes /\ Runs
    <3>1. Same /\ UNCHANGED <<up, files>>
      BY <2>11 DEF BeginEvaluate, Evaluate, RecordDecision, EvaluateMetasploit,
         SetEnvironment, Forget, ghosts
    <3>2. Runs
      <4> SUFFICES ASSUME NEW q \in up PROVE confirmed \preceq posture'[q]
        BY <3>1
      <4>1. posture[q] \preceq posture'[q]
        <5>1. ASSUME NEW v \in Verdicts, NEW severe \in BOOLEAN, Observe(p, v, severe)
              PROVE  posture[q] \preceq posture'[q]
          BY <2>0, <2>2, <5>1, ObserveRaises, LadderOrder
        <5>2. UNCHANGED posture => posture[q] \preceq posture'[q]
          BY <2>2, LadderOrder
        <5>3. "deny" \in Verdicts /\ FALSE \in BOOLEAN
          BY DEF Verdicts
        <5>4. ASSUME Evaluate(p) PROVE posture[q] \preceq posture'[q]
          <6> DEFINE verdict == IF posture[p] = "locked" THEN "deny"
                                ELSE PolicyVerdict(op[p].request, env[p])
          <6>1. Observe(p, verdict, FALSE)
            BY <5>4 DEF Evaluate
          <6> HIDE DEF verdict
          <6> QED BY <2>0, <2>2, <6>1, ObserveRaises, LadderOrder
        <5> QED
          BY <2>11, <5>1, <5>2, <5>3, <5>4
          DEF BeginEvaluate, RecordDecision, EvaluateMetasploit, SetEnvironment,
              Forget, memory
      <4> QED BY <2>0, <2>2, <3>1, <4>1, LadderOrder DEF Upheld
    <3> HIDE DEF Resumes, Runs
    <3> QED BY <2>3, <3>1, <3>2
  <2>12. ASSUME NEW p \in Proc, AppendEvidence(p) PROVE Resumes /\ Runs
    BY <2>1, <2>12 DEF AppendEvidence, memory, ghosts, Upheld, Startable, StartPosture, Restored
  <2>13. ASSUME UNCHANGED vars PROVE Resumes /\ Runs
    BY <2>13 DEF vars, Upheld, Startable, StartPosture, Restored
  <2>14. ASSUME NEW p \in Proc, AppendRaises(p) PROVE FALSE
    BY <2>14 DEF AppendRaises
  <2> HIDE DEF Resumes, Runs, Same
  <2>15. Resumes /\ Runs
    BY <2>5, <2>6, <2>7, <2>8, <2>9, <2>10, <2>11, <2>12, <2>13, <2>14 DEF Next
  <2> QED BY <2>15 DEF Resumes, Runs
<1>3. Upheld => ConfirmedPostureSurvives
  BY DEF Upheld, ConfirmedPostureSurvives
<1>4. Spec => []RestartNeverRelaxes
  BY OneRuntimeRestarts
<1> QED BY <1>1, <1>2, <1>3, <1>4, Typing, PTL DEF Spec

-----------------------------------------------------------------------------
(* Evidence *)

(* The processes whose Metasploit decision is on record and its evidence is  *)
(* not yet.                                                                  *)
Awaiting == {p \in Proc : op[p] # None /\ op[p].stage = "evidence"}

(* EvidenceHasDecision is not inductive: AppendEvidence needs a decision that *)
(* no other process has counted as its own.                                   *)
Covered ==
  /\ IsFiniteSet(Awaiting)
  /\ evidence + Cardinality(Awaiting) <= decided.metasploit

(* A step that adds no evidence, takes no decision back and leaves nobody     *)
(* new awaiting.                                                              *)
LEMMA CoveredStays ==
  ASSUME Typed, Covered, Awaiting' \subseteq Awaiting, evidence' = evidence,
         decided' = decided
  PROVE  Covered'
<1>1. /\ IsFiniteSet(Awaiting') /\ Cardinality(Awaiting') <= Cardinality(Awaiting)
      /\ Cardinality(Awaiting') \in Nat /\ Cardinality(Awaiting) \in Nat
  BY FS_Subset, FS_CardinalityType DEF Covered
<1> QED BY <1>1 DEF Covered, Typed, TypeOK

LEMMA AppendDecisionCovered ==
  ASSUME Typed, Covered, NEW p \in Proc, AppendDecision(p)
  PROVE  Covered'
<1>1. /\ op[p] \in Ops /\ op[p].stage = "decisions" /\ p \notin Awaiting
      /\ evidence \in Nat /\ evidence' = evidence /\ decided.metasploit \in Nat
  BY DEF AppendDecision, Typed, TypeOK, Awaiting
<1>2. Cardinality(Awaiting) \in Nat
  BY FS_CardinalityType DEF Covered
<1>3. CASE op[p].kind = "metasploit"
  <2>1. decided'.metasploit = decided.metasploit + 1
    BY <1>3 DEF AppendDecision, Typed, TypeOK
  <2>2. op' = [op EXCEPT ![p] = [op[p] EXCEPT !.stage = "evidence"]]
    BY <1>1, <1>3 DEF AppendDecision, Typed, TypeOK
  <2>3. [op[p] EXCEPT !.stage = "evidence"] \in Ops
    BY <1>1 DEF Ops
  <2>4. [op[p] EXCEPT !.stage = "evidence"].stage = "evidence"
    BY <1>1 DEF Ops
  <2>5. Awaiting' = Awaiting \cup {p}
    BY <2>2, <2>3, <2>4, NoneAssumption DEF Awaiting, Typed, TypeOK
  <2>6. /\ IsFiniteSet(Awaiting')
        /\ Cardinality(Awaiting') = Cardinality(Awaiting) + 1
    BY <1>1, <2>5, FS_AddElement DEF Covered
  <2> QED BY <1>1, <1>2, <2>1, <2>6 DEF Covered
<1>4. CASE op[p].kind # "metasploit"
  <2>1. decided'.metasploit = decided.metasploit
    BY <1>4 DEF AppendDecision, Typed, TypeOK
  <2>2. /\ \A q \in Proc \ {p} : op'[q] = op[q]
        /\ op'[p] = None \/ op'[p] = [op[p] EXCEPT !.stage = "history"]
    BY <1>4 DEF AppendDecision, ThenHistory, Typed, TypeOK
  <2>3. [op[p] EXCEPT !.stage = "history"].stage = "history"
    BY <1>1 DEF Ops
  <2>4. Awaiting' \subseteq Awaiting
    BY <2>2, <2>3 DEF Awaiting
  <2>5. /\ IsFiniteSet(Awaiting')
        /\ Cardinality(Awaiting') <= Cardinality(Awaiting)
        /\ Cardinality(Awaiting') \in Nat
    BY <2>4, FS_Subset, FS_CardinalityType DEF Covered
  <2> QED BY <1>1, <1>2, <2>1, <2>5 DEF Covered
<1> QED BY <1>3, <1>4

LEMMA AppendEvidenceCovered ==
  ASSUME Typed, Covered, NEW p \in Proc, AppendEvidence(p)
  PROVE  Covered'
<1>1. /\ op[p] \in Ops /\ p \in Awaiting
      /\ evidence \in Nat /\ evidence' = evidence + 1
      /\ decided' = decided /\ decided.metasploit \in Nat
  BY DEF AppendEvidence, Typed, TypeOK, Awaiting
<1>2. /\ \A q \in Proc \ {p} : op'[q] = op[q]
      /\ op'[p] = None \/ op'[p] = [op[p] EXCEPT !.stage = "history"]
  BY DEF AppendEvidence, ThenHistory, Typed, TypeOK
<1>3. [op[p] EXCEPT !.stage = "history"].stage = "history"
  BY <1>1 DEF Ops
<1>4. Awaiting' = Awaiting \ {p}
  BY <1>2, <1>3 DEF Awaiting
<1>5. /\ IsFiniteSet(Awaiting')
      /\ Cardinality(Awaiting') = Cardinality(Awaiting) - 1
      /\ Cardinality(Awaiting) \in Nat
  BY <1>1, <1>4, FS_RemoveElement, FS_CardinalityType DEF Covered
<1> QED BY <1>1, <1>5 DEF Covered

(* Metasploit evidence never runs ahead of the decision it is evidence of,   *)
(* with any number of processes and with appends that raise                  *)
(* (runtime.py:251-252).                                                     *)
THEOREM EvidenceFollows == Spec => []EvidenceHasDecision
<1>1. Init => Covered
  <2> SUFFICES ASSUME Init PROVE Covered
    OBVIOUS
  <2>1. Awaiting = {} /\ evidence = 0 /\ decided.metasploit = 0
    BY DEF Init, Awaiting
  <2> QED BY <2>1, FS_EmptySet DEF Covered
<1>2. Typed /\ Covered /\ [Next]_vars => Covered'
  <2> SUFFICES ASSUME Typed, Covered, [Next]_vars PROVE Covered'
    OBVIOUS
  <2> DEFINE Quiet == /\ Awaiting' \subseteq Awaiting
                      /\ evidence' = evidence /\ decided' = decided
  <2>1. ASSUME NEW p \in Proc, NEW o, op' = [op EXCEPT ![p] = o],
               o = None \/ o.stage # "evidence"
        PROVE  Awaiting' \subseteq Awaiting
    BY <2>1 DEF Awaiting, Typed, TypeOK
  <2>2. ASSUME NEW p \in Proc, Stop(p) \/ StopTorn(p) PROVE Quiet
    BY <2>1, <2>2 DEF Stop, StopTorn, Down, Torn, files
  <2>3. ASSUME NEW p \in Proc, NEW r \in Request, BeginEvaluate(p, r) PROVE Quiet
    BY <2>1, <2>3 DEF BeginEvaluate, Begun, files
  <2>4. ASSUME NEW p \in Proc, Evaluate(p) PROVE Quiet
    <3>1. op[p] \in Ops
      BY <2>4 DEF Evaluate, Typed, TypeOK
    <3> DEFINE o(v) == [op[p] EXCEPT !.stage = "decisions", !.profile = env[p], !.verdict = v]
    <3>2. PICK v : op' = [op EXCEPT ![p] = o(v)]
      BY <2>4 DEF Evaluate, Typed, TypeOK
    <3>3. o(v).stage = "decisions"
      BY <3>1 DEF Ops
    <3> HIDE DEF o
    <3> QED BY <2>1, <2>4, <3>2, <3>3 DEF Evaluate, files
  <2>5. ASSUME NEW p \in Proc, NEW v \in Verdicts, RecordDecision(p, v) PROVE Quiet
    BY <2>1, <2>5 DEF RecordDecision, Begun, files
  <2>6. ASSUME NEW p \in Proc, NEW v \in Verdicts, NEW severe \in BOOLEAN,
               EvaluateMetasploit(p, v, severe)
        PROVE  Quiet
    BY <2>1, <2>6 DEF EvaluateMetasploit, Begun, files
  <2>7. ASSUME NEW p \in Proc, AppendTransition(p) \/ AppendRaises(p) PROVE Quiet
    BY <2>1, <2>7 DEF AppendTransition, AppendRaises, Torn, files
  <2>8. ASSUME NEW p \in Proc, NEW q \in Postures, SetPosture(p, q) PROVE Quiet
    BY <2>1, <2>8 DEF SetPosture, Begun, files, Awaiting
  <2>9. ASSUME NEW p \in Proc, Start(p) \/ Forget(p) \/ \E e \in Env : SetEnvironment(p, e)
        PROVE  Quiet
    BY <2>9 DEF Start, Forget, SetEnvironment, files, Awaiting
  <2>10. CASE UNCHANGED vars
    BY <2>10, CoveredStays DEF vars, Awaiting
  <2> HIDE DEF Quiet
  <2>11. Quiet => Covered'
    BY CoveredStays DEF Quiet
  <2> QED
    BY <2>2, <2>3, <2>4, <2>5, <2>6, <2>7, <2>8, <2>9, <2>10, <2>11,
       AppendDecisionCovered, AppendEvidenceCovered
    DEF Next
<1>3. Typed /\ Covered => EvidenceHasDecision
  <2> SUFFICES ASSUME Typed, Covered PROVE EvidenceHasDecision
    OBVIOUS
  <2>1. Cardinality(Awaiting) \in Nat
    BY FS_CardinalityType DEF Covered
  <2> QED BY <2>1 DEF Typed, TypeOK, Covered, EvidenceHasDecision
<1> QED BY <1>1, <1>2, <1>3, Typing, PTL DEF Spec

-----------------------------------------------------------------------------
(* Transitions *)

(* The denial a process has counted and not yet appended.                     *)
Pending(p) ==
  IF op[p] # None /\ op[p].stage = "decisions" /\ op[p].verdict = "deny" THEN 1 ELSE 0

(* A process remembers no denial that is not on record or about to be.        *)
Accounted(p) == denials[p] <= decided.denials + Pending(p)

(* A decision that moved the posture, or is about to append that it did, has  *)
(* the denials that imply it.                                                 *)
Backed(p) ==
  (/\ op[p] # None /\ op[p].kind = "decision"
   /\ \/ op[p].stage = "decisions" /\ op[p].old # posture[p]
      \/ op[p].stage \in {"evidence", "history"})
    => posture[p] \preceq posture_for_denials(decided.denials + Pending(p))

(* TransitionsExplained is not inductive: an append relies on what the        *)
(* process computed from its telemetry some steps before.                     *)
Trail == (\A p \in Proc : Accounted(p) /\ Backed(p)) /\ TransitionsExplained

LEMMA PendingType == ASSUME NEW p PROVE Pending(p) \in 0 .. 1
BY DEF Pending

(* More denials on record explain what fewer did.                             *)
LEMMA ExplainedStays ==
  ASSUME NEW m \in Nat, NEW n \in Nat, m <= n, NEW q \in Postures,
         q \preceq posture_for_denials(m)
  PROVE  q \preceq posture_for_denials(n)
BY DenialsPosture, DenialsMonotone, LadderOrder

(* A process that takes no part in a step.                                    *)
LEMMA OthersKept ==
  ASSUME Typed, Typed', Trail, decided.denials <= decided'.denials, NEW q \in Proc,
         op'[q] = op[q], posture'[q] = posture[q], denials'[q] = denials[q]
  PROVE  Accounted(q)' /\ Backed(q)'
<1>1. Pending(q)' = Pending(q) /\ Pending(q) \in 0 .. 1
  BY PendingType DEF Pending
<1>2. /\ decided.denials \in Nat /\ decided'.denials \in Nat /\ denials[q] \in Nat
      /\ posture[q] \in Postures
  BY DEF Typed, TypeOK
<1>3. Accounted(q)'
  BY <1>1, <1>2 DEF Trail, Accounted
<1>4. decided.denials + Pending(q) \in Nat /\ decided'.denials + Pending(q)' \in Nat
      /\ decided.denials + Pending(q) <= decided'.denials + Pending(q)'
  BY <1>1, <1>2
<1>5. Backed(q)'
  <2>1. Backed(q)
    BY DEF Trail
  <2> DEFINE m == decided.denials + Pending(q)
             n == decided'.denials + Pending(q)'
  <2>2. posture[q] \preceq posture_for_denials(m) => posture[q] \preceq posture_for_denials(n)
    <3>1. m \in Nat /\ n \in Nat /\ m <= n
      BY <1>4
    <3> HIDE DEF m, n
    <3> QED BY <1>2, <3>1, ExplainedStays
  <2> QED BY <2>1, <2>2 DEF Backed
<1> QED BY <1>3, <1>5

LEMMA HistoryKept ==
  ASSUME Typed, Typed', TransitionsExplained, decided.denials <= decided'.denials,
         UNCHANGED history
  PROVE  TransitionsExplained'
<1> SUFFICES ASSUME NEW i \in DOMAIN history, history[i].by = "decision"
             PROVE  history[i].new_posture \preceq posture_for_denials(decided'.denials)
  BY DEF TransitionsExplained
<1>1. history[i] \in Transitions
  BY DEF Typed, TypeOK
<1>2. history[i].new_posture \in Postures
  BY <1>1 DEF Transitions
<1>3. history[i].new_posture \preceq posture_for_denials(decided.denials)
  BY DEF TransitionsExplained
<1> QED BY <1>2, <1>3, ExplainedStays DEF Typed, TypeOK

(* The row of a decision is appended where it is backed.                      *)
LEMMA HistoryGrows ==
  ASSUME Typed, Trail, NEW p \in Proc, op[p] # None, op[p].stage = "history",
         history' = Append(history, Transition(p)), UNCHANGED decided
  PROVE  TransitionsExplained'
<1> DEFINE row == Transition(p)
<1>1. op[p] \in Ops /\ posture[p] \in Postures /\ history \in Seq(Transitions)
      /\ decided.denials \in Nat
  BY DEF Typed, TypeOK
<1>2. row \in Transitions /\ row.new_posture = posture[p] /\ row.by = op[p].kind
  BY <1>1 DEF Transition, Transitions, Ops
<1>3. row.by = "decision" => row.new_posture \preceq posture_for_denials(decided.denials)
  <2>1. Pending(p) = 0
    BY DEF Pending
  <2>2. decided.denials + Pending(p) = decided.denials
    BY <1>1, <2>1
  <2> QED BY <1>2, <2>2 DEF Trail, Backed
<1> HIDE DEF row
<1>4. ASSUME NEW i \in DOMAIN history'
      PROVE  (i \in DOMAIN history /\ history'[i] = history[i]) \/ history'[i] = row
  <2>1. history' = Append(history, row)
    BY DEF row
  <2>2. DOMAIN history = 1 .. Len(history) /\ DOMAIN history' = 1 .. (Len(history) + 1)
    BY <1>1, <1>2, <2>1
  <2> QED BY <1>1, <1>2, <2>1, <2>2
<1> QED BY <1>3, <1>4 DEF Trail, TransitionsExplained

LEMMA ObserveIsBacked ==
  ASSUME Typed, Trail, NEW p \in up, NEW v, Observe(p, v, FALSE),
         op[p] = None \/ op[p].stage = "named"
  PROVE  LET b == IF v = "deny" THEN 1 ELSE 0
         IN  /\ denials'[p] <= decided.denials + b
             /\ posture'[p] # posture[p] =>
                  posture'[p] \preceq posture_for_denials(decided.denials + b)
<1> DEFINE b == IF v = "deny" THEN 1 ELSE 0
           seen == denials[p] + b
<1>1. /\ p \in Proc /\ denials[p] \in Nat /\ decided.denials \in Nat /\ b \in Nat
      /\ posture[p] \in Postures
  BY DEF Typed, TypeOK
<1>2. Pending(p) = 0
  BY DEF Pending
<1>3. denials[p] <= decided.denials
  BY <1>1, <1>2 DEF Trail, Accounted
<1>4. seen \in Nat /\ decided.denials + b \in Nat /\ seen <= decided.denials + b
  BY <1>1, <1>3
<1>5. denials'[p] = seen /\ posture'[p] = next_posture(posture[p], seen)
  BY <1>1 DEF Observe, Typed, TypeOK
<1>6. posture'[p] = posture[p] \/ posture'[p] = posture_for_denials(seen)
  BY <1>5 DEF next_posture, at_least_posture
<1> HIDE DEF b
<1>7. posture_for_denials(seen) \preceq posture_for_denials(decided.denials + b)
  BY <1>4, DenialsMonotone
<1> QED BY <1>4, <1>5, <1>6, <1>7 DEF b

(* A step that lets go of the operation of a process, or starts or stops it,  *)
(* or lets it forget.                                                         *)
LEMMA LetsGo ==
  ASSUME Typed, Typed', Trail, NEW p \in Proc, op'[p] = None, UNCHANGED decided,
         denials'[p] = 0 \/ (denials'[p] <= denials[p] /\ Pending(p) = 0),
         \A q \in Proc \ {p} : op'[q] = op[q] /\ posture'[q] = posture[q]
                               /\ denials'[q] = denials[q]
  PROVE  \A q \in Proc : Accounted(q)' /\ Backed(q)'
<1>1. /\ decided.denials \in Nat /\ denials[p] \in Nat /\ denials'[p] \in Nat
  BY DEF Typed, TypeOK
<1>2. Pending(p)' = 0 /\ Backed(p)'
  BY DEF Pending, Backed
<1>3. Accounted(p)'
  BY <1>1, <1>2 DEF Trail, Accounted
<1>4. ASSUME NEW q \in Proc, q # p PROVE Accounted(q)' /\ Backed(q)'
  BY <1>1, <1>4, OthersKept
<1> QED BY <1>2, <1>3, <1>4

(* Where appends succeed unless the process stops, every transition that     *)
(* denials alone caused is in the history only with the denials that imply   *)
(* it in the decision log, with any number of processes (runtime.py:158-168).*)
THEOREM TrailExplains ==
  ASSUME ~AppendMayFail
  PROVE  Spec => []TransitionsExplained
<1>1. Init => Trail
  <2> SUFFICES ASSUME Init PROVE Trail
    OBVIOUS
  <2>1. \A p \in Proc : op[p] = None /\ denials[p] = 0 /\ Pending(p) = 0
    BY DEF Init, Pending
  <2>2. decided.denials = 0 /\ history = <<>>
    BY DEF Init
  <2> QED BY <2>1, <2>2 DEF Trail, Accounted, Backed, TransitionsExplained
<1>2. Typed /\ Typed' /\ Trail /\ [Next]_vars => Trail'
  <2> SUFFICES ASSUME Typed, Typed', Trail, [Next]_vars PROVE Trail'
    OBVIOUS
  <2> DEFINE Each == \A q \in Proc : Accounted(q)' /\ Backed(q)'
  <2>0. /\ decided.denials \in Nat /\ TransitionsExplained
        /\ \A p \in Proc : denials[p] \in Nat /\ posture[p] \in Postures
        /\ \A p \in Proc : p \notin up => op[p] = None
    BY DEF Typed, TypeOK, OpsWellFormed, Trail
  <2>1. Each /\ UNCHANGED <<decided, history>> => Trail'
    BY <2>0, HistoryKept DEF Trail
  <2>2. ASSUME NEW p \in Proc, Start(p) PROVE Each /\ UNCHANGED <<decided, history>>
    <3>1. /\ op'[p] = None /\ denials'[p] = 0 /\ UNCHANGED <<decided, history>>
          /\ \A q \in Proc \ {p} : op'[q] = op[q] /\ posture'[q] = posture[q]
                                   /\ denials'[q] = denials[q]
      BY <2>0, <2>2 DEF Start, files, Typed, TypeOK
    <3> QED BY <3>1, LetsGo
  <2>3. ASSUME NEW p \in Proc, Stop(p) PROVE Each /\ UNCHANGED <<decided, history>>
    <3>1. /\ op'[p] = None /\ denials'[p] = 0 /\ UNCHANGED <<decided, history>>
          /\ \A q \in Proc \ {p} : op'[q] = op[q] /\ posture'[q] = posture[q]
                                   /\ denials'[q] = denials[q]
      BY <2>0, <2>3 DEF Stop, Down, files, Typed, TypeOK
    <3> QED BY <3>1, LetsGo
  <2>4. ASSUME NEW p \in Proc, StopTorn(p) PROVE Trail'
    <3>1. /\ op'[p] = None /\ denials'[p] = 0 /\ UNCHANGED decided
          /\ \A q \in Proc \ {p} : op'[q] = op[q] /\ posture'[q] = posture[q]
                                   /\ denials'[q] = denials[q]
      BY <2>0, <2>4 DEF StopTorn, Torn, Down, Typed, TypeOK
    <3>2. Each
      BY <3>1, LetsGo
    <3>3. /\ op[p] # None /\ op[p].stage = "history"
          /\ UNCHANGED history \/ history' = Append(history, Transition(p))
      BY <2>4 DEF StopTorn, Torn
    <3>4. TransitionsExplained'
      BY <2>0, <3>1, <3>3, HistoryKept, HistoryGrows
    <3> QED BY <3>2, <3>4 DEF Trail
  <2>5. ASSUME NEW p \in Proc, NEW r \in Request, BeginEvaluate(p, r)
        PROVE  Each /\ UNCHANGED <<decided, history>>
    <3>1. /\ op[p] = None
          /\ op' = [op EXCEPT ![p] = Begun("decision", "named", r, env[p], None, None, posture[p])]
          /\ UNCHANGED <<decided, history, posture, denials>>
      BY <2>5 DEF BeginEvaluate, MayDecide, Idle, memory, files
    <3>2. op'[p].stage = "named" /\ \A q \in Proc \ {p} : op'[q] = op[q]
      BY <3>1 DEF Begun, Typed, TypeOK
    <3>3. Pending(p) = 0 /\ Pending(p)' = 0 /\ Backed(p)'
      BY <3>1, <3>2 DEF Pending, Backed
    <3>4. Accounted(p)'
      BY <3>1, <3>3 DEF Trail, Accounted
    <3>5. ASSUME NEW q \in Proc, q # p PROVE Accounted(q)' /\ Backed(q)'
      BY <2>0, <3>1, <3>2, <3>5, OthersKept
    <3> QED BY <3>1, <3>3, <3>4, <3>5
  <2>6. ASSUME NEW p \in up, NEW v, Observe(p, v, FALSE),
               op[p] = None \/ (op[p].stage = "named" /\ op[p].old = posture[p]),
               op'[p] # None, op'[p].stage = "decisions", op'[p].verdict = v,
               op'[p].old = posture[p], \A q \in Proc \ {p} : op'[q] = op[q],
               UNCHANGED <<decided, history>>
        PROVE  Each
    <3>1. p \in Proc /\ \A q \in Proc \ {p} : posture'[q] = posture[q] /\ denials'[q] = denials[q]
      BY <2>6 DEF Observe, Typed, TypeOK
    <3>2. Pending(p)' = IF v = "deny" THEN 1 ELSE 0
      BY <2>6 DEF Pending
    <3>3. Accounted(p)' /\ Backed(p)'
      BY <2>6, <3>2, ObserveIsBacked DEF Accounted, Backed
    <3>4. ASSUME NEW q \in Proc, q # p PROVE Accounted(q)' /\ Backed(q)'
      BY <2>0, <2>6, <3>1, <3>4, OthersKept
    <3> QED BY <3>3, <3>4
  <2>7. ASSUME NEW p \in Proc, Evaluate(p) PROVE Each /\ UNCHANGED <<decided, history>>
    <3> DEFINE v == IF posture[p] = "locked" THEN "deny"
                    ELSE PolicyVerdict(op[p].request, env[p])
               o == [op[p] EXCEPT !.stage = "decisions", !.profile = env[p], !.verdict = v]
    <3>1. /\ p \in up /\ op[p] # None /\ op[p].stage = "named" /\ Observe(p, v, FALSE)
          /\ UNCHANGED <<decided, history>>
      BY <2>7 DEF Evaluate, files
    <3>2. op[p] \in Ops /\ op[p].old = posture[p]
      BY <3>1 DEF Typed, TypeOK, OpsWellFormed
    <3>3. op' = [op EXCEPT ![p] = o]
      <4>1. op \in [Proc -> Ops \cup {None}]
        BY DEF Typed, TypeOK
      <4> QED BY <2>7, <4>1 DEF Evaluate
    <3> HIDE DEF v
    <3>4. o.stage = "decisions" /\ o.verdict = v /\ o.old = posture[p]
      BY <3>2 DEF Ops
    <3>5. o \in Ops
      <4>1. v \in Verdicts /\ env[p] \in Env
        BY <3>1, RuntimeAssumption DEF v, Verdicts, Typed, TypeOK, OpsWellFormed
      <4> QED BY <3>2, <4>1 DEF Ops
    <3> HIDE DEF o
    <3>6. op'[p] = o /\ op'[p] # None /\ \A q \in Proc \ {p} : op'[q] = op[q]
      BY <3>3, <3>5, NoneAssumption DEF Typed, TypeOK
    <3> QED BY <2>6, <3>1, <3>2, <3>4, <3>6
  <2>8. ASSUME NEW p \in Proc, NEW v \in Verdicts, RecordDecision(p, v)
        PROVE  Each /\ UNCHANGED <<decided, history>>
    <3> DEFINE o == Begun("decision", "decisions", None, None, None, v, posture[p])
    <3>1. /\ p \in up /\ op[p] = None /\ Observe(p, v, FALSE)
          /\ op' = [op EXCEPT ![p] = o] /\ UNCHANGED <<decided, history>>
      BY <2>8 DEF RecordDecision, MayDecide, Idle, files
    <3>2. o \in Ops /\ o.stage = "decisions" /\ o.verdict = v /\ o.old = posture[p]
      BY <2>0, OpShape
    <3> HIDE DEF o
    <3>3. op'[p] = o /\ op'[p] # None /\ \A q \in Proc \ {p} : op'[q] = op[q]
      BY <3>1, <3>2, NoneAssumption DEF Typed, TypeOK
    <3> QED BY <2>6, <3>1, <3>2, <3>3
  <2>9. ASSUME NEW p \in Proc, NEW v \in Verdicts, NEW severe \in BOOLEAN,
               EvaluateMetasploit(p, v, severe)
        PROVE  Each /\ UNCHANGED <<decided, history>>
    <3> DEFINE o == Begun("metasploit", "decisions", None, env[p], env[p], v, posture[p])
    <3>1. /\ p \in up /\ op[p] = None /\ Observe(p, v, severe)
          /\ op' = [op EXCEPT ![p] = o] /\ UNCHANGED <<decided, history>>
      BY <2>9 DEF EvaluateMetasploit, MayDecide, Idle, files
    <3>2. o.kind = "metasploit" /\ o.stage = "decisions" /\ o.verdict = v
      BY DEF Begun
    <3>3. o \in Ops
      BY <2>0 DEF Begun, Ops, Typed, TypeOK
    <3> HIDE DEF o
    <3>4. op'[p] = o /\ op'[p] # None /\ \A q \in Proc \ {p} : op'[q] = op[q]
      BY <3>1, <3>3, NoneAssumption DEF Typed, TypeOK
    <3>5. Backed(p)'
      BY <3>2, <3>4 DEF Backed
    <3>6. /\ denials'[p] = denials[p] + (IF v = "deny" THEN 1 ELSE 0)
          /\ \A q \in Proc \ {p} : posture'[q] = posture[q] /\ denials'[q] = denials[q]
      BY <3>1 DEF Observe, Typed, TypeOK
    <3>7. Pending(p) = 0 /\ Pending(p)' = IF v = "deny" THEN 1 ELSE 0
      BY <3>1, <3>2, <3>4 DEF Pending
    <3>8. Accounted(p)'
      BY <2>0, <3>1, <3>6, <3>7 DEF Trail, Accounted
    <3>9. ASSUME NEW q \in Proc, q # p PROVE Accounted(q)' /\ Backed(q)'
      BY <2>0, <3>1, <3>4, <3>6, <3>9, OthersKept
    <3> QED BY <3>1, <3>5, <3>8, <3>9
  <2>10. ASSUME NEW p \in Proc, AppendDecision(p) PROVE Trail'
    <3>1. /\ op[p] # None /\ op[p].stage = "decisions" /\ op[p] \in Ops
          /\ UNCHANGED <<history, posture, denials>>
      BY <2>10 DEF AppendDecision, memory, Typed, TypeOK
    <3>2. decided'.denials = decided.denials + Pending(p) /\ Pending(p) \in 0 .. 1
      BY <2>10, <3>1, PendingType DEF AppendDecision, Pending, Typed, TypeOK
    <3>3. /\ \A q \in Proc \ {p} : op'[q] = op[q]
          /\ \/ op'[p] = None
             \/ op'[p] = [op[p] EXCEPT !.stage = "evidence"] /\ op[p].kind = "metasploit"
             \/ op'[p] = [op[p] EXCEPT !.stage = "history"] /\ op[p].old # posture[p]
      BY <2>10 DEF AppendDecision, ThenHistory, Typed, TypeOK
    <3>4. /\ [op[p] EXCEPT !.stage = "evidence"].stage = "evidence"
          /\ [op[p] EXCEPT !.stage = "history"].stage = "history"
          /\ [op[p] EXCEPT !.stage = "evidence"].kind = op[p].kind
          /\ [op[p] EXCEPT !.stage = "history"].kind = op[p].kind
      BY <3>1 DEF Ops
    <3>5. Pending(p)' = 0
      BY <3>3, <3>4 DEF Pending
    <3>6. decided'.denials + Pending(p)' = decided.denials + Pending(p)
      BY <2>0, <3>2, <3>5
    <3>7. Accounted(p)'
      BY <3>1, <3>6 DEF Trail, Accounted
    <3>8. Backed(p)'
      BY <3>1, <3>3, <3>4, <3>6 DEF Trail, Backed
    <3>9. decided.denials <= decided'.denials
      BY <2>0, <3>2
    <3>10. ASSUME NEW q \in Proc, q # p PROVE Accounted(q)' /\ Backed(q)'
      BY <3>1, <3>3, <3>9, <3>10, OthersKept
    <3>11. TransitionsExplained'
      BY <2>0, <3>1, <3>9, HistoryKept
    <3> QED BY <3>7, <3>8, <3>10, <3>11 DEF Trail
  <2>11. ASSUME NEW p \in Proc, AppendEvidence(p) PROVE Each /\ UNCHANGED <<decided, history>>
    <3>1. /\ op[p] # None /\ op[p].stage = "evidence" /\ op[p] \in Ops
          /\ UNCHANGED <<decided, history, posture, denials>>
      BY <2>11 DEF AppendEvidence, memory, Typed, TypeOK
    <3>2. /\ \A q \in Proc \ {p} : op'[q] = op[q]
          /\ \/ op'[p] = None
             \/ op'[p] = [op[p] EXCEPT !.stage = "history"] /\ op[p].old # posture[p]
      BY <2>11 DEF AppendEvidence, ThenHistory, Typed, TypeOK
    <3>3. /\ [op[p] EXCEPT !.stage = "history"].stage = "history"
          /\ [op[p] EXCEPT !.stage = "history"].kind = op[p].kind
      BY <3>1 DEF Ops
    <3>4. Pending(p) = 0 /\ Pending(p)' = 0
      BY <3>1, <3>2, <3>3 DEF Pending
    <3>5. Accounted(p)'
      BY <3>1, <3>4 DEF Trail, Accounted
    <3>6. Backed(p)'
      BY <3>1, <3>2, <3>3, <3>4 DEF Trail, Backed
    <3>7. ASSUME NEW q \in Proc, q # p PROVE Accounted(q)' /\ Backed(q)'
      BY <2>0, <3>1, <3>2, <3>7, OthersKept
    <3> QED BY <3>1, <3>5, <3>6, <3>7
  <2>12. ASSUME NEW p \in Proc, AppendTransition(p) PROVE Trail'
    <3>1. /\ op[p] # None /\ op[p].stage = "history" /\ op'[p] = None
          /\ UNCHANGED <<decided, posture, denials>>
          /\ \A q \in Proc \ {p} : op'[q] = op[q]
          /\ UNCHANGED history \/ history' = Append(history, Transition(p))
      BY <2>12 DEF AppendTransition, memory, Typed, TypeOK
    <3>2. Pending(p) = 0
      BY <3>1 DEF Pending
    <3>3. Each
      BY <2>0, <3>1, <3>2, LetsGo
    <3>4. TransitionsExplained'
      BY <2>0, <3>1, HistoryKept, HistoryGrows
    <3> QED BY <3>3, <3>4 DEF Trail
  <2>13. ASSUME NEW p \in Proc, NEW q \in Postures, SetPosture(p, q)
         PROVE  Each /\ UNCHANGED <<decided, history>>
    <3> DEFINE o == Begun("operator", "history", None, None, None, None, posture[p])
    <3>1. /\ op[p] = None /\ UNCHANGED <<decided, history, denials>>
          /\ posture' = [posture EXCEPT ![p] = q]
          /\ UNCHANGED op \/ op' = [op EXCEPT ![p] = o]
      BY <2>13 DEF SetPosture, Idle, files
    <3>2. o.kind = "operator" /\ o.stage = "history"
      BY DEF Begun
    <3> HIDE DEF o
    <3>3. /\ op'[p] = None \/ op'[p] = o
          /\ \A r \in Proc \ {p} : op'[r] = op[r] /\ posture'[r] = posture[r]
      BY <3>1 DEF Typed, TypeOK
    <3>4. Pending(p) = 0 /\ Pending(p)' = 0 /\ Backed(p)'
      BY <3>1, <3>2, <3>3 DEF Pending, Backed
    <3>5. Accounted(p)'
      BY <3>1, <3>4 DEF Trail, Accounted
    <3>6. ASSUME NEW r \in Proc, r # p PROVE Accounted(r)' /\ Backed(r)'
      BY <2>0, <3>1, <3>3, <3>6, OthersKept
    <3> QED BY <3>1, <3>4, <3>5, <3>6
  <2>14. ASSUME NEW p \in Proc, Forget(p) PROVE Each /\ UNCHANGED <<decided, history>>
    <3>1. UNCHANGED <<decided, history, op, posture>>
      BY <2>14 DEF Forget, files
    <3>2. PICK n \in 0 .. (denials[p] - 1) : denials' = [denials EXCEPT ![p] = n]
      BY <2>14 DEF Forget
    <3>3. denials'[p] <= denials[p] /\ \A q \in Proc \ {p} : denials'[q] = denials[q]
      BY <2>0, <3>2 DEF Typed, TypeOK
    <3>4. Pending(p)' = Pending(p) /\ Pending(p) \in 0 .. 1
      BY <3>1, PendingType DEF Pending
    <3>5. Accounted(p)'
      BY <2>0, <3>1, <3>2, <3>3, <3>4 DEF Trail, Accounted, Typed, TypeOK
    <3>6. Backed(p)'
      BY <3>1, <3>4 DEF Trail, Backed
    <3>7. ASSUME NEW q \in Proc, q # p PROVE Accounted(q)' /\ Backed(q)'
      BY <2>0, <3>1, <3>3, <3>7, OthersKept
    <3> QED BY <3>1, <3>5, <3>6, <3>7
  <2>15. ASSUME NEW p \in Proc, NEW e \in Env, SetEnvironment(p, e)
         PROVE  Each /\ UNCHANGED <<decided, history>>
    BY <2>0, <2>15, OthersKept DEF SetEnvironment, files
  <2>16. CASE UNCHANGED vars
    BY <2>0, <2>16, OthersKept, HistoryKept DEF vars, Trail
  <2>17. ASSUME NEW p \in Proc, AppendRaises(p) PROVE FALSE
    BY <2>17 DEF AppendRaises
  <2> HIDE DEF Each
  <2> QED
    BY <2>1, <2>2, <2>3, <2>4, <2>5, <2>7, <2>8, <2>9, <2>10, <2>11, <2>12, <2>13,
       <2>14, <2>15, <2>16, <2>17
    DEF Next
<1>3. Trail => TransitionsExplained
  BY DEF Trail
<1> QED BY <1>1, <1>2, <1>3, Typing, PTL DEF Spec
-----------------------------------------------------------------------------
(* How the runtime comes up, in Startup: a specification of its own.         *)

(* What each stage of a boot has made of what it read: the memo is what the  *)
(* file and the variables said when rif.toml was read, and the runtime is    *)
(* what the memo and the environments file said when that one was read.      *)
Booting ==
  /\ pc \in {"down", "importing"} => settings = Unbuilt
  /\ pc \in {"validated", "built", "serving"} =>
       settings \in Settings /\ settings = load_settings(read, environ)
  /\ pc \in {"built", "serving"} =>
       LET config == load_config(found, settings)
       IN  /\ config \in Configs
           /\ runtime = [environment  |-> configured_environment(settings, config),
                         environments |-> config.environments,
                         floor        |-> settings.posture]
           /\ runtime.environment \in Names
  /\ pc = "serving" => app = settings

BootInv == BootTyped /\ Booting

(* A source that was read says of a setting what its variable says, or else  *)
(* what it says itself.                                                      *)
LEMMA Overlaid ==
  ASSUME NEW file \in Sources, NEW e \in Sources
  PROVE  overlay(file, e) =
           [posture     |-> IF e.posture = "unset" THEN file.posture ELSE e.posture,
            environment |-> IF e.environment = "unset" THEN file.environment
                            ELSE e.environment,
            config_dir  |-> IF e.config_dir = "unset" THEN file.config_dir
                            ELSE e.config_dir]
BY DEF overlay, Sources, Unset

LEMMA SilentSource == Silent \in Sources
BY DEF Silent, Sources, Unset

(* Loading succeeds with settings, each the asked value or its default.      *)
LEMMA Loaded ==
  ASSUME NEW file \in Texts,
         NEW e \in Sources, load_settings(file, e) \notin Errors
  PROVE  LET s     == load_settings(file, e)
             of(k) == IF e[k] # "unset" THEN e[k]
                      ELSE IF file \in Sources THEN file[k] ELSE "unset"
         IN  /\ s \in Settings
             /\ s.posture = (IF of("posture") = "unset" THEN "normal" ELSE of("posture"))
             /\ s.environment =
                  (IF of("environment") = "blank" THEN "unset" ELSE of("environment"))
<1> DEFINE source == IF file = NoFile THEN Silent ELSE file
           d      == overlay(source, e)
           of(k)  == IF e[k] # "unset" THEN e[k]
                     ELSE IF file \in Sources THEN file[k] ELSE "unset"
<1>1. file \in Sources \cup {NoFile} /\ source \in Sources
  BY SilentSource DEF load_settings, Errors, Texts
<1>2. /\ d \in Sources
      /\ d.posture = of("posture") /\ d.environment = of("environment")
  <2>1. d = [posture     |-> IF e.posture = "unset" THEN source.posture ELSE e.posture,
             environment |-> IF e.environment = "unset" THEN source.environment
                             ELSE e.environment,
             config_dir  |-> IF e.config_dir = "unset" THEN source.config_dir
                             ELSE e.config_dir]
    BY <1>1, Overlaid
  <2>2. d \in Sources
    BY <1>1, <2>1 DEF Sources
  <2>3. CASE file = NoFile
    <3>1. source.posture = "unset" /\ source.environment = "unset"
      BY <2>3 DEF Silent, Unset
    <3>2. file \notin Sources
      BY <2>3, StartupAssumption
    <3> QED BY <2>1, <2>2, <3>1, <3>2
  <2>4. CASE file # NoFile
    <3>1. source = file /\ file \in Sources
      BY <1>1, <2>4
    <3> QED BY <2>1, <2>2, <3>1
  <2> QED BY <2>3, <2>4
<1>3. /\ d.posture \notin {"blank", "typo"}
      /\ load_settings(file, e) = validated(d)
  <2>1. file # Malformed /\ file # Misshapen
    BY <1>1, StartupAssumption
  <2> QED
    BY <2>1 DEF load_settings, Errors, Blank, Invalid
<1> HIDE DEF d
<1>4. /\ validated(d) \in Settings
      /\ validated(d).posture = (IF d.posture = "unset" THEN "normal" ELSE d.posture)
      /\ validated(d).environment
           = (IF d.environment = "blank" THEN "unset" ELSE d.environment)
  <2>1. /\ d.posture \in {"normal", "locked", "unset"}
        /\ d.environment \in Names \cup {"unset", "blank"}
        /\ d.config_dir \in Dirs \cup {"unset", "blank"}
    BY <1>2, <1>3 DEF Sources, Unset, Blank, Invalid
  <2> QED
    BY <2>1, StartupAssumption DEF validated, Settings, Unset, Blank,
       Postures
<1> QED
  BY <1>2, <1>3, <1>4

(* A configuration that loads is the file found, or the one profile that     *)
(* takes the configured name.                                                *)
LEMMA ConfigLoaded ==
  ASSUME NEW s \in Settings,
         NEW file \in Configs \cup {NoFile, Malformed, Misshapen},
         load_config(file, s) \notin Errors
  PROVE  /\ load_config(file, s) \in Configs
         /\ IF file = NoFile
            THEN LET name == IF s.environment = "unset" THEN "production" ELSE s.environment
                 IN  load_config(file, s)
                       = [default_environment |-> name, environments |-> {name}]
            ELSE file \in Configs /\ load_config(file, s) = file
<1>1. CASE file = NoFile
  BY <1>1, StartupAssumption DEF load_config, Configs, Settings, Unset
<1>2. CASE file = Malformed
  BY <1>2, StartupAssumption DEF load_config, Errors
<1>3. CASE file = Misshapen
  BY <1>3, StartupAssumption DEF load_config, Errors
<1>4. CASE file \in Configs
  BY <1>4, StartupAssumption DEF load_config
<1> QED
  BY <1>1, <1>2, <1>3, <1>4

(* The environment chosen is the configured one, or the default.             *)
LEMMA Chosen ==
  ASSUME NEW s \in Settings, NEW c \in Configs,
         configured_environment(s, c) \notin Errors
  PROVE  /\ configured_environment(s, c) \in Names
         /\ configured_environment(s, c) =
              (IF s.environment = "unset" THEN c.default_environment ELSE s.environment)
         /\ s.environment # "unset" => s.environment \in c.environments
<1>1. CASE s.environment = "unset"
  BY <1>1, StartupAssumption DEF configured_environment, Configs, Unset
<1>2. CASE s.environment # "unset" /\ s.environment \in c.environments
  BY <1>2, StartupAssumption DEF configured_environment, Configs, Unset
<1>3. CASE s.environment # "unset" /\ s.environment \notin c.environments
  BY <1>3 DEF configured_environment, Unset, Errors
<1> QED
  BY <1>1, <1>2, <1>3

LEMMA BootStarts == BootInit => BootInv
<1> SUFFICES ASSUME BootInit PROVE BootInv
  OBVIOUS
<1>1. BootTyped
  BY SilentSource, StartupAssumption DEF BootInit, BootTyped, Texts
<1>2. Booting
  BY DEF BootInit, Booting
<1> QED BY <1>1, <1>2 DEF BootInv

LEMMA FilesEdited ==
  ASSUME BootInv, EditToml \/ EditYaml
  PROVE  BootInv'
<1>1. BootTyped'
  <2>1. CASE EditToml
    BY <2>1, StartupAssumption DEF BootInv, BootTyped, EditToml
  <2>2. CASE EditYaml
    BY <2>2, StartupAssumption DEF BootInv, BootTyped, EditYaml
  <2> QED BY <2>1, <2>2
<1>2. UNCHANGED <<pc, environ, settings, runtime, app, read, found>>
  BY DEF EditToml, EditYaml
<1>3. Booting'
  BY <1>2 DEF BootInv, Booting, configured_environment, load_config,
     load_settings, validated, overlay
<1> QED BY <1>1, <1>3 DEF BootInv

LEMMA StartedOrStopped ==
  ASSUME BootInv, Launch \/ Exit
  PROVE  BootInv'
<1>1. CASE Launch
  BY <1>1 DEF BootInv, Booting, BootTyped, Launch
<1>2. CASE Exit
  BY <1>2, SilentSource DEF BootInv, Booting, BootTyped, Exit, Texts
<1> QED BY <1>1, <1>2

(* The configuration is validated: the file is read and its settings kept.   *)
LEMMA Validated ==
  ASSUME BootInv, ValidateConfig
  PROVE  BootInv'
<1> DEFINE s == load_settings(toml, environ)
<1>1. /\ pc = "importing" /\ settings = Unbuilt /\ read' = toml
      /\ toml \in Texts /\ environ \in Sources
      /\ UNCHANGED <<toml, yaml, edits, environ, runtime, app, found>>
  BY DEF BootInv, Booting, BootTyped, ValidateConfig
<1>2. get_settings(settings, toml, environ) = s
  BY <1>1 DEF get_settings
<1> HIDE DEF s
<1>3. CASE s \in Errors
  <2>1. pc' = "refused" /\ labelled' = (s = ConfigError) /\ settings' = settings
    BY <1>2, <1>3 DEF ValidateConfig, Refuse
  <2> QED
    BY <1>1, <2>1 DEF BootInv, Booting, BootTyped
<1>4. CASE s \notin Errors
  <2>1. pc' = "validated" /\ settings' = s /\ labelled' = labelled
    BY <1>2, <1>4 DEF ValidateConfig
  <2>2. s \in Settings
    BY <1>1, <1>4, Loaded DEF s
  <2>3. s = load_settings(read', environ')
    BY <1>1 DEF s
  <2>4. BootTyped'
    BY <1>1, <2>1, <2>2 DEF BootInv, BootTyped
  <2>5. Booting'
    BY <2>1, <2>2, <2>3 DEF Booting, load_settings, validated, overlay
  <2> QED BY <2>4, <2>5 DEF BootInv
<1> QED BY <1>3, <1>4

(* The runtime is built of the memo and of the environments file it names.   *)
LEMMA Built ==
  ASSUME BootInv, BuildRuntime
  PROVE  BootInv'
<1> DEFINE file == yaml[settings.config_dir]
           c    == load_config(file, settings)
           name == IF c \in Errors THEN c
                   ELSE configured_environment(settings, c)
<1>1. /\ pc = "validated" /\ settings \in Settings /\ settings # Unbuilt
      /\ settings = load_settings(read, environ)
      /\ file \in Configs \cup {NoFile, Malformed, Misshapen}
      /\ UNCHANGED <<toml, yaml, edits, environ, settings, app, read>>
  BY StartupAssumption DEF BootInv, Booting, BootTyped, BuildRuntime, Settings
<1>2. get_settings(settings, toml, environ) = settings
  BY <1>1 DEF get_settings
<1> HIDE DEF file
<1>3. /\ found' = file
      /\ IF name \in Errors
         THEN pc' = "refused" /\ labelled' = (name = ValueError) /\ UNCHANGED runtime
         ELSE /\ pc' = "built"
              /\ runtime' = [environment  |-> name,
                             environments |-> c.environments,
                             floor        |-> settings.posture]
              /\ UNCHANGED labelled
  BY <1>2 DEF BuildRuntime, Refuse, file
<1> HIDE DEF c, name
<1>4. CASE name \in Errors
  BY <1>1, <1>3, <1>4 DEF BootInv, Booting, BootTyped
<1>5. CASE name \notin Errors
  <2>1. c \notin Errors /\ name = configured_environment(settings, c)
    BY <1>5 DEF name
  <2>2. c \in Configs
    BY <1>1, <2>1, ConfigLoaded DEF c
  <2>3. name \in Names
    BY <1>1, <1>5, <2>1, <2>2, Chosen
  <2>4. BootTyped'
    <3>1. runtime' \in [environment : Names, environments : SUBSET Names,
                        floor : Postures]
      BY <1>1, <1>3, <1>5, <2>2, <2>3 DEF Configs, Settings
    <3> QED
      BY <1>1, <1>3, <1>5, <3>1 DEF BootInv, BootTyped
  <2>5. c = load_config(found', settings') /\ settings' = load_settings(read', environ')
    BY <1>1, <1>3 DEF c
  <2>6. Booting'
    BY <1>1, <1>3, <1>5, <2>1, <2>2, <2>3, <2>5 DEF Booting
  <2> QED BY <2>4, <2>6 DEF BootInv
<1> QED BY <1>4, <1>5

(* Serving publishes the memo, which cannot fail by then.                    *)
LEMMA Served ==
  ASSUME BootInv, Serve
  PROVE  BootInv'
<1>1. pc = "built" /\ settings \in Settings /\ settings # Unbuilt
      /\ settings \notin Errors
  BY StartupAssumption DEF BootInv, Booting, Serve
<1>2. get_settings(settings, toml, environ) = settings
  BY <1>1 DEF get_settings
<1>3. /\ pc' = "serving" /\ app' = settings
      /\ UNCHANGED <<toml, yaml, edits, environ, settings, runtime, read, found, labelled>>
  BY <1>1, <1>2 DEF Serve
<1>4. BootTyped'
  BY <1>1, <1>3 DEF BootInv, BootTyped
<1>5. Booting'
  BY <1>1, <1>3 DEF BootInv, Booting
<1> QED BY <1>4, <1>5 DEF BootInv

LEMMA BootStays ==
  ASSUME BootInv, [BootNext]_boot_vars
  PROVE  BootInv'
<1>1. CASE UNCHANGED boot_vars
  BY <1>1 DEF boot_vars, BootInv, Booting, BootTyped
<1> QED
  BY <1>1, FilesEdited, StartedOrStopped, Validated, Built, Served DEF BootNext

LEMMA Boots == BootSpec => []BootInv
BY BootStarts, BootStays, PTL DEF BootSpec

(* What a process that serves was asked for, in terms of its memo.           *)
LEMMA ServedSettings ==
  ASSUME BootInv, pc = "serving"
  PROVE  /\ settings \in Settings
         /\ settings.posture = (IF asked("posture") = "unset" THEN "normal"
                                ELSE asked("posture"))
         /\ settings.environment = (IF asked("environment") = "blank" THEN "unset"
                                    ELSE asked("environment"))
<1>1. /\ read \in Texts /\ environ \in Sources
      /\ settings = load_settings(read, environ) /\ settings \in Settings
      /\ settings \notin Errors
  BY StartupAssumption DEF BootInv, Booting, BootTyped
<1> QED
  BY <1>1, Loaded DEF asked, Unset

(* The environment a process serves is the configured one, if there is one;  *)
(* otherwise it is the default of the file found, or "production".           *)
LEMMA ServedEnvironment ==
  ASSUME BootInv, pc = "serving"
  PROVE  /\ runtime.floor = settings.posture /\ app = settings
         /\ settings.environment # "unset" =>
              /\ runtime.environment = settings.environment
              /\ runtime.environment \in runtime.environments
         /\ settings.environment = "unset" =>
              \/ runtime.environment \in runtime.environments
              \/ found \in Configs /\ runtime.environment = found.default_environment
<1> DEFINE c    == load_config(found, settings)
           name == configured_environment(settings, c)
<1>1. /\ settings \in Settings /\ c \in Configs /\ app = settings
      /\ runtime = [environment |-> name, environments |-> c.environments,
                    floor |-> settings.posture]
      /\ runtime.environment \in Names
      /\ found \in Configs \cup {NoFile, Malformed, Misshapen}
  BY DEF BootInv, Booting, BootTyped
<1>2. c \notin Errors
  BY <1>1, StartupAssumption
<1>3. IF found = NoFile
      THEN LET only == IF settings.environment = "unset" THEN "production"
                       ELSE settings.environment
           IN  c = [default_environment |-> only, environments |-> {only}]
      ELSE found \in Configs /\ c = found
  BY <1>1, <1>2, ConfigLoaded
<1> HIDE DEF c
<1>4. name \notin Errors
  BY <1>1, StartupAssumption
<1>5. /\ name = (IF settings.environment = "unset" THEN c.default_environment
                 ELSE settings.environment)
      /\ settings.environment # "unset" => settings.environment \in c.environments
  BY <1>1, <1>4, Chosen
<1> HIDE DEF name
<1> QED
  BY <1>1, <1>3, <1>5

(* A process serves the environment and the posture floor it was asked for,  *)
(* however the files are edited while it starts and serves, whatever names   *)
(* and directories there are (RIFRuntime._configured_environment,            *)
(* _apply_env_overrides).                                                    *)
THEOREM AskedForIsServed == BootSpec => []AskedIsServed
<1>1. BootInv => AskedIsServed
  <2> SUFFICES ASSUME BootInv, pc = "serving"
               PROVE  /\ asked("environment") \in Names
                           => runtime.environment = asked("environment")
                      /\ asked("posture") \in Postures
                           => runtime.floor = asked("posture")
    BY DEF AskedIsServed
  <2>1. ASSUME asked("environment") \in Names
        PROVE  runtime.environment = asked("environment")
    <3>1. asked("environment") \notin {"unset", "blank"}
      BY <2>1, StartupAssumption DEF Unset, Blank
    <3> QED BY <3>1, ServedSettings, ServedEnvironment
  <2>2. ASSUME asked("posture") \in Postures
        PROVE  runtime.floor = asked("posture")
    BY <2>2, ServedSettings, ServedEnvironment DEF Postures
  <2> QED BY <2>1, <2>2
<1> QED BY <1>1, Boots, PTL

(* The settings that are published are the ones the runtime was built from   *)
(* (get_settings).                                                           *)
THEOREM SettingsAreOne == BootSpec => []OneConfiguration
<1>1. BootInv => OneConfiguration
  BY ServedEnvironment DEF OneConfiguration, Unset
<1> QED BY <1>1, Boots, PTL

(* A process serves without a profile to decide by only when nothing was     *)
(* asked for and the file it found has a default that it does not define     *)
(* (RIFRuntime._configured_environment, runtime.py:117).                     *)
THEOREM MissingProfileHasOneCause ==
  BootSpec => []MissingProfileIsTheDefault
<1>1. BootInv => MissingProfileIsTheDefault
  <2> SUFFICES ASSUME BootInv, pc = "serving", runtime.environment \notin runtime.environments
               PROVE  /\ asked("environment") \in {"unset", "blank"}
                      /\ found \in Configs
                      /\ runtime.environment = found.default_environment
    BY DEF MissingProfileIsTheDefault, Unset, Blank
  <2>1. settings.environment = "unset"
    BY ServedEnvironment
  <2> QED BY <2>1, ServedSettings, ServedEnvironment
<1> QED BY <1>1, Boots, PTL
==============================================================================
