------------------------------ MODULE Runtime -------------------------------
(***************************************************************************)
(* RIFRuntime (runtime.py): the posture it keeps in memory, the decisions  *)
(* that move it, and the two files it survives in, decisions.jsonl and     *)
(* posture_history.jsonl.                                                  *)
(*                                                                         *)
(* Several processes run on one data directory ("rif serve" beside "rif    *)
(* check", cli.py).  Within a process the RLock runs one recorded          *)
(* evaluation or set_posture at a time, so a process has at most one       *)
(* operation under way; set_environment takes no lock.  Each append to a   *)
(* file is a step of its own: between any two of them other processes run, *)
(* an append may raise, and the process may stop.                          *)
(***************************************************************************)
EXTENDS Posture, Sequences

CONSTANTS
  Proc,                  \* processes on the data directory
  Floor,                 \* the configured posture (RIF_POSTURE)
  Env, DefaultEnv,       \* environment profiles; the one configured
  Request,               \* what clients ask to be decided
  PolicyVerdict(_, _),   \* decision of Policy for a request under a profile
  AppendMayFail,         \* whether an append may raise (disk full, damaged log)
  RowsMayTear,           \* whether a stop or a failure may leave part of a row
  MaxDecisions,          \* bound on the rows of decisions.jsonl
  MaxDenials,            \* bound on the denials a process remembers
  MaxTransitions,        \* bound on the operator's transitions
  None

Verdicts == {"allow", "deny", "review"}

ASSUME RuntimeAssumption ==
  /\ Floor \in Postures
  /\ DefaultEnv \in Env
  /\ \A r \in Request, e \in Env : PolicyVerdict(r, e) \in Verdicts
  /\ {AppendMayFail, RowsMayTear} \subseteq BOOLEAN
  /\ {MaxDecisions, MaxDenials, MaxTransitions} \subseteq Nat
  /\ None \notin Env \cup Request \cup Postures

VARIABLES
  up,          \* the processes that run
  posture,     \* the posture each process holds in memory
  denials,     \* denials of the last 60 minutes in each process's telemetry
  env,         \* environment_name of each process
  op,          \* the operation under way in each process, or None
  decided,     \* decisions.jsonl: rows, denials among them, Metasploit rows
  evidence,    \* rows of metasploit_evidence.jsonl
  history,     \* posture_history.jsonl: the rows that can be read,
  tail,        \* and how the file ends: "clean", "unended" or "broken"
  relaxed,     \* has an operator set the posture since the process started?
  confirmed    \* the posture the last set_posture returned, or None

files  == <<decided, evidence, history, tail>>
memory == <<posture, denials, env>>
ghosts == <<relaxed, confirmed>>
vars   == <<up, posture, denials, env, op, decided, evidence, history, tail,
            relaxed, confirmed>>

(* What an operation has computed and what it still has to append. *)
Ops ==
  [kind : {"decision", "metasploit", "operator"},
   stage : {"named", "decisions", "evidence", "history"},
   request : Request \cup {None},
   env : Env \cup {None},          \* environment_name, as read
   profile : Env \cup {None},      \* the profile the policy used
   verdict : Verdicts \cup {None},
   old : Postures]                 \* the posture before the operation

ASSUME NoneAssumption == None \notin Ops \cup Verdicts

Idle(p) == p \in up /\ op[p] = None

MayDecide(p) == Idle(p) /\ decided.rows < MaxDecisions /\ denials[p] < MaxDenials

-----------------------------------------------------------------------------
(* Start. *)

(* Mutant: the first row of the history instead of the last. *)
Restored_oldest ==
  IF history # <<>>
  THEN history[1].new_posture
  ELSE posture_for_denials(decided.denials)

(* _restored_posture: the last row of the history, else what the denials   *)
(* of the whole decision log imply.                                        *)
Restored ==
  IF history # <<>>
  THEN history[Len(history)].new_posture
  ELSE posture_for_denials(decided.denials)

(* _restore_posture: the configured posture is a floor. *)
StartPosture == at_least_posture(Restored, Floor)

(* Mutant: what cannot be parsed is skipped. *)
Startable_always == TRUE

(* read_all raises for a row that does not parse, and the start with it. *)
Startable == tail # "broken"

Start(p) ==
  /\ p \notin up /\ Startable
  /\ up' = up \cup {p}
  /\ posture' = [posture EXCEPT ![p] = StartPosture]
  /\ denials' = [denials EXCEPT ![p] = 0]
  /\ env' = [env EXCEPT ![p] = DefaultEnv]
  /\ relaxed' = [relaxed EXCEPT ![p] = FALSE]
  /\ UNCHANGED <<op, files, confirmed>>

(* The process is gone with its memory (the values here are never read). *)
Down(p) ==
  /\ p \in up
  /\ up' = up \ {p}
  /\ op' = [op EXCEPT ![p] = None]
  /\ posture' = [posture EXCEPT ![p] = Floor]
  /\ denials' = [denials EXCEPT ![p] = 0]
  /\ env' = [env EXCEPT ![p] = DefaultEnv]
  /\ relaxed' = [relaxed EXCEPT ![p] = FALSE]
  /\ UNCHANGED confirmed

(* It stops, with or without an operation under way. *)
Stop(p) == Down(p) /\ UNCHANGED files

-----------------------------------------------------------------------------
(* The history is a plain JsonlStore: a row is appended to what is there,  *)
(* with no look at how the file ends.                                      *)

Transition(p) ==
  [old_posture |-> op[p].old, new_posture |-> posture[p], by |-> op[p].kind]

(* A row of which only a part reached the file: all but its newline, or    *)
(* less, or any part of it behind one that was not ended.                  *)
Torn(p) ==
  /\ RowsMayTear
  /\ op[p] # None /\ op[p].stage = "history"
  /\ \/ tail' = "broken" /\ UNCHANGED history
     \/ /\ tail = "clean" /\ tail' = "unended"
        /\ history' = Append(history, Transition(p))
  /\ UNCHANGED <<decided, evidence>>

StopTorn(p) == Torn(p) /\ Down(p)

-----------------------------------------------------------------------------
(* Decisions. *)

(* Mutant: a denial is recorded in the telemetry twice. *)
Observe_twice(p, verdict, severe) ==
  LET seen == denials[p] + (IF verdict = "deny" THEN 2 ELSE 0)
      next == next_posture(posture[p], seen)
  IN  /\ denials' = [denials EXCEPT ![p] = seen]
      /\ posture' = [posture EXCEPT ![p] = IF severe THEN escalate_posture(next) ELSE next]

(* ReflexiveLoop.observe, then escalate_posture when the Metasploit         *)
(* governor calls the outcome severe.  All of it is in memory.              *)
Observe(p, verdict, severe) ==
  LET seen == denials[p] + (IF verdict = "deny" THEN 1 ELSE 0)
      next == next_posture(posture[p], seen)
  IN  /\ denials' = [denials EXCEPT ![p] = seen]
      /\ posture' = [posture EXCEPT ![p] = IF severe THEN escalate_posture(next) ELSE next]

Begun(kind, stage, request, name, profile, verdict, old) ==
  [kind |-> kind, stage |-> stage, request |-> request, env |-> name,
   profile |-> profile, verdict |-> verdict, old |-> old]

(* evaluate() takes the lock and reads environment_name ... *)
BeginEvaluate(p, r) ==
  /\ MayDecide(p)
  /\ op' = [op EXCEPT ![p] =
              Begun("decision", "named", r, env[p], None, None, posture[p])]
  /\ UNCHANGED <<up, memory, files, ghosts>>

(* ... then the profile, which reads environment_name again; the policy    *)
(* decides and record_decision observes.                                   *)
Evaluate(p) ==
  /\ p \in up /\ op[p] # None /\ op[p].stage = "named"
  /\ LET verdict == IF posture[p] = "locked" THEN "deny"
                    ELSE PolicyVerdict(op[p].request, env[p])
     IN  /\ Observe(p, verdict, FALSE)
         /\ op' = [op EXCEPT ![p].stage = "decisions",
                             ![p].profile = env[p],
                             ![p].verdict = verdict]
  /\ UNCHANGED <<up, env, files, ghosts>>

(* record_decision is also called with a decision made elsewhere (the      *)
(* refinement harness records a denial for a failed verification).         *)
RecordDecision(p, verdict) ==
  /\ MayDecide(p)
  /\ Observe(p, verdict, FALSE)
  /\ op' = [op EXCEPT ![p] =
              Begun("decision", "decisions", None, None, None, verdict, posture[p])]
  /\ UNCHANGED <<up, env, files, ghosts>>

(* Mutant: the evidence is appended before the decision is recorded. *)
EvaluateMetasploit_evidence_first(p, verdict, severe) ==
  /\ MayDecide(p)
  /\ verdict \in {"allow", "deny"}
  /\ severe => verdict = "deny" /\ posture[p] # "locked"
  /\ posture[p] = "locked" => verdict = "deny"
  /\ Observe(p, verdict, severe)
  /\ op' = [op EXCEPT ![p] =
              Begun("metasploit", "evidence", None, env[p], env[p], verdict, posture[p])]
  /\ UNCHANGED <<up, env, files, ghosts>>

(* evaluate_metasploit: a locked runtime denies before it looks further,   *)
(* and only denials are severe.                                            *)
EvaluateMetasploit(p, verdict, severe) ==
  /\ MayDecide(p)
  /\ verdict \in {"allow", "deny"}
  /\ severe => verdict = "deny" /\ posture[p] # "locked"
  /\ posture[p] = "locked" => verdict = "deny"
  /\ Observe(p, verdict, severe)
  /\ op' = [op EXCEPT ![p] =
              Begun("metasploit", "decisions", None, env[p], env[p], verdict, posture[p])]
  /\ UNCHANGED <<up, env, files, ghosts>>

(* The operation goes on to append a transition, if there was one. *)
ThenHistory(p) ==
  IF op[p].old # posture[p]
  THEN op' = [op EXCEPT ![p].stage = "history"]
  ELSE op' = [op EXCEPT ![p] = None]

AppendDecision(p) ==
  /\ op[p] # None /\ op[p].stage = "decisions"
  /\ decided' =
       [decided EXCEPT !.rows = @ + 1,
                       !.denials = @ + (IF op[p].verdict = "deny" THEN 1 ELSE 0),
                       !.metasploit = @ + (IF op[p].kind = "metasploit" THEN 1 ELSE 0)]
  /\ IF op[p].kind = "metasploit"
     THEN op' = [op EXCEPT ![p].stage = "evidence"]
     ELSE ThenHistory(p)
  /\ UNCHANGED <<up, memory, evidence, history, tail, ghosts>>

AppendEvidence(p) ==
  /\ op[p] # None /\ op[p].stage = "evidence"
  /\ evidence' = evidence + 1
  /\ ThenHistory(p)
  /\ UNCHANGED <<up, memory, decided, history, tail, ghosts>>

AppendTransition(p) ==
  /\ op[p] # None /\ op[p].stage = "history"
  /\ IF tail = "clean"
     THEN history' = Append(history, Transition(p)) /\ UNCHANGED tail
     ELSE tail' = "broken" /\ UNCHANGED history
  /\ op' = [op EXCEPT ![p] = None]
  /\ confirmed' = IF op[p].kind = "operator" THEN posture[p] ELSE confirmed
  /\ UNCHANGED <<up, memory, decided, evidence, relaxed>>

(* An append raises, which may leave a part of a transition: the caller    *)
(* gets the exception, memory keeps what was computed.                     *)
AppendRaises(p) ==
  /\ AppendMayFail
  /\ op[p] # None /\ op[p].stage \in {"decisions", "evidence", "history"}
  /\ op' = [op EXCEPT ![p] = None]
  /\ Torn(p) \/ UNCHANGED files
  /\ UNCHANGED <<up, memory, ghosts>>

-----------------------------------------------------------------------------
(* The operator. *)

(* set_posture and reset_posture: memory first, and a row only for a       *)
(* change.                                                                 *)
SetPosture(p, q) ==
  /\ Idle(p) /\ Len(history) < MaxTransitions
  /\ posture' = [posture EXCEPT ![p] = q]
  /\ relaxed' = [relaxed EXCEPT ![p] = TRUE]
  /\ IF posture[p] # q
     THEN /\ op' = [op EXCEPT ![p] =
                      Begun("operator", "history", None, None, None, None, posture[p])]
          /\ confirmed' = None
     ELSE /\ confirmed' = q
          /\ UNCHANGED op
  /\ UNCHANGED <<up, denials, env, files>>

(* set_environment does not take the lock. *)
SetEnvironment(p, e) ==
  /\ p \in up
  /\ env' = [env EXCEPT ![p] = e]
  /\ UNCHANGED <<up, posture, denials, op, files, ghosts>>

(* Denials leave the 60-minute window, or the capacity of the telemetry    *)
(* store (Telemetry has the detail).                                       *)
Forget(p) ==
  /\ p \in up /\ denials[p] > 0
  /\ \E n \in 0 .. (denials[p] - 1) : denials' = [denials EXCEPT ![p] = n]
  /\ UNCHANGED <<up, posture, env, op, files, ghosts>>

-----------------------------------------------------------------------------
Init ==
  /\ up = {}
  /\ posture = [p \in Proc |-> Floor]
  /\ denials = [p \in Proc |-> 0]
  /\ env = [p \in Proc |-> DefaultEnv]
  /\ op = [p \in Proc |-> None]
  /\ decided = [rows |-> 0, denials |-> 0, metasploit |-> 0]
  /\ evidence = 0
  /\ history = <<>>
  /\ tail = "clean"
  /\ relaxed = [p \in Proc |-> FALSE]
  /\ confirmed = None

Next ==
  \E p \in Proc :
    \/ Start(p) \/ Stop(p) \/ StopTorn(p)
    \/ \E r \in Request : BeginEvaluate(p, r)
    \/ Evaluate(p)
    \/ \E v \in Verdicts : RecordDecision(p, v)
    \/ \E v \in Verdicts, severe \in BOOLEAN : EvaluateMetasploit(p, v, severe)
    \/ AppendDecision(p) \/ AppendEvidence(p) \/ AppendTransition(p)
    \/ AppendRaises(p)
    \/ \E q \in Postures : SetPosture(p, q)
    \/ \E e \in Env : SetEnvironment(p, e)
    \/ Forget(p)

Spec == Init /\ [][Next]_vars

-----------------------------------------------------------------------------
(* Properties *)

Transitions ==
  [old_posture : Postures, new_posture : Postures,
   by : {"decision", "metasploit", "operator"}]

TypeOK ==
  /\ up \subseteq Proc
  /\ posture \in [Proc -> Postures]
  /\ denials \in [Proc -> Nat]
  /\ env \in [Proc -> Env]
  /\ op \in [Proc -> Ops \cup {None}]
  /\ decided \in [rows : Nat, denials : Nat, metasploit : Nat]
  /\ evidence \in Nat
  /\ history \in Seq(Transitions)
  /\ tail \in {"clean", "unended", "broken"}
  /\ relaxed \in [Proc -> BOOLEAN]
  /\ confirmed \in Postures \cup {None}

(* While a process runs, only an operator lowers its posture: no decision,  *)
(* no denial leaving the window, no failed append and nothing another       *)
(* process does (governance/posture.py:51-70).                              *)
OnlyOperatorRelaxes ==
  [][\A p \in Proc :
       (p \in up /\ p \in up' /\ ~(posture[p] \preceq posture'[p]))
         => \E q \in Postures : SetPosture(p, q)]_vars

(* The configured floor does not erode: however many decisions follow the   *)
(* start, the posture stays at or above it until an operator sets it        *)
(* (governance/posture.py:60-63, runtime.py:76-84).                         *)
FloorHolds ==
  \A p \in up : ~relaxed[p] => Floor \preceq posture[p]

(* A restart, at any moment, never starts a process below the posture it    *)
(* has now, or had before the operation the restart interrupts; where a     *)
(* torn row hides the posture it does not start at all                      *)
(* (runtime.py:62-92, docs/API.md:56-70).                                   *)
RestartNeverRelaxes ==
  Startable =>
    \A p \in up :
      (IF op[p] = None THEN posture[p] ELSE op[p].old) \preceq StartPosture

(* A posture that set_posture confirmed to an operator is not undone by a   *)
(* restart: the history "records every transition, including an operator's  *)
(* explicit set or reset" (runtime.py:65-67).                               *)
ConfirmedPostureSurvives ==
  (Startable /\ confirmed # None) => confirmed \preceq StartPosture

(* The audit trail explains the posture: a transition that denials alone    *)
(* caused is in the history only with the denials that imply it in the      *)
(* decision log, whatever stops in between (runtime.py:158-168).            *)
TransitionsExplained ==
  \A i \in DOMAIN history :
    history[i].by = "decision" =>
      history[i].new_posture \preceq posture_for_denials(decided.denials)

(* Metasploit evidence never runs ahead of the decision it is evidence of   *)
(* (runtime.py:251-252).                                                    *)
EvidenceHasDecision == evidence <= decided.metasploit

(* A decision is made under one environment: the profile the policy used is *)
(* the one of the environment the decision records (runtime.py:145-153).    *)
(* Not kept by the code: see Departures in README.md.                       *)
EnvironmentNotTorn ==
  \A p \in Proc :
    (op[p] # None /\ op[p].kind = "decision" /\ op[p].profile # None)
      => op[p].env = op[p].profile
=============================================================================
