--------------------------------- MODULE Api ---------------------------------
(***************************************************************************)
(* The HTTP surface (api.py) of one process: the guards of auth.py, every  *)
(* route, and the Supabase mirror that POST /v1/runs writes               *)
(* (integrations/supabase.py).  Calls run in the server's threads, side by *)
(* side.  A call that records a decision, sets the posture or simulates    *)
(* holds the runtime's lock; a call that reads takes no lock, and an audit *)
(* reads the log first and the live memory after.                          *)
(*                                                                         *)
(* A write to Supabase lands, fails, or lands and looks failed; the helper *)
(* swallows either failure.  The posture is kept as whether it is locked,  *)
(* which is what a verdict can depend on here; Runtime has the ladder.     *)
(***************************************************************************)
EXTENDS Naturals

CONSTANTS
  Call,        \* the calls made, each with its run_id
  Key,         \* API keys
  None

Verdicts == {"allow", "deny", "review"}

(* The HTTP status codes a call is answered with. *)
Codes == {200, 401, 403, 404, 422, 500, 503}

Statuses == {"policy_approved", "denied"}

ASSUME NoneAssumption ==
  /\ None \notin Verdicts \cup Statuses
  /\ None \notin Call \cup Key
  /\ None \notin Codes

(* dependencies=[ControlPlaneAuth] *)
ControlRoutes ==
  {"set_environment", "evaluate", "reset_posture", "posture",
   "metasploit_token", "upsert_policy", "delete_policy"}

(* dependencies=[ReadPlaneAuth] *)
ReadRoutes ==
  {"graph_summary", "telemetry_summary", "drift_recommend", "audit",
   "persistence_summary", "recovered_state", "list_policies"}

OpenRoutes ==
  {"health", "environments", "root", "mcp_invoke", "metasploit_capabilities",
   "metasploit_evaluate"}

Routes == ControlRoutes \cup ReadRoutes \cup OpenRoutes \cup {"create_run"}

VARIABLES
  keys,              \* RIF_CONTROL_PLANE_API_KEYS
  read_auth,         \* RIF_REQUIRE_READ_AUTH
  request,           \* the route of each call and the key it presents
  at,                \* how far each call is
  answer,            \* HTTP status, or None
  lock,              \* the call that holds RIFRuntime._lock, or None
  locked,            \* is the posture "locked"?
  saved,             \* ... and the last one in posture_history.jsonl?
  environment,       \* has the environment been changed?
  rules,             \* have the policies been changed?
  graph,             \* the calls whose decisions the graph and telemetry hold
  decision,          \* what the runtime decided for each call, in memory
  decisions,         \* decisions.jsonl: the verdict on record, or None
  inherited,         \* rows of decisions.jsonl from before the last restart
  execution_runs,    \* status of each run's row, or None
  evidence_ledger,   \* the decision in each run's evidence row, or None
  report             \* what each reading call has read

settings   == <<keys, read_auth, request>>
mirror     == <<execution_runs, evidence_ledger>>
memory     == <<locked, environment, graph>>
governance == <<memory, saved, rules, decisions>>
vars == <<settings, at, answer, lock, governance, decision, inherited, mirror, report>>

Logged == {c \in Call : decisions[c] # None}

-----------------------------------------------------------------------------
To(c, from, next) == at[c] = from /\ at' = [at EXCEPT ![c] = next]

Answer(c, code) == answer' = [answer EXCEPT ![c] = code]

On(c, routes) == request[c].route \in routes

(* auth.require_api_key: fails closed when no keys are configured. *)
require_api_key(c) == request[c].key \in keys

Passes(c) ==
  \/ On(c, OpenRoutes)
  \/ On(c, ControlRoutes) /\ require_api_key(c)
  \/ On(c, ReadRoutes) /\ (read_auth => require_api_key(c))
  \/ On(c, {"create_run"})   \* Supabase accepts the token

Admit(c) ==
  /\ To(c, "new", "admitted")
  /\ Passes(c)
  /\ UNCHANGED <<settings, answer, lock, governance, decision, inherited, mirror, report>>

(* No keys are configured or Supabase is not: 503; a missing or wrong key   *)
(* or token: 401.                                                           *)
Refuse(c) ==
  /\ To(c, "new", "done")
  /\ \/ On(c, {"create_run"}) /\ \E code \in {401, 503} : Answer(c, code)
     \/ ~Passes(c) /\ Answer(c, IF keys = {} THEN 503 ELSE 401)
  /\ UNCHANGED <<settings, lock, governance, decision, inherited, mirror, report>>

-----------------------------------------------------------------------------
(* Recording. *)

(* runtime.evaluate takes the lock, decides, and enters the decision into   *)
(* the graph and the telemetry, which may raise the posture.                *)
Decide(c, verdict) ==
  /\ On(c, {"evaluate", "create_run"})
  /\ lock = None /\ lock' = c
  /\ locked => verdict = "deny"
  /\ locked' \in {locked, TRUE}
  /\ To(c, "admitted", IF locked' = locked THEN "decided" ELSE "raised")
  /\ decision' = [decision EXCEPT ![c] = verdict]
  /\ graph' = graph \cup {c}
  /\ UNCHANGED <<settings, answer, saved, environment, rules, decisions, inherited,
                 mirror, report>>

(* ... or raises under the lock, before anything is decided: the policy file *)
(* does not parse, the profile is not configured.                           *)
EvaluateRaises(c) ==
  /\ On(c, {"evaluate", "create_run"})
  /\ lock = None
  /\ To(c, "admitted", "done")
  /\ Answer(c, 500)
  /\ UNCHANGED <<settings, lock, governance, decision, inherited, mirror, report>>

AfterEvaluate(c) == IF On(c, {"create_run"}) THEN "run" ELSE "respond"

(* The decision's row; the lock is kept for the row of a changed posture. *)
AppendDecision(c) ==
  /\ \/ To(c, "decided", AfterEvaluate(c)) /\ lock' = None
     \/ To(c, "raised", "logged") /\ UNCHANGED lock
  /\ decisions' = [decisions EXCEPT ![c] = decision[c]]
  /\ UNCHANGED <<settings, answer, memory, saved, rules, decision, inherited,
                 mirror, report>>

AppendTransition(c) ==
  /\ To(c, "logged", AfterEvaluate(c))
  /\ saved' = locked
  /\ lock' = None
  /\ UNCHANGED <<settings, answer, memory, rules, decisions, decision, inherited,
                 mirror, report>>

Appending == {"decided", "raised", "logged", "set"}

(* Mutant: an append that raises is swallowed, as the mirror's writes are. *)
AppendRaises_swallowed(c) ==
  /\ at[c] \in Appending \ {"set"}
  /\ at' = [at EXCEPT ![c] = AfterEvaluate(c)]
  /\ lock' = None
  /\ UNCHANGED <<settings, answer, governance, decision, inherited, mirror, report>>

(* Mutant: the lock is not released on the way out. *)
AppendRaises_leaks(c) ==
  /\ at[c] \in Appending
  /\ at' = [at EXCEPT ![c] = "done"]
  /\ Answer(c, 500)
  /\ UNCHANGED <<settings, lock, governance, decision, inherited, mirror, report>>

(* An append raises, that of the decision or that of the transition: the    *)
(* exception leaves the "with" block and the call fails.                    *)
AppendRaises(c) ==
  /\ at[c] \in Appending
  /\ at' = [at EXCEPT ![c] = "done"]
  /\ Answer(c, 500)
  /\ lock' = None
  /\ UNCHANGED <<settings, governance, decision, inherited, mirror, report>>

-----------------------------------------------------------------------------
(* POST /v1/runs: best effort, a row for the run and one for its evidence,  *)
(* which refers to it.                                                      *)

(* Mutant: a review counts as approved. *)
run_status_review_approved(verdict) ==
  IF verdict = "deny" THEN "denied" ELSE "policy_approved"

run_status(verdict) == IF verdict = "allow" THEN "policy_approved" ELSE "denied"

(* write_run: the row lands, or not. *)
write_run(c) ==
  /\ To(c, "run", "evidence")
  /\ \/ execution_runs' = [execution_runs EXCEPT ![c] = run_status(decision[c])]
     \/ UNCHANGED execution_runs
  /\ UNCHANGED <<settings, answer, lock, governance, decision, inherited,
                 evidence_ledger, report>>

(* The table's foreign key refuses evidence of a run that has no row. *)
Insertable(c) == execution_runs[c] # None

write_evidence(c) ==
  /\ To(c, "evidence", "respond")
  /\ \/ /\ Insertable(c)
        /\ evidence_ledger' = [evidence_ledger EXCEPT ![c] = decision[c]]
     \/ UNCHANGED evidence_ledger
  /\ UNCHANGED <<settings, answer, lock, governance, decision, inherited,
                 execution_runs, report>>

(* A run that is not allowed is answered 403, an evaluation always 200. *)
Respond(c) ==
  /\ To(c, "respond", "done")
  /\ Answer(c, IF On(c, {"create_run"}) /\ decision[c] # "allow" THEN 403 ELSE 200)
  /\ UNCHANGED <<settings, lock, governance, decision, inherited, mirror, report>>

-----------------------------------------------------------------------------
(* The other routes that change something. *)

(* set_posture, and reset, which sets "normal": memory under the lock, then *)
(* a row if the posture changed.                                            *)
SetPosture(c, to_locked) ==
  /\ On(c, {"posture"} \cup (IF to_locked THEN {} ELSE {"reset_posture"}))
  /\ lock = None /\ locked' = to_locked
  /\ IF locked = to_locked
     THEN To(c, "admitted", "done") /\ Answer(c, 200) /\ UNCHANGED lock
     ELSE To(c, "admitted", "set") /\ lock' = c /\ UNCHANGED answer
  /\ UNCHANGED <<settings, environment, graph, saved, rules, decisions, decision,
                 inherited, mirror, report>>

AppendSetting(c) ==
  /\ To(c, "set", "done")
  /\ saved' = locked
  /\ lock' = None
  /\ Answer(c, 200)
  /\ UNCHANGED <<settings, memory, rules, decisions, decision, inherited, mirror, report>>

(* An unknown name is 404; a known one is assigned without the lock. *)
SetEnvironment(c) ==
  /\ On(c, {"set_environment"})
  /\ To(c, "admitted", "done")
  /\ \/ environment' = TRUE /\ Answer(c, 200)
     \/ Answer(c, 404) /\ UNCHANGED environment
  /\ UNCHANGED <<settings, lock, locked, graph, saved, rules, decisions, decision,
                 inherited, mirror, report>>

(* PolicyStore has no lock of the runtime either; its write may raise. *)
WritePolicy(c) ==
  /\ On(c, {"upsert_policy", "delete_policy"})
  /\ To(c, "admitted", "done")
  /\ \/ rules' = TRUE /\ Answer(c, 200)
     \/ \E code \in {200, 500} : Answer(c, code) /\ UNCHANGED rules
  /\ UNCHANGED <<settings, lock, memory, saved, decisions, decision, inherited,
                 mirror, report>>

(* Mutant: the simulation records what it decided. *)
Simulate_recorded(c) ==
  /\ On(c, {"mcp_invoke", "metasploit_evaluate"})
  /\ To(c, "admitted", "done")
  /\ lock = None
  /\ Answer(c, 200)
  /\ graph' = graph \cup {c}
  /\ UNCHANGED <<settings, lock, locked, environment, saved, rules, decisions,
                 decision, inherited, mirror, report>>

(* The dry runs: record=False returns before anything is recorded; an       *)
(* evaluation may raise.                                                    *)
Simulate(c) ==
  /\ On(c, {"mcp_invoke", "metasploit_evaluate"})
  /\ To(c, "admitted", "done")
  /\ lock = None
  /\ \E code \in {200, 500} : Answer(c, code)
  /\ UNCHANGED <<settings, lock, governance, decision, inherited, mirror, report>>

(* What answers from constants, from one assignment or from one file; a     *)
(* token is minted without a record.                                        *)
Plain(c) ==
  /\ On(c, {"health", "environments", "root", "metasploit_capabilities",
            "metasploit_token", "list_policies"})
  /\ Answer(c, 200)

(* A payload that does not validate is 422 where the route catches that, and *)
(* 500 where it does not, as is a policy file that does not parse.           *)
Malformed(c) ==
  \/ On(c, {"metasploit_evaluate", "metasploit_token"}) /\ Answer(c, 422)
  \/ On(c, {"mcp_invoke", "metasploit_token", "list_policies"}) /\ Answer(c, 500)

Simple(c) ==
  /\ To(c, "admitted", "done")
  /\ Plain(c) \/ Malformed(c)
  /\ UNCHANGED <<settings, lock, governance, decision, inherited, mirror, report>>

-----------------------------------------------------------------------------
(* Summaries.  None of them takes the runtime's lock. *)

AfterLog(c) == IF On(c, {"audit"}) THEN "live" ELSE "respond"

(* Mutant: the audit collects its live part before it reads the log. *)
ReadLog_after_live(c) ==
  /\ On(c, {"audit", "persistence_summary", "recovered_state"})
  /\ \/ To(c, "admitted", "again") /\ report' = [report EXCEPT ![c].live = graph]
     \/ /\ To(c, "again", IF On(c, {"audit"}) THEN "iterating" ELSE "respond")
        /\ report' = [report EXCEPT ![c].rows = Logged]
  /\ UNCHANGED <<settings, answer, lock, governance, decision, inherited, mirror>>

(* audit_summary, persisted_summary and recover read the rows once and take *)
(* every figure from them: total and hash chain, counts by result and rule, *)
(* or graph and denials.                                                    *)
ReadLog(c) ==
  /\ On(c, {"audit", "persistence_summary", "recovered_state"})
  /\ To(c, "admitted", AfterLog(c))
  /\ report' = [report EXCEPT ![c].rows = Logged]
  /\ UNCHANGED <<settings, answer, lock, governance, decision, inherited, mirror>>

(* recover reads the log and the summaries count posture_history.jsonl      *)
(* without a lock: half a row of an append under way does not parse.        *)
ReadRaises(c) ==
  /\ \/ /\ On(c, {"recovered_state"})
        /\ \E d \in Call : at[d] \in {"decided", "raised"}
        /\ To(c, "admitted", "done")
     \/ /\ On(c, {"audit", "persistence_summary"})
        /\ \E d \in Call : at[d] \in {"logged", "set"}
        /\ To(c, IF On(c, {"audit"}) THEN "iterating" ELSE "admitted", "done")
  /\ Answer(c, 500)
  /\ UNCHANGED <<settings, lock, governance, decision, inherited, mirror, report>>

(* The live part begins to iterate over the telemetry and the graph ... *)
ReadLive(c) ==
  /\ \/ To(c, "live", "iterating")
     \/ /\ On(c, {"graph_summary", "telemetry_summary", "drift_recommend"})
        /\ To(c, "admitted", "iterating")
  /\ report' = [report EXCEPT ![c].live = graph]
  /\ UNCHANGED <<settings, answer, lock, governance, decision, inherited, mirror>>

(* ... and ends; a decision recorded meanwhile may have raised "mutated     *)
(* during iteration".                                                       *)
EndLive(c) ==
  /\ To(c, "iterating", "done")
  /\ \E code \in {200, 500} :
       /\ Answer(c, code)
       /\ code = 500 => graph # report[c].live
  /\ UNCHANGED <<settings, lock, governance, decision, inherited, mirror, report>>

-----------------------------------------------------------------------------
(* The process stops and starts again: calls under way end without answer,  *)
(* memory is rebuilt from the history.                                      *)
Restart ==
  /\ at' = [c \in Call |-> IF at[c] = "new" THEN "new" ELSE "done"]
  /\ lock' = None
  /\ locked' = saved /\ environment' = FALSE /\ graph' = {}
  /\ decision' = [c \in Call |-> None]
  /\ inherited' = Logged
  /\ UNCHANGED <<settings, answer, saved, rules, decisions, mirror, report>>

NoReport == [rows |-> {}, live |-> {}]

Init ==
  /\ keys \in SUBSET Key
  /\ read_auth \in BOOLEAN
  /\ request \in [Call -> [route : Routes, key : Key \cup {None}]]
  /\ at = [c \in Call |-> "new"]
  /\ answer = [c \in Call |-> None]
  /\ lock = None
  /\ locked \in BOOLEAN /\ saved = locked
  /\ environment = FALSE /\ rules = FALSE
  /\ graph = {}
  /\ decision = [c \in Call |-> None]
  /\ decisions = [c \in Call |-> None]
  /\ inherited = {}
  /\ execution_runs = [c \in Call |-> None]
  /\ evidence_ledger = [c \in Call |-> None]
  /\ report = [c \in Call |-> NoReport]

(* What a call that was admitted does without being asked again. *)
Step(c) ==
  \/ \E v \in Verdicts : Decide(c, v)
  \/ EvaluateRaises(c)
  \/ AppendDecision(c) \/ AppendTransition(c) \/ AppendRaises(c)
  \/ write_run(c) \/ write_evidence(c) \/ Respond(c)
  \/ \E q \in BOOLEAN : SetPosture(c, q)
  \/ AppendSetting(c) \/ SetEnvironment(c) \/ WritePolicy(c)
  \/ Simulate(c) \/ Simple(c)
  \/ ReadLog(c) \/ ReadRaises(c) \/ ReadLive(c) \/ EndLive(c)

Next ==
  \/ \E c \in Call : Admit(c) \/ Refuse(c) \/ Step(c)
  \/ Restart

(* Threads run; each call takes the lock once, so it is not passed over for *)
(* ever.                                                                    *)
Spec == Init /\ [][Next]_vars /\ \A c \in Call : WF_vars(Step(c))

-----------------------------------------------------------------------------
(* Properties *)

TypeOK ==
  /\ request \in [Call -> [route : Routes, key : Key \cup {None}]]
  /\ at \in [Call -> {"new", "admitted", "decided", "raised", "logged", "run",
                      "evidence", "respond", "set", "live", "iterating", "done"}]
  /\ answer \in [Call -> Codes \cup {None}]
  /\ lock \in Call \cup {None}
  /\ decision \in [Call -> Verdicts \cup {None}]
  /\ decisions \in [Call -> Verdicts \cup {None}]
  /\ execution_runs \in [Call -> Statuses \cup {None}]
  /\ evidence_ledger \in [Call -> Verdicts \cup {None}]

(* A verdict that was answered by a recording route is in the local log     *)
(* before the client hears of it, whichever mirror writes failed: "a policy *)
(* denial still writes evidence before returning 403 so the decision is     *)
(* always auditable" (api.py:276-277).                                      *)
Auditable(c) ==
  /\ On(c, {"create_run"}) /\ answer[c] = 200 => decisions[c] = "allow"
  /\ On(c, {"create_run"}) /\ answer[c] = 403 => decisions[c] \in {"deny", "review"}
  /\ On(c, {"evaluate"}) /\ answer[c] = 200 => decisions[c] # None

AnswersAreAuditable == \A c \in Call : Auditable(c)

(* The mirror never says what the authoritative log does not: a row is there *)
(* only for a decision on record, and calls that run side by side do not mix *)
(* their rows (supabase.py:105-109).                                         *)
Mirrored(c) ==
  /\ execution_runs[c] # None =>
       /\ decisions[c] # None
       /\ execution_runs[c] = "policy_approved" <=> decisions[c] = "allow"
  /\ evidence_ledger[c] # None => evidence_ledger[c] = decisions[c]

MirrorFollowsLog == \A c \in Call : Mirrored(c)

(* What the process decides by changes only on behalf of a caller with a    *)
(* configured API key, or of a user Supabase vouches for: no other call     *)
(* "can mutate posture or write to the decision log" (api.py:164-166,       *)
(* 189-191, auth.py:5-7), however the calls interleave.                     *)
Vouched(c) ==
  \/ On(c, ControlRoutes) /\ request[c].key \in keys
  \/ On(c, {"create_run"})

OnlyVouchedCallsGovern ==
  [][governance' # governance =>
       Restart \/ \E c \in Call : at'[c] # at[c] /\ Vouched(c)]_vars

(* An audit never lists a decision of this process on disk that its own     *)
(* live graph lacks: the graph is written before the log and read after it  *)
(* (runtime.py:159-163, 302-310).                                           *)
LiveCoversPersisted ==
  \A c \in Call :
    On(c, {"audit"}) /\ answer[c] = 200 =>
      report[c].rows \ inherited \subseteq report[c].live

(* Every call that was admitted ends: none waits for the lock of a call     *)
(* that failed.                                                             *)
CallsEnd == \A c \in Call : at[c] = "admitted" ~> at[c] = "done"

(* "One row per call to POST /v1/runs" (migrations/001_rif_tables.sql:36):   *)
(* a call that was answered has its row.                                     *)
(* Not kept by the code: see Departures in README.md.                        *)
OneRowPerCall ==
  \A c \in Call :
    On(c, {"create_run"}) /\ answer[c] \in {200, 403} => execution_runs[c] # None
==============================================================================
