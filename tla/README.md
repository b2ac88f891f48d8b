# RIF Runtime: a TLA+ model of the governed runtime

These modules model the parts of `src/rif_runtime` that decide, record and
survive: the posture that ratchets with denials, the hash-chained decision log,
the rules and the file they live in, Metasploit approvals, governed execution,
every route of the HTTP surface with its guard and the mirror behind it, the way
a process comes up, and the code-refinement harness under `rif-evals/`.  TLC
checks small instances; TLAPS proves, for every value of the constants, the
theorems listed below.

    tlc -workers 2 -config RuntimeOne.cfg MCRuntime.tla
    tlapm RuntimeProofs.tla

## The system

| Part | State | Operations | What is hard |
|---|---|---|---|
| `runtime.py` | posture, environment in memory; `decisions.jsonl`, `posture_history.jsonl`, `metasploit_evidence.jsonl` | evaluate, record_decision, evaluate_metasploit, set_posture, set_environment, restore at start | memory moves before the files; a stop or a failed append between two appends; a row that tears; two processes on one data directory (`rif check` beside `rif serve`); reads without the lock |
| `governance/` posture, reflexive, telemetry, drift | the last 1000 decisions with their times | observe, denial_count, drift_vector, recommend_correction | the window slides, the queue evicts, an operator lowers the posture in between; rates at their thresholds |
| `storage/jsonl.py`, `audit.py`, `replay.py` | one file, its flock | append, read_all, verify; an unlocked replay | writers that read the tail, short writes, readers between two writes; writer and reader cut the file into lines differently |
| `policy.py`, `configuration/policies.py`, `configuration/store.py` | `policies.json` and its temporary file | evaluate, upsert, delete, seed, upgrade at boot | precedence and ties; read, change and write without a lock; crashes between write and rename |
| `mcp/metasploit.py`, `mcp/capabilities.py`, `security.py` | signing key, tokens held by clients, evidence | mint_token, evaluate, verify_evidence, restart | expiry, edited tokens, a key that changes, the order of the lanes |
| `capabilities/`, `execution/` | adapters, records, evidence | register, register_record, add_evaluation, execute_capability | the registry has no lock; authorization, admission, execution and evidence are separate steps |
| `api.py`, `auth.py`, `graph/memory.py`, `integrations/supabase.py` | the live graph, the runtime's lock, the answers, two mirror tables | 21 routes, of which six take the runtime's lock; the others read, or write the environment name or the policy file, without it | guards that must fail closed, a lock that must come back, summaries and audits taken while decisions are recorded, mirror writes that fail or land unseen |
| `config.py`, `startup.py`, the import order of `api.py` | `rif.toml`, `environments.yaml`, `RIF_*`, the memo, `app.state` | validate_config, RIFRuntime(), config_lifespan | files edited between the steps; what a blank value means; half-configured boots |
| `rif-evals/code_refinement_mst` | candidate, trace, posture, score; a trace file and two reports | run_session, score_session, write_session, write_report, exit status | a session's own failures close its gate; counts kept in three places; reports rewritten in place by two commands |
| `explainability.py`, `resources/`, `mcp/corpus.py`, part of `agents/`, the printing of `cli.py` | none that outlives a call | | see "Not modelled" |

An HTTP request passes its guard and reaches the runtime through `api.py`; the
runtime asks the policy engine with the rules of `PolicyStore` under its current
environment and posture, observes the decision (telemetry, ratchet), appends it
to the chained log, and appends a posture transition if there was one.
Metasploit intents and governed executions take the same way and write evidence
of their own.  At the next start the posture is restored from these files, above
the configured floor.

## Modules

| Module | Models | State and actions |
|---|---|---|
| `Posture` | `governance/posture.py` | pure operators: the ladder, `posture_for_denials`, `next_posture` |
| `Runtime` | `runtime.py`, `replay.recover_posture` | `op[p]` is the operation under way in process `p` with what it has yet to append; each append is an action that may raise, `Stop` and `StopTorn` may come between any two; `tail` is how the history file ends: clean, a row without its newline, or a broken line |
| `DenialWindow` | what the reflexive loop promises | a posture and a count of denials that may be forgotten; `Runtime`'s `Observe` and `Forget` are its actions |
| `Telemetry` | `governance/telemetry.py`, `reflexive.py` | the queue with its times under a clock that ticks; implements `DenialWindow` |
| `Drift` | `governance/drift.py` | rates of a window as exact comparisons, its entropy as a test on how often each target occurs; `Telemetry` gives it the windows |
| `AppendOnlyLog` | what a decision log promises | rows are only ever appended, each linked to the one before |
| `ChainedLog` | `storage/jsonl.py`, `audit.py`, the read of `replay.py` | a file is terminated lines and one unterminated piece; `AcquireEX`, `ReadTail`, `WriteHead`, `Flush`, `Unlock` are the steps of `append`; append and tail read cut the file at newlines (`Contents`, `Parses`), the readers at every line separator (`Reads`); a fault stops a writer after a part of its row, or of all but the newline; implements `AppendOnlyLog` |
| `PolicyEngine` | `policy.py`, `configuration/policies.py` | pure operators: `evaluate` over the labels of a name, and what an upsert, a deletion and the upgrade make of a list of rules |
| `Policy` | `configuration/policies.py` | `rules`, with `Upsert`, `Delete` and `Boot` atomic |
| `PolicyStore` | `configuration/store.py` under `policies.py` | the file and its temporary file; clients that read, open, write and rename; `met` remembers whether two of them overlapped, and until then it implements `Policy` through `INSTANCE Policy WITH rules <- ...` |
| `Metasploit` | `mcp/metasploit.py`, `mcp/capabilities.py` | tokens minted and presented in edited copies, a clock, restarts; `MatchedRule` is the order of tests in `evaluate` |
| `Capabilities` | `capabilities/registry.py`, `execute_capability` | one execution at a time (the RLock) in four steps, registry operations in between; an adapter returns any status or raises, and evaluating may raise |
| `Api` | `api.py`, `auth.py`, `graph/memory.py`, `integrations/supabase.py` | calls side by side, each `new`, admitted or refused by its guard, then the steps of its route; `lock` is the runtime's RLock, `graph` the decisions the live memory holds, `report` what a reading call has read; `Restart` ends every call and empties memory |
| `Startup` | `config.py`, `startup.py`, `RIFRuntime.__init__` | `ValidateConfig`, `BuildRuntime`, `Serve`, with edits of the two files in between; errors are model values, so a refusal knows which exception it was |
| `RefinementSession` | `run_session`, `score.py` | a turn is `Gate` then `Verify`; `Score` folds the trace |
| `Report` | `main`, `write_session`, `write_report` | extends `RefinementSession`: trace file, JSON and Markdown report, each opened (truncated) and written in two steps, beside another command on the same reports |

`MC*` modules hold the constants of the runs, `*Proofs` modules the theorems:
`RuntimeProofs` those of `Posture`, `Runtime` and `Startup`,
`PolicyStoreProofs` those of `Policy` and `PolicyStore`,
`TelemetryProofs` those of `Telemetry` and `Drift`, `ReportProofs` those of
`RefinementSession` and `Report`, and the others those of the module they are
named for.  A proof module extends what it is about, so the specifications of
`Policy`, `Startup` and `Report` have names of their own: `RulesSpec`,
`BootSpec`, `ReportSpec`.

Operators that end in a suffix and are introduced by "Mutant:" are plausible
mistakes; they belong to no specification.  Substituting one for the definition
it stands before makes TLC find the property named in `PROJECT.json` violated.

Abstractions.  A digest is any map on the abstract row (`ChainedLog`), free of
collisions on the instances, or the record digested (`Metasploit`).  Denial
thresholds 3, 10, 20 are constants; the runs use 1, 2, 3.
`Runtime` keeps of the telemetry a count that forgets, as `DenialWindow` does;
`Api` keeps of the posture whether it is locked.  The bytes of the tail window
are one step.  In `Startup`, posture, environment and config_dir stand for the
eleven settings, one for each of the three ways a blank value is treated.
The entropy of a window is a function of how often each target occurs, and of
its logarithms the code keeps one comparison, with 0.5; the counts that pass it
are the constant `Concentrated` of `Drift`.  The theorems hold for any such set;
`MCTelemetry` gives the exact one for two targets and up to seven decisions.
A loop that filters a list is given by its result: `recent` restricts the queue
to the positions in the window, `Keep` in `PolicyEngine` lists the rules at the
positions that pass, in their order, and `verify` says of each line that is not
blank what the code's scan checks of it.  A name in `PolicyEngine` is any
sequence of labels.

## Runs

Runs that pass:

| Run | Bounds | States | Shows |
|---|---|---|---|
| `MCChainedLog` | 3 processes, 3 events, 0..1 older lines, torn rows and lost newlines; fair | 243,708 | one chain whatever the interleaving, torn rows stop appends, no acknowledged row is lost, rows that are edited, swapped, removed or rewritten inside the chain are detected, refinement of `AppendOnlyLog`, and every append under way ends once callers pause: nobody keeps the lock, also after an append that raises |
| `RuntimeOne` | 1 process, floor "elevated", 3 decisions, 3 denials, 2 operator transitions; rows may tear | 664,320 | floor, restart, confirmed posture and a history that explains every posture, with stops at every step and inside a row |
| `RuntimeFaults` | 2 processes, 1 decision on record, 1 denial each, 1 operator transition; appends may raise or tear | 3,677,644 | evidence only of decisions on record, and only an operator lowers a posture: neither depends on an append succeeding, nor on having the data directory to oneself |
| `TelemetryWindow` | a queue of 3, a window of 1, clock 0..3, 5 decisions; windows of up to 7 decisions | 686,156 | bursts of denials are contained unless the queue overflowed within the hour, allowing raises nothing, the recommendation for every window contains it and asks for no more; refinement of `DenialWindow` |
| `PolicyRules` | two rules of 18 shapes each around the shipped ones, every order; a legacy file | 11,754 | precedence and default; the upgrade at boot changes only what the restored rule decides |
| `PolicyStoreTwo` | 2 clients, 2 rules, crashes anywhere | 1,046,886 | the file is whole unless two writes met; an upsert stands, and the file refines `Policy`, until two updates overlap |
| `MetasploitTokens` | 1 token, clock 0..2, 1 restart, lifetimes 0 and 2, either kind of key | 15,656 | authority only by a token minted for the intent that is current; what a configured key adds |
| `CapabilitiesAll` | 1 name, 2 adapters, 2 executions | 7,386 | nothing runs unless authorized and admitted; answers have evidence |
| `SessionGoverned` | 3 turns, thresholds 1, 2, 3, then the reports beside another command | 3,226,320 | trace, score and decision log agree; rows of the report are kept until two commands meet or one is stopped; a fully blocked score is marked and exits 1 |
| `ApiServed` | 2 calls of any two routes, 1 key configured or none, restarts; fair; deadlock checked | 732,016 | answered verdicts are on record, the mirror follows the log, only vouched calls govern, an audit's live half covers its persisted half, every admitted call ends |
| `StartupBoots` | 2 environments, 2 directories, every source, 1 edit | 1,593,026 | what was asked for is served, from one configuration, and a profile is missing only where the default itself has none |

The bounds are enough for what is asked.  In `RuntimeFaults` one denial per
process is enough to reach every rung, because a severe Metasploit denial
escalates on top of what the count implies.  Two writers and three rows hold every
order of tail read and write and a row after each, and a third process lets
readers overlap while a writer waits; two older lines are a matter of
`LastBefore`, which the proofs take for any number; two adjacent rungs of the
ladder and one more are all a ratchet can cross in a step, and three decisions
reach the top; a queue of three with five decisions evicts under a window that
slides by one, by more and not at all; seven decisions meet every rate `Drift`
compares with from both sides; two rules and a catch-all are every pair
precedence can compare; one edit between two steps of a boot is what the memo
guards against; two calls are every pair of routes, the lock included.  Bounds
are constants named `Max...`, or the size of a set of names that are used once
(events, manifests, calls).  Deadlock checking is off where such a name runs
out, and on elsewhere.

`ConfiguredKeyHolds` is about a configured `RIF_MSF_BROKER_KEY`: with a key each
process draws for itself (metasploit.py:212) evidence and approvals end with the
process, which the run also reaches.

One run is expected to fail.  `RuntimeStale` checks `RestartNeverRelaxes` with
two processes on one data directory: the history's last row may be the lower
posture of the other process, and the one that was locked down restarts below
where it was (the finding in `PROJECT.json`).  `OneRuntimeRestarts` proves the
same property for one process.

### Fairness

Two runs assume any, and all of it is weak.  In `MCChainedLog`, weak fairness
of the steps a process makes once it has called append, and of ending a read it
has begun: the operating system schedules it, and grants a lock that stays free.  flock prefers no waiter, so
readers that overlap may keep a writer waiting for as long as they come;
`AppendsDrain` therefore claims no turn for a waiting writer while calls keep
coming, but that every append under way comes back once they pause, which a
leaked lock would prevent.  In `ApiServed`, weak fairness of each call's steps
(the server's threads run).
Faults, restarts and new calls and reads are not fair.  Every other property is
safety.

### Departures

The modules also state, each next to the text it quotes, what the repository
says and the code does not do.  They are not runs of the project; to see a
counterexample, name the definition as the INVARIANT of the configuration given.

| Definition | In | Configuration | What the code does |
|---|---|---|---|
| `SeparatorsReadBack` | `ChainedLog` | `MCChainedLog` | with no fault of any kind: a record with U+0085, U+2028 or U+2029 in a string is one row to append, which writes it unescaped (jsonl.py:288) and cuts the tail at newlines (221); `read_all` and replay cut with `str.splitlines` (jsonl.py:184, replay.py:37) and raise from then on, while the row is acknowledged and later rows link to it (against jsonl.py:284-286, "json.loads reads either") |
| `ReplayReadsSucceed` | `ChainedLog` | `MCChainedLog` | replay.py:37 reads without the lock jsonl.py:159-168 calls for |
| `AckedRowsSurvive` without `NewlineLost` | `ChainedLog` | `MCChainedLog` | a write that loses only its newline leaves a tail that parses (jsonl.py:236-247), so the next row is glued to it and both are lost |
| `ConfirmedPostureSurvives` | `Runtime` | `RuntimeOne` with `AppendMayFail = TRUE` | a set_posture retried after a failed append is confirmed and never recorded (runtime.py:131-137) |
| `TransitionsExplained` | `Runtime` | `RuntimeFaults` with `MaxDenials = 2` | a decision whose append failed still counts towards the next one's posture (runtime.py:162-163) |
| `EnvironmentNotTorn` | `Runtime` | `RuntimeOne` | environment_name and profile are two reads, set_environment takes no lock (runtime.py:143-150) |
| `NamedPairApplies` | `Policy` | `PolicyRules` with a rule whose target is in capitals | the request is lower-cased, the rule is not (policy.py:21-25, against 85-87) |
| `DeletionStops` | `Policy` | `PolicyRules` | a deleted required rule is back at the next boot (policies.py:73-96, against 25-27) |
| `FileReadable`, `UpsertsStand` | `PolicyStore` | `PolicyStoreTwo` | clients share one temporary name and overwrite each other's rules (store.py:20-23, policies.py:101-106) |
| `DeniedNeverRan` | `Capabilities` | `CapabilitiesAll` | an adapter may return DENIED itself after it ran, and the kernel hands it on (kernel.py:28); the evidence tells the two apart, the answer does not |
| `RunsUnderAdmission` (as PROPERTY) | `Capabilities` | `CapabilitiesAll` | an adapter registered straight with the registry between admission and execution replaces the record that was admitted (registry.py:45-47, against runtime.py:180) |
| `AttemptsHaveEvidence` | `Capabilities` | `CapabilitiesAll` | an execution whose admission or adapter raises leaves no evidence (runtime.py:208-209, against execution/result.py:22-23) |
| `RefinedOnlyIfAllowed` | `RefinementSession` | `SessionGoverned` | a review verdict refines (run_session.py:113, against tests/test_code_refinement_mst.py:121-122) |
| `ScoreCountsVerifiedTurns` | `RefinementSession` | `SessionGoverned` | blocked turns count in a score called meaningful (score.py:43-45, run_session.py:179) |
| `ReportKeepsRows` without its proviso | `Report` | `SessionGoverned` | two commands that meet lose a row, and a stop between truncation and write leaves a report no later command can read (run_session.py:219) |
| `OneRowPerCall` | `Api` | `ApiServed` | a failed mirror write is swallowed and the call answered (supabase.py:137, against 001_rif_tables.sql:36) |
| `BlankIsUnset` | `Startup` | `StartupBoots` | a blank RIF_ENVIRONMENT masks the name in rif.toml (config.py:223, against 64 and 140) |
| `ServesDefinedProfile` | `Startup` | `StartupBoots` | a default environment without a profile boots, and every evaluation raises KeyError (runtime.py:117, against startup.py:42-44) |
| `RefusalsAreLabelled` | `Startup` | `StartupBoots` | a file that does not parse is refused without the diagnostic (startup.py:49, against 20-21) |

## Theorems

| Theorem | Says | Argument |
|---|---|---|
| `RuntimeProofs!Ratchet` | `next_posture` never lowers, and reaches what the denials imply | case analysis on the ladder, through the lemma that `at_least_posture` is an upper bound |
| `ChainedLogProofs!Typing` | `[](TypeOK /\ EntriesWellFormed)` | inductive with the clause that a process past its call holds an entry |
| `ChainedLogProofs!Locking` | `[]LockDiscipline` | the holder of LOCK_EX is the one process between acquire and unlock, and excludes readers |
| `ChainedLogProofs!ChainNeverForks` | `[]Linked` | `Linked` is not inductive: between the tail read and the write another process could append.  The strengthening `Sound` adds `LinkIsTail`, that the link a writer holds is still the hash of the tail; it is kept because of `Locking`.  `LastBeforeStable` says appending does not change the link of earlier lines |
| `ChainedLogProofs!LockedReadsAreSound` | `[]LockedReadsSucceed` | `Shape` says what the end of the file may be at each step of the one writer; a reader that holds the lock finds no writer |
| `ChainedLogProofs!DamageIsFinal` | `DamageStopsAppends` | a writer past its tail read found the tail sound, and by `Shape` and `Locking` it still is |
| `ChainedLogProofs!AcknowledgedRowsStay` | `[]AckedRowsSurvive` | `Single`: event identities on disk and in flight are distinct, newline lost or not; `Kept`: what is acknowledged, or flushed and about to be, is a whole line between newlines, inductive until `NewlineLost`.  It says nothing of what a reader makes of that line: `SeparatorsReadBack` |
| `ChainedLogProofs!Implementation` | `ImplementsAppendOnlyLog` | the refinement: `WriteHead` and its newline map to `Commit`, the return to `Acknowledge`, everything else to a stutter; from `Sound`, `Shape` and `Kept` |
| `RuntimeProofs!Typing` | `[](TypeOK /\ OpsWellFormed)` | inductive with the shape of an operation under way |
| `RuntimeProofs!RatchetHolds` | `OnlyOperatorRelaxes` | every action but `SetPosture` raises or keeps the posture, by `Ratchet` |
| `RuntimeProofs!FloorNeverErodes` | `[]FloorHolds` | inductive given the types: a start applies the floor, other steps raise |
| `RuntimeProofs!OneRuntimeRestarts` | `[]RestartNeverRelaxes` for one process whose appends succeed unless it stops | while an operation is under way the history is that of before it; both assumptions are needed, as `RuntimeStale` and the retry under Departures show |
| `RuntimeProofs!ConfirmationsStand` | `[]ConfirmedPostureSurvives` under the same assumptions | `Upheld` adds that every running posture is at least the confirmed one; uses `OneRuntimeRestarts` |
| `RuntimeProofs!EvidenceFollows` | `[]EvidenceHasDecision`, with any number of processes and appends that raise | `Covered`: evidence plus the number of processes that wait to append theirs is at most the Metasploit decisions on record (cardinality of a finite set) |
| `RuntimeProofs!TrailExplains` | `[]TransitionsExplained`, with any number of processes whose appends succeed unless they stop | `Trail`: a process remembers no denial that is not on record or in its hands (`Accounted`), and a posture it moved has the denials that imply it (`Backed`); `Accounted` is what a failed append breaks |
| `CapabilitiesProofs!RunsAreAuthorized`, `AnswersAreEvidenced` | `[]AuthorizedAndAdmitted`, `[]AnswersHaveEvidence` | `InProgress` ties the place of the one execution to what it decided, admitted and ran, whatever status its adapter returned |
| `ApiProofs!VerdictsAreOnRecord`, `MirrorIsFaithful` | `[]AnswersAreAuditable`, `[]MirrorFollowsLog` | one invariant per call: what it holds in its hands past its guard (`PastItsGuard`) and what is on record by each place (`OnRecord`); calls disturb each other only through the log |
| `ApiProofs!GuardsFailClosed` | `OnlyVouchedCallsGovern` | a call past its guard is vouched for (`PastItsGuard`), and open routes have no step that changes what is governed |
| `MetasploitProofs!AuthorityHolds` | `[]AuthorityIsApproved` | copies keep the signature of their token (`CopiesKeepSignature`), and one that verifies says what was approved (`VerifiedCopyIsApproval`), so that the order of tests in `MatchedRule` leaves no other way to an allow |
| `MetasploitProofs!ConfiguredKeyStands` | `[]ConfiguredKeyHolds` | `KeyIsOne`: a process that was given no key never signs with a configured one |
| `PolicyStoreProofs!FileStaysWhole` | `[]ReadableUnlessWritesMeet` | `Clean`: until writes meet, what a client will rename is its own whole text in a file only it has open |
| `PolicyStoreProofs!Implementation` | `ImplementsPolicy` | the refinement: `Replace` maps to `Boot`, `Upsert` or `Delete`, or to a stutter after seeding, everything else to a stutter; `Current` says that until updates overlap the plan a client made when it read the rules is the one for the rules as they are |
| `PolicyStoreProofs!MostSpecificDecides`, `DeniesByDefault` | `[]SpecificityDecides`, `[]DenyByDefault`, of `RulesSpec`, and the same of the rules any client of the store reads, overlapping updates or not | the lemmas on `Keep` (`KeepFacts`, `KeepHead`: it keeps order, and its head is the least position) and `Sorts` make `ordered_rules` a stable sort, so its first match is the best rule (`SelectsBest`, `Decides`); that the file holds typed rules is inductive (`ListedInPolicy`, `ListedInStore`) |
| `PolicyStoreProofs!UpgradesRestore` | `UpgradeOnlyRestores`, of both | an upgrade puts in front only rules it restores (`UpgradeRestores`), and what another rule decided it still decides (`UpgradeDecides`) |
| `PolicyStoreProofs!UpsertsLast` | `[]StandsUnlessUpdatesMeet` | `Standing`: until updates overlap, what an operator was promised is in the file and no deletion under way takes it; `UpsertsStand` alone is not inductive, because a client renames what it read before |
| `ChainedLogProofs!TamperingShows` | `[]TamperEvident`, if `CollisionFree` | from `Linked` and `ChainedFromThere` (after the first chained row no older line comes): a row with another payload is no longer `Intact`; when a row is taken out, swapped, or rewritten with a digest to match, a row links to something else than what is now before it (`LinkOfPrefix`, `Single`) |
| `ApiProofs!LiveHalfCovers` | `[]LiveCoversPersisted` | `AuditInv`: the graph is ahead of the log at every step of every call (`GraphLeads`), and what an audit has read so far is covered (`Reading`), for restarts clear the graph and end the audit |
| `ReportProofs!ScoreIsOfTheTrace`, `DenialsAreOnRecord` | `[]TraceAgreesWithScore`, `[]DenialsOnRecord` | `SessionInv`: the first failed turn is the one flagged and no other (`FirstFailureFlagged`), `still_correct` says there is none, counts agree as cardinalities of sets of turns |
| `ReportProofs!RowsAreKept`, `BlockedIsMarked` | `[]ReportKeepsRows`, `[]BlockedScoresAreMarked` | `OneWriter`: until two commands meet, what the one under way will write holds the row of every command that exited (`Alone`, `Kept`); `Tidy`: between two updates the files are whole; `Mine`: the row is the session's |
| `TelemetryProofs!Bursts`, `Allows` | `BurstsAreContained`, `AllowsNeverRaise` | `TelemetryInv`: times only grow (`Ordered`), the queue is the end of everything recorded (`Newest`), and what it remembers has been answered (`Answered`); `NoneEvicted` says a denial of the window is evicted only when the window is longer than the queue |
| `TelemetryProofs!Refines` | `ImplementsDenialWindow` | a decision observes at most one denial more than the window kept (`CountGrows`), a tick only forgets |
| `TelemetryProofs!Drifts` | `[]DriftIsContained` | any window, and any set of `Concentrated` counts: counts of a window are cardinalities of finite sets; a harsher window asks for no less (`Harsher`) |
| `RuntimeProofs!AskedForIsServed`, `SettingsAreOne`, `MissingProfileHasOneCause` | `[]AskedIsServed`, `[]OneConfiguration`, `[]MissingProfileIsTheDefault` of `BootSpec` | `Booting`: the memo is what the file and the variables said when the file was read, the runtime what the memo and the environments file said when that was read, whatever was edited since; `Loaded`, `ConfigLoaded` and `Chosen` say what each function returns when it does not raise |

They hold for any number of processes, calls and clients, and any thresholds,
verdicts, rules and bounds that satisfy the named assumptions
(`ThresholdsAssumption`, `RuntimeAssumption`, `ChainAssumption`,
`MetasploitAssumption`, `PolicyAssumption`, `TelemetryAssumption`,
`DriftAssumption`, `SessionAssumption`, `StartupAssumption`, and the
`NoneAssumption` of each module, that None is no value of another kind), which
TLC evaluates on every instance.  They are typings of the constants and
distinctness of what the code tells apart, with two that say more: thresholds
rise, and the queue holds at least one decision.  What a theorem assumes of the
system beyond them is in its ASSUME: one process, or appends that succeed
unless the process stops; and `CollisionFree`, an idealisation of SHA-256 that
`TamperingShows` cannot do without, and which TLC evaluates on the instance it checks.

The type invariants of `ChainedLog`, `Runtime`, `PolicyStore`, `Metasploit`,
`Capabilities`, `Api`, `RefinementSession`, `Telemetry` and `Startup` are proved
with the theorems above; those of the other modules state what their variables
hold, for the reader.  None is part of a run.  The invariants the proofs rest on
were first checked by TLC on the instances of the runs.

Every safety property of a run that passes is stated by a theorem.  Only
model-checked: liveness (`AppendsDrain`, `CallsEnd`), which is out of the
prover's reach, and every definition under Departures, which no theorem could
state.

## Not modelled

- `explainability.py` copies its arguments into a record; nothing calls it.
- `resources/`: immutable descriptions of a repository, and a dictionary nothing
  in the runtime uses.
- `mcp/corpus.py`: a table of scenarios run through the governor of `Metasploit`.
- `agents/deputy.py` and the agent template format a record; the auditor is a
  reading call of `Api`, the orchestrator is `recommend_correction` of `Drift`.
- `cli.py`'s options and printing: its commands are processes in `Runtime`,
  `ChainedLog` and `Api`.
- Nodes and edge attributes of the graph: `Api` keeps which decisions it holds.
- A log that no reader gets past (`SeparatorsReadBack`, or damage) as a state of
  `Api` and `Runtime`: audits and recovered states would answer 500 from then
  on, and a start without a posture history would refuse.
- `posture_transitions_total` of a summary (runtime.py:277), a read of the other
  file made after the rows of the log were read; only the half row it may meet
  is in `Api`.
- A section of `rif.toml` that is no table: overlaying a variable raises a
  TypeError of its own (config.py:203-248).
- Losing power: the log does not claim to survive it (jsonl.py:147-150).

## What is left

The composition of `Api` with `Runtime`'s ladder (now by hand: `Api` keeps the
posture as whether it is locked); a session of the harness whose log has other
writers; that `Runtime` takes only `DenialWindow`'s steps, as a theorem rather
than by the names of its actions.
