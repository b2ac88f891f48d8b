----------------------------- MODULE Metasploit -----------------------------
(***************************************************************************)
(* MetasploitGovernor (mcp/metasploit.py, mcp/capabilities.py): approvals  *)
(* become signed tokens, and intents are decided in one of three lanes.    *)
(* The governor lives in a process that stops and starts again, and signs  *)
(* with a configured key or with one made for the process.                 *)
(*                                                                         *)
(* An intent is what its hash covers (capability, target, scope, params)   *)
(* and the free text it does not.  Text and params may hold an "assertion" *)
(* of authority.  A digest is the record it is the digest of.              *)
(***************************************************************************)
EXTENDS Integers, FiniteSets

CONSTANTS
  Capability,      \* capabilities clients ask for, as they spell them
  Spelling,        \* the odd spellings among them, to what they normalize to
  Target,
  Scope,
  Params,
  Lifetimes,       \* ttl_seconds of the tokens minted
  MaxClock,        \* bound on time
  MaxRestarts,     \* bound on restarts
  MaxTokens,       \* bound on tokens minted
  None

READ_ONLY_CAPABILITIES ==
  {"module.search", "module.info", "module.metadata", "module.options",
   "module.references", "module.compatible", "remediation.context",
   "recon.read", "recon.lab_data"}

CONSEQUENTIAL_CAPABILITIES ==
  {"module.execute", "module.run", "exploit.run", "payload.generate",
   "handler.create", "listener.create", "session.create", "session.interact",
   "session.list", "route.add", "datastore.set", "target.set"}

SEVERE_CAPABILITIES ==
  {"session.create", "session.interact", "handler.create", "listener.create",
   "route.add", "scope.widen", "credentials.export", "artifact.export",
   "payload.export", "loot.export"}

Modes == {"read_only_firewall", "shadow", "lab_broker"}

Intents ==
  [capability : Capability, target : Target, scope_id : Scope, params : Params,
   text : {"plain", "assertion"}]

ASSUME MetasploitAssumption ==
  /\ DOMAIN Spelling \subseteq Capability
  /\ Lifetimes \subseteq Int
  /\ {MaxClock, MaxRestarts, MaxTokens} \subseteq Nat

VARIABLES
  key,        \* signing_key of the process: Configured, or its own
  restarts,
  now,
  posture,    \* of the runtime: what matters here is whether it is locked
  tokens,     \* every token minted
  evidence    \* the evidence events written

vars == <<key, restarts, now, posture, tokens, evidence>>

(* RIF_MSF_BROKER_KEY; the keys that processes draw for themselves are the   *)
(* numbers after it, one for each.                                           *)
Configured == 0

-----------------------------------------------------------------------------
(* Capabilities *)

normalize(c) == IF c \in DOMAIN Spelling THEN Spelling[c] ELSE c

classify(c) ==
  IF normalize(c) \in READ_ONLY_CAPABILITIES THEN "read_only"
  ELSE IF normalize(c) \in CONSEQUENTIAL_CAPABILITIES \cup SEVERE_CAPABILITIES
  THEN "consequential"
  ELSE "unknown"

is_severe(c) == normalize(c) \in SEVERE_CAPABILITIES

-----------------------------------------------------------------------------
(* Intents and tokens *)

scan_for_injection(i) == "assertion" \in {i.text, i.params}

intent_hash(i) ==
  [capability |-> i.capability, target |-> i.target, scope_id |-> i.scope_id,
   params |-> i.params]

(* Mutant: the expiry is not signed. *)
signing_payload_undated(t) ==
  [capability |-> t.capability, target |-> t.target, scope_id |-> t.scope_id,
   intent_hash |-> t.intent_hash]

signing_payload(t) ==
  [capability |-> t.capability, target |-> t.target, scope_id |-> t.scope_id,
   intent_hash |-> t.intent_hash, expires_at |-> t.expires_at]

hmac_signature(payload, k) == [payload |-> payload, key |-> k]

Token(i, until, k) ==
  LET unsigned == [capability |-> i.capability, target |-> i.target,
                   scope_id |-> i.scope_id, intent_hash |-> intent_hash(i),
                   expires_at |-> until, signature |-> None]
  IN  [unsigned EXCEPT !.signature = hmac_signature(signing_payload(unsigned), k)]

(* Every token that may ever be minted. *)
Keys   == 0 .. (MaxRestarts + 1)
Untils == {minted + ttl : minted \in 0 .. MaxClock, ttl \in Lifetimes}
Tokens == {Token(i, until, k) : i \in Intents, until \in Untils, k \in Keys}

ASSUME NoneAssumption == None \notin Tokens

(* The tokens a caller may hold: those minted, and copies that no longer are *)
(* what was signed (a field edited, a longer life).                          *)
Copies(t) ==
  {t} \cup {[t EXCEPT !.target = x] : x \in Target}
      \cup {[t EXCEPT !.capability = c, !.intent_hash.capability = c] : c \in Capability}
      \cup {[t EXCEPT !.expires_at = @ + 1]}

Held == (UNION {Copies(t) : t \in tokens}) \cup {None}

-----------------------------------------------------------------------------
(* Deciding: the first rule that applies. *)

_evaluate_broker(i, token) ==
  IF token = None                                                       THEN "approval_absent"
  ELSE IF token.signature # hmac_signature(signing_payload(token), key) THEN "signature_invalid"
  ELSE IF now >= token.expires_at                                       THEN "token_expired"
  ELSE IF token.capability # i.capability                               THEN "capability_mismatch"
  ELSE IF token.target # i.target                                       THEN "target_pinned"
  ELSE IF token.intent_hash # intent_hash(i)                            THEN "intent_mismatch"
  ELSE "authorized"

MatchedRule(i, mode, token) ==
  IF posture = "locked"                       THEN "posture.locked"
  ELSE IF scan_for_injection(i)               THEN "injection.quarantined"
  ELSE IF classify(i.capability) = "read_only" THEN "read_only"
  ELSE IF mode = "read_only_firewall"         THEN "execution_absent"
  ELSE IF mode = "shadow"                     THEN "shadow.denied"
  ELSE _evaluate_broker(i, token)

Allowing == {"read_only", "authorized"}

(* Denials severe whatever the capability; the others are as severe as the   *)
(* capability is, but for a locked runtime's.                                *)
AlwaysSevere == {"injection.quarantined", "signature_invalid", "target_pinned",
                 "intent_mismatch"}

IsSevere(rule, i) ==
  /\ rule \notin Allowing \cup {"posture.locked"}
  /\ rule \in AlwaysSevere \/ is_severe(i.capability)

(* _finish. *)
Outcome(i, mode, token) ==
  LET rule == MatchedRule(i, mode, token)
  IN  [decision |-> IF rule \in Allowing THEN "allow" ELSE "deny",
       severe   |-> IsSevere(rule, i)]

(* The event holds more than what was decided; what it is signed with is     *)
(* what matters here.                                                        *)
_sign_evidence(decision) ==
  [policy_decision |-> decision, signature |-> hmac_signature(decision, key)]

verify_evidence(e) == e.signature = hmac_signature(e.policy_decision, key)

-----------------------------------------------------------------------------
(* Actions *)

mint_token(i, ttl) ==
  /\ Cardinality(tokens) < MaxTokens
  /\ tokens' = tokens \cup {Token(i, now + ttl, key)}
  /\ UNCHANGED <<key, restarts, now, posture, evidence>>

Evaluate(i, mode, token) ==
  /\ evidence' = evidence \cup {_sign_evidence(Outcome(i, mode, token).decision)}
  /\ UNCHANGED <<key, restarts, now, posture, tokens>>

Tick ==
  /\ now < MaxClock
  /\ now' = now + 1
  /\ UNCHANGED <<key, restarts, posture, tokens, evidence>>

(* Mutant: the configured key is not read. *)
Restart_own_key ==
  /\ restarts < MaxRestarts
  /\ restarts' = restarts + 1
  /\ key' = restarts + 2
  /\ UNCHANGED <<now, posture, tokens, evidence>>

(* A new process has a new governor, and a new key unless one is configured. *)
Restart ==
  /\ restarts < MaxRestarts
  /\ restarts' = restarts + 1
  /\ key' = IF key = Configured THEN key ELSE restarts + 2
  /\ UNCHANGED <<now, posture, tokens, evidence>>

PostureMoves ==
  /\ posture' \in {"normal", "locked"}
  /\ UNCHANGED <<key, restarts, now, tokens, evidence>>

Init ==
  /\ key \in {Configured, 1}
  /\ restarts = 0
  /\ now = 0
  /\ posture = "normal"
  /\ tokens = {}
  /\ evidence = {}

Next ==
  \/ \E i \in Intents, ttl \in Lifetimes : mint_token(i, ttl)
  \/ \E i \in Intents, mode \in Modes, token \in Held : Evaluate(i, mode, token)
  \/ Tick \/ Restart \/ PostureMoves

Spec == Init /\ [][Next]_vars

-----------------------------------------------------------------------------
(* Properties.  Those about decisions are about every one the governor could *)
(* take in the state it is in.                                               *)

Events ==
  {[policy_decision |-> d, signature |-> hmac_signature(d, k)] :
     d \in {"allow", "deny"}, k \in Keys}

TypeOK ==
  /\ key \in Keys /\ restarts \in 0 .. MaxRestarts /\ now \in 0 .. MaxClock
  /\ posture \in {"normal", "locked"}
  /\ tokens \subseteq Tokens
  /\ evidence \subseteq Events

(* Intent is not authority: no text that asserts authority is allowed        *)
(* anything, and what is not read-only is allowed only in the broker's lane, *)
(* to the very intent someone approved, under this process's key, before the *)
(* approval expires; no copy of a token, no other lane and no odd spelling   *)
(* gives more (metasploit.py:261-276, 290-407).                              *)
AuthorityIsApproved ==
  \A i \in Intents, mode \in Modes, token \in Held :
    Outcome(i, mode, token).decision = "allow" =>
      /\ ~scan_for_injection(i)
      /\ \/ classify(i.capability) = "read_only"
         \/ /\ mode = "lab_broker"
            /\ \E t \in tokens : /\ t.intent_hash = intent_hash(i)
                                 /\ now < t.expires_at
                                 /\ t.signature.key = key

(* What was signed with a configured key stays good, restarts included: an   *)
(* approval until it expires (.env.example:85-87), evidence for every        *)
(* process to come, a "signed, replayable record of one governance decision" *)
(* (metasploit.py:154-155, 209-213, 457-461).                                *)
ConfiguredKeyHolds ==
  /\ posture # "locked" =>
       \A t \in tokens, i \in Intents :
         (/\ t.signature.key = Configured /\ now < t.expires_at
          /\ intent_hash(i) = t.intent_hash /\ ~scan_for_injection(i))
           => Outcome(i, "lab_broker", t).decision = "allow"
  /\ \A e \in evidence : e.signature.key = Configured => verify_evidence(e)
=============================================================================
