-------------------------- MODULE MetasploitProofs --------------------------
(***************************************************************************)
(* Theorems about Metasploit, for any capabilities, spellings, targets and *)
(* lifetimes, any number of tokens and restarts.                           *)
(***************************************************************************)
EXTENDS Metasploit, TLAPS

-----------------------------------------------------------------------------
(* Tokens *)

(* A token as mint_token makes it.                                           *)
LEMMA TokenFields ==
  ASSUME NEW i, NEW until, NEW k
  PROVE  LET t == Token(i, until, k)
         IN  /\ t.capability = i.capability /\ t.target = i.target
             /\ t.scope_id = i.scope_id /\ t.intent_hash = intent_hash(i)
             /\ t.expires_at = until
             /\ t.signature = hmac_signature(signing_payload(t), k)
             /\ t.signature.key = k
             /\ "signature" \in DOMAIN t
<1> DEFINE u == [capability |-> i.capability, target |-> i.target,
                 scope_id |-> i.scope_id, intent_hash |-> intent_hash(i),
                 expires_at |-> until, signature |-> None]
           t == Token(i, until, k)
<1>1. t = [u EXCEPT !.signature = hmac_signature(signing_payload(u), k)]
  BY DEF Token
<1> HIDE DEF t
<1>2. /\ t.capability = i.capability /\ t.target = i.target /\ t.scope_id = i.scope_id
      /\ t.intent_hash = intent_hash(i) /\ t.expires_at = until
      /\ t.signature = hmac_signature(signing_payload(u), k)
      /\ "signature" \in DOMAIN t
  BY <1>1
<1>3. signing_payload(t) = signing_payload(u)
  BY <1>2 DEF signing_payload
<1>4. t.signature.key = k
  BY <1>2 DEF hmac_signature
<1> QED BY <1>2, <1>3, <1>4 DEF t

(* No copy of a token has another signature.                                 *)
LEMMA CopiesKeepSignature ==
  ASSUME NEW i, NEW until, NEW k, NEW copy \in Copies(Token(i, until, k))
  PROVE  copy.signature = Token(i, until, k).signature
<1> DEFINE t == Token(i, until, k)
<1>1. "signature" \in DOMAIN t
  BY TokenFields
<1> HIDE DEF t
<1>2. copy \in Copies(t)
  BY DEF t
<1>3. QED BY <1>1, <1>2 DEF Copies, t

(* A copy that carries its token's signature under a key says what was       *)
(* approved under that key.                                                  *)
LEMMA VerifiedCopyIsApproval ==
  ASSUME NEW i, NEW until, NEW k, NEW k2, NEW copy \in Copies(Token(i, until, k)),
         copy.signature = hmac_signature(signing_payload(copy), k2)
  PROVE  /\ copy.intent_hash = Token(i, until, k).intent_hash
         /\ copy.expires_at = Token(i, until, k).expires_at
         /\ Token(i, until, k).signature.key = k2
<1> DEFINE t == Token(i, until, k)
<1>1. t.signature = hmac_signature(signing_payload(t), k)
  BY TokenFields
<1>2. copy.signature = t.signature
  BY CopiesKeepSignature
<1> HIDE DEF t
<1>3. signing_payload(copy) = signing_payload(t) /\ k = k2
  BY <1>1, <1>2 DEF hmac_signature
<1>4. copy.intent_hash = t.intent_hash /\ copy.expires_at = t.expires_at
  BY <1>3 DEF signing_payload
<1>5. t.signature.key = k2
  BY <1>1, <1>3 DEF hmac_signature
<1> QED BY <1>4, <1>5 DEF t

-----------------------------------------------------------------------------
(* Types, and what was signed *)

(* A process that was not given a key has never signed with a configured one. *)
KeyIsOne ==
  key # Configured =>
    /\ \A t \in tokens : t.signature.key # Configured
    /\ \A e \in evidence : e.signature.key # Configured

Inv == TypeOK /\ KeyIsOne

LEMMA OutcomeType ==
  ASSUME NEW i, NEW mode, NEW token
  PROVE  Outcome(i, mode, token).decision \in {"allow", "deny"}
BY DEF Outcome

THEOREM Invariance == Spec => []Inv
<1> USE MetasploitAssumption
<1>1. Init => Inv
  BY DEF Init, Inv, TypeOK, KeyIsOne, Keys, Configured
<1>2. Inv /\ [Next]_vars => Inv'
  <2> SUFFICES ASSUME Inv, [Next]_vars PROVE Inv'
    OBVIOUS
  <2>0. TypeOK /\ KeyIsOne
    BY DEF Inv
  <2>1. ASSUME NEW i \in Intents, NEW ttl \in Lifetimes, mint_token(i, ttl) PROVE Inv'
    <3> DEFINE t == Token(i, now + ttl, key)
    <3>1. /\ tokens' = tokens \cup {t}
          /\ UNCHANGED <<key, restarts, now, posture, evidence>>
      BY <2>1 DEF mint_token
    <3>2. t \in Tokens
      <4>1. now + ttl \in Untils /\ key \in Keys
        BY <2>0 DEF Untils, TypeOK
      <4> QED BY <4>1 DEF Tokens
    <3>3. t.signature.key = key
      BY TokenFields
    <3> HIDE DEF t
    <3> QED BY <2>0, <3>1, <3>2, <3>3 DEF Inv, TypeOK, KeyIsOne
  <2>2. ASSUME NEW i \in Intents, NEW mode \in Modes, NEW token \in Held,
               Evaluate(i, mode, token)
        PROVE  Inv'
    <3> DEFINE d == Outcome(i, mode, token).decision
               e == _sign_evidence(d)
    <3>1. /\ evidence' = evidence \cup {e}
          /\ UNCHANGED <<key, restarts, now, posture, tokens>>
      BY <2>2 DEF Evaluate
    <3>2. d \in {"allow", "deny"}
      BY OutcomeType
    <3> HIDE DEF d
    <3>3. e \in Events /\ e.signature.key = key
      BY <2>0, <3>2 DEF _sign_evidence, hmac_signature, TypeOK, Events
    <3> HIDE DEF e
    <3> QED BY <2>0, <3>1, <3>3 DEF Inv, TypeOK, KeyIsOne
  <2>3. CASE Tick
    BY <2>0, <2>3 DEF Tick, Inv, TypeOK, KeyIsOne
  <2>4. CASE Restart
    <3>1. /\ key' \in Keys /\ restarts' \in 0 .. MaxRestarts
          /\ UNCHANGED <<now, posture, tokens, evidence>>
      BY <2>0, <2>4 DEF Restart, TypeOK, Keys
    <3>2. key' # Configured => key # Configured
      BY <2>4 DEF Restart
    <3> QED BY <2>0, <3>1, <3>2 DEF Inv, TypeOK, KeyIsOne
  <2>5. CASE PostureMoves
    BY <2>0, <2>5 DEF PostureMoves, Inv, TypeOK, KeyIsOne
  <2>6. CASE UNCHANGED vars
    BY <2>0, <2>6 DEF vars, Inv, TypeOK, KeyIsOne
  <2> QED BY <2>1, <2>2, <2>3, <2>4, <2>5, <2>6 DEF Next
<1> QED BY <1>1, <1>2, PTL DEF Spec

-----------------------------------------------------------------------------
(* Decisions *)

(* No text, no lane, no spelling and no edited token is authority.           *)
THEOREM AuthorityHolds == Spec => []AuthorityIsApproved
<1>1. Inv => AuthorityIsApproved
  <2> SUFFICES ASSUME TypeOK, NEW i \in Intents, NEW mode \in Modes, NEW token \in Held,
                      Outcome(i, mode, token).decision = "allow",
                      classify(i.capability) # "read_only"
               PROVE  /\ ~scan_for_injection(i) /\ mode = "lab_broker"
                      /\ \E t \in tokens : /\ t.intent_hash = intent_hash(i)
                                           /\ now < t.expires_at
                                           /\ t.signature.key = key
    <3>1. ASSUME NEW i \in Intents, NEW mode, NEW token,
                 Outcome(i, mode, token).decision = "allow"
          PROVE  ~scan_for_injection(i)
      BY <3>1 DEF Outcome, MatchedRule, Allowing
    <3> QED BY <3>1 DEF Inv, AuthorityIsApproved
  <2>1. /\ ~scan_for_injection(i) /\ mode = "lab_broker"
        /\ _evaluate_broker(i, token) \in Allowing
    BY DEF Outcome, MatchedRule, Allowing, Modes
  <2>2. /\ token # None
        /\ token.signature = hmac_signature(signing_payload(token), key)
        /\ ~(now >= token.expires_at)
        /\ token.intent_hash = intent_hash(i)
    BY <2>1 DEF _evaluate_broker, Allowing
  <2>3. PICK t \in tokens : token \in Copies(t)
    <3>1. token # None
      BY <2>2
    <3> QED BY <3>1 DEF Held
  <2>4. PICK j \in Intents, until \in Untils, k \in Keys : t = Token(j, until, k)
    BY <2>3 DEF TypeOK, Tokens
  <2>5. t.intent_hash = intent_hash(i) /\ token.expires_at = t.expires_at
        /\ t.signature.key = key
    BY <2>2, <2>3, <2>4, VerifiedCopyIsApproval
  <2>6. t.expires_at \in Int /\ now \in Int
    BY <2>4, TokenFields, MetasploitAssumption DEF Untils, TypeOK
  <2> QED BY <2>1, <2>2, <2>5, <2>6
<1> QED BY <1>1, Invariance, PTL

(* What a configured key signed stays good, restarts included.               *)
THEOREM ConfiguredKeyStands == Spec => []ConfiguredKeyHolds
<1>1. Inv => ConfiguredKeyHolds
  <2> SUFFICES ASSUME TypeOK, KeyIsOne PROVE ConfiguredKeyHolds
    BY DEF Inv
  <2>1. ASSUME posture # "locked", NEW t \in tokens, NEW i \in Intents,
               t.signature.key = Configured, now < t.expires_at,
               intent_hash(i) = t.intent_hash, ~scan_for_injection(i)
        PROVE  Outcome(i, "lab_broker", t).decision = "allow"
    <3>1. PICK j \in Intents, until \in Untils, k \in Keys : t = Token(j, until, k)
      BY <2>1 DEF TypeOK, Tokens
    <3>2. /\ t.capability = j.capability /\ t.target = j.target
          /\ t.intent_hash = intent_hash(j) /\ t.expires_at = until
          /\ t.signature = hmac_signature(signing_payload(t), k)
      BY <3>1, TokenFields
    <3>3. k = Configured /\ key = Configured
      BY <2>1, <3>2 DEF hmac_signature, KeyIsOne
    <3>4. i.capability = j.capability /\ i.target = j.target
      BY <2>1, <3>2 DEF intent_hash
    <3>5. t # None
      BY <2>1, NoneAssumption DEF TypeOK
    <3>6. ~(now >= t.expires_at)
      BY <2>1, <3>2, MetasploitAssumption DEF Untils, TypeOK
    <3>7. _evaluate_broker(i, t) = "authorized"
      BY <2>1, <3>2, <3>3, <3>4, <3>5, <3>6 DEF _evaluate_broker
    <3> QED BY <2>1, <3>7 DEF Outcome, MatchedRule, Allowing
  <2>2. ASSUME NEW e \in evidence, e.signature.key = Configured
        PROVE  verify_evidence(e)
    <3>1. PICK d \in {"allow", "deny"}, k \in Keys :
                 e = [policy_decision |-> d, signature |-> hmac_signature(d, k)]
      BY <2>2 DEF TypeOK, Events
    <3>2. key = Configured
      BY <2>2 DEF KeyIsOne
    <3>3. k = Configured
      BY <2>2, <3>1 DEF hmac_signature
    <3> QED BY <3>1, <3>2, <3>3 DEF verify_evidence
  <2> QED BY <2>1, <2>2 DEF ConfiguredKeyHolds
<1> QED BY <1>1, Invariance, PTL
=============================================================================
