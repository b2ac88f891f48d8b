---------------------------- MODULE PolicyEngine ----------------------------
(***************************************************************************)
(* PolicyEngine (policy.py), and what PolicyStore (configuration/          *)
(* policies.py) makes of a list of rules.  The operators are pure; Policy  *)
(* and PolicyStore have the state.                                         *)
(*                                                                         *)
(* A name (a request's target, a rule's target, an allowed host) is the    *)
(* host's labels, whether they stand in a URL (a scheme before them, a     *)
(* path after them), and whether they are in capitals.  A leading "*"      *)
(* label makes a wildcard; the name "*" alone names no target.             *)
(***************************************************************************)
EXTENDS Integers, FiniteSets, Sequences, SequencesExt

CONSTANTS
  Request,        \* [action, target] records
  Profile,        \* [networking, mcp, packages, hosts] records
  Rule,           \* rules an operator may configure
  SeedRules,      \* DEFAULT_POLICIES
  LegacyRules,    \* lists of rules a policies.json may start with
  Required        \* REQUIRED_FIRST_PARTY_RULE_IDS

NETWORK_ACTIONS == {"http.request", "api.call", "mcp.invoke", "package.install"}
MCP_ACTIONS     == {"mcp.invoke"}    \* the actions that begin with "mcp."

AnyName == [labels |-> <<"*">>, url |-> FALSE, caps |-> FALSE]

Effects == {"allow", "deny", "review"}

Names == [labels : Seq(STRING), url : BOOLEAN, caps : BOOLEAN]

Rules == [id : STRING, effect : Effects, action : STRING, target : Names]

Distinct(rules) ==
  \A i, j \in DOMAIN rules : rules[i].id = rules[j].id => i = j

ASSUME PolicyAssumption ==
  /\ Rule \subseteq Rules
  /\ {SeedRules} \cup LegacyRules \subseteq Seq(Rules)
  /\ \A rules \in {SeedRules} \cup LegacyRules : Distinct(rules)
  /\ \A id \in Required : \E i \in DOMAIN SeedRules : SeedRules[i].id = id

(* [r for r in list if ...]: the elements at the given positions, each after *)
(* those that come before it.                                               *)
Keep(list, positions) ==
  [k \in 1 .. Cardinality(positions) |->
     list[CHOOSE i \in positions : Cardinality({j \in positions : j <= i}) = k]]

-----------------------------------------------------------------------------
(* Matching *)

host(name) == [name EXCEPT !.url = FALSE, !.caps = FALSE]

lower(name) == [name EXCEPT !.caps = FALSE]

(* h is compared as it is given; only the pattern is put in lower case. *)
allowed(h, patterns) ==
  \E p \in patterns :
    \/ h = lower(p)
    \/ /\ ~p.url /\ ~h.url /\ ~h.caps
       /\ Len(p.labels) > 1 /\ Head(p.labels) = "*"
       /\ Len(h.labels) >= Len(p.labels)
       /\ IsSuffix(Tail(p.labels), h.labels)

rule_matches(rule, req) ==
  /\ rule.action \in {"*", req.action}
  /\ \/ rule.target = AnyName
     \/ IF req.action \in NETWORK_ACTIONS
        THEN allowed(host(req.target), {host(rule.target)})
        ELSE allowed(req.target, {rule.target})

specificity(rule) ==
  (IF rule.action # "*" THEN 1 ELSE 0) + (IF rule.target # AnyName THEN 1 ELSE 0)

is_catch_all(rule) == rule.action = "*" /\ rule.target = AnyName

(* Mutant: the rules in the order of the file. *)
ordered_rules_unsorted(list) ==
  Keep(list, {i \in DOMAIN list : specificity(list[i]) > 0})

(* A stable sort: rules of one specificity keep their order. *)
ordered_rules(list) ==
  LET OfSpecificity(n) == Keep(list, {i \in DOMAIN list : specificity(list[i]) = n})
  IN  OfSpecificity(2) \o OfSpecificity(1)

(* Mutant: a catch-all is skipped, as before it became the fallback. *)
catch_all_rules_skipped(list) == <<>>

catch_all_rules(list) == Keep(list, {i \in DOMAIN list : is_catch_all(list[i])})

-----------------------------------------------------------------------------
(* Deciding *)

Matched(rule) == [decision |-> rule.effect, matched_rule |-> rule.id]

deny(reason) == [decision |-> "deny", matched_rule |-> reason]

(* What the environment profile forbids, by the first constraint that does. *)
Constraint(req, profile) ==
  IF req.action = "package.install" /\ ~profile.packages
  THEN {"package.egress.disabled"}
  ELSE IF req.action \in MCP_ACTIONS /\ ~profile.mcp
  THEN {"mcp.egress.disabled"}
  ELSE IF /\ req.action \in NETWORK_ACTIONS
          /\ profile.networking = "limited"
          /\ ~allowed(host(req.target), profile.hosts)
  THEN {"network.host.denied"}
  ELSE {}

evaluate(req, profile, posture, list) ==
  LET ordered   == ordered_rules(list)
      selective == Keep(ordered, {k \in DOMAIN ordered : rule_matches(ordered[k], req)})
      forbidden == Constraint(req, profile)
      fallback  == catch_all_rules(list)
  IN  IF posture = "locked"      THEN deny("posture.locked")
      ELSE IF selective # <<>>   THEN Matched(Head(selective))
      ELSE IF forbidden # {}     THEN deny(CHOOSE reason \in forbidden : TRUE)
      ELSE IF fallback # <<>>    THEN Matched(Head(fallback))
      ELSE [decision |-> "allow", matched_rule |-> "default.allow"]

-----------------------------------------------------------------------------
(* What the store's operations make of a list of rules *)

Without(list, ids) == Keep(list, {i \in DOMAIN list : list[i].id \notin ids})

Upserted(list, rule) == Append(Without(list, {rule.id}), rule)

Deleted(list, id) == Without(list, {id})

Ids(list) == {list[i].id : i \in DOMAIN list}

(* The ids a deletion may name: of a rule on the list, or of one that is not. *)
Named(list) == Ids(list) \cup {rule.id : rule \in Rule}

(* Mutant: the upgrade puts every shipped rule back. *)
Upgraded_reseeded(list) ==
  SeedRules \o Without(list, Ids(SeedRules))

(* _ensure_required_first_party_rules: those missing go before the first    *)
(* catch-all.                                                               *)
Upgraded(list) ==
  LET missing == Keep(SeedRules,
                      {i \in DOMAIN SeedRules : SeedRules[i].id \in Required \ Ids(list)})
      catches == {i \in DOMAIN list : is_catch_all(list[i])}
      at      == IF catches = {} THEN Len(list)
                 ELSE (CHOOSE i \in catches : \A j \in catches : i <= j) - 1
  IN  SubSeq(list, 1, at) \o missing \o SubSeq(list, at + 1, Len(list))
==============================================================================
