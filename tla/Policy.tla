------------------------------- MODULE Policy -------------------------------
(***************************************************************************)
(* The rules PolicyStore keeps (configuration/policies.py) for             *)
(* PolicyEngine to decide by, with the store's operations atomic;          *)
(* PolicyStore has the file under them.  The names of the specification    *)
(* are its own, so that one module can extend both.                        *)
(***************************************************************************)
EXTENDS PolicyEngine

VARIABLES
  rules,      \* the rules of policies.json, in order
  deleted     \* required rules an operator deleted and did not put back

rules_vars == <<rules, deleted>>

Boot ==
  /\ rules' = Upgraded(rules)
  /\ UNCHANGED deleted

Upsert(rule) ==
  /\ rules' = Upserted(rules, rule)
  /\ deleted' = deleted \ {rule.id}

Delete(id) ==
  /\ rules' = Deleted(rules, id)
  /\ deleted' = deleted \cup (Required \cap Ids(rules) \cap {id})

(* JsonStore seeds an absent file: it starts as SeedRules or as a legacy    *)
(* list.                                                                    *)
RulesInit ==
  /\ rules \in {SeedRules} \cup LegacyRules
  /\ deleted = {}

RulesNext ==
  \/ Boot
  \/ \E rule \in Rule : Upsert(rule)
  \/ \E id \in Named(rules) : Delete(id)

RulesSpec == RulesInit /\ [][RulesNext]_rules_vars

-----------------------------------------------------------------------------
(* Properties *)

RulesTyped ==
  /\ rules \in Seq(Rules)
  /\ Distinct(rules)
  /\ deleted \subseteq Required

Selective(list) ==
  {i \in DOMAIN list : list[i].action # "*" \/ list[i].target # AnyName}

BySpecificity(list) ==
  \A req \in Request, profile \in Profile :
    LET matching == {i \in Selective(list) : rule_matches(list[i], req)}
        best == {i \in matching : \A j \in matching :
                   \/ specificity(list[i]) > specificity(list[j])
                   \/ specificity(list[i]) = specificity(list[j]) /\ i <= j}
    IN  \A i \in best :
          evaluate(req, profile, "normal", list).matched_rule = list[i].id

Closed(list) ==
  LET catches == DOMAIN list \ Selective(list)
  IN  (\E i \in catches : /\ list[i].effect = "deny"
                          /\ \A j \in catches : i <= j) =>
        \A req \in Request, profile \in Profile :
          evaluate(req, profile, "normal", list).decision = "allow" =>
            \E i \in Selective(list) :
              rule_matches(list[i], req) /\ list[i].effect = "allow"

OnlyRestored(list, upgraded) ==
  \A req \in Request, profile \in Profile :
    LET before == evaluate(req, profile, "normal", list)
        after  == evaluate(req, profile, "normal", upgraded)
    IN  after # before => after.matched_rule \in Required \ Ids(list)

(* The rule that decides is the most specific one that matches, and of those *)
(* the first in the file: a broad rule does not shadow a narrow one by its   *)
(* position (policy.py:44-66, docs/API.md:76-82).                            *)
SpecificityDecides == BySpecificity(rules)

(* With a catch-all that denies first, what no rule allows by name is not    *)
(* allowed (docs/API.md:91-93).                                              *)
DenyByDefault == Closed(rules)

(* The upgrade at boot changes a decision only by the rules it restores: all *)
(* others keep their order and their effect (policies.py:73-96).             *)
UpgradeOnlyRestores ==
  [][rules' = Upgraded(rules) => OnlyRestored(rules, rules')]_rules_vars

(* A rule with the request's own action and target applies to it: naming     *)
(* the pair is an intent that overrides the profile (policy.py:85-89).       *)
(* Not kept by the code: see Departures in README.md.                        *)
NamedPairApplies ==
  \A i \in DOMAIN rules, req \in Request :
    (rules[i].action = req.action /\ rules[i].target = req.target)
      => rule_matches(rules[i], req)

(* Deleting a required rule stops what it allows, restarts included: "or the *)
(* endpoint stops working" (policies.py:25-27).                              *)
(* Not kept by the code: see Departures in README.md.                        *)
DeletionStops == deleted \cap Ids(rules) = {}
=============================================================================
