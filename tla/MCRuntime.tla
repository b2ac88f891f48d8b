----------------------------- MODULE MCRuntime ------------------------------
(* Instances of Runtime for TLC.  The thresholds 1, 2, 3 keep the shape of  *)
(* 3, 10, 20 and let every rung be reached within the bounds.               *)
EXTENDS Runtime, TLC

CONSTANTS p1, p2

OneProc == {p1}
TwoProc == {p1, p2}

MCEnv     == {"dev", "prod"}
MCRequest == {"egress", "forbidden", "ask"}

(* "egress" is what the profiles differ in; "forbidden" no profile allows.  *)
MCPolicyVerdict(r, e) ==
  CASE r = "egress"    -> IF e = "dev" THEN "allow" ELSE "deny"
    [] r = "forbidden" -> "deny"
    [] r = "ask"       -> "review"

(* One profile and one request, where the environment is not the question.  *)
OneEnv     == {"prod"}
OneRequest == {"ask"}

(* No request: every verdict then comes through record_decision. *)
NoRequest == {}

Symmetry == Permutations(Proc)
=============================================================================
