--------------------------- MODULE MCPolicyStore ----------------------------
(* Instances of PolicyStore for TLC. *)
EXTENDS PolicyStore, TLC

CONSTANTS c1, c2

TwoClients == {c1, c2}

Readme == [labels |-> <<"readme">>, url |-> FALSE, caps |-> FALSE]

Of(id, effect, action, target) ==
  [id |-> id, effect |-> effect, action |-> action, target |-> target]

DenyUnknown    == Of("deny_unknown", "deny", "*", AnyName)
AllowRunCreate == Of("allow_run_create", "allow", "run.create", AnyName)

Shipped    == <<AllowRunCreate, DenyUnknown>>
Legacy     == {<<DenyUnknown>>}
FirstParty == {"allow_run_create"}

(* A rule of the operator's own, and the first-party rule turned round.      *)
Operators ==
  {Of("readme", "allow", "file.read", Readme),
   Of("allow_run_create", "deny", "run.create", AnyName)}

NoRequest == {}
NoProfile == {}

Symmetry == Permutations(Client)
=============================================================================
