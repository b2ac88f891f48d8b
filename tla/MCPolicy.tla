------------------------------ MODULE MCPolicy ------------------------------
(* Instances of Policy for TLC. *)
EXTENDS Policy

Bare(labels) == [labels |-> labels, url |-> FALSE, caps |-> FALSE]
Url(labels)  == [labels |-> labels, url |-> TRUE, caps |-> FALSE]
Caps(labels) == [labels |-> labels, url |-> FALSE, caps |-> TRUE]

Model   == <<"model", "com">>
Lab     == <<"a", "lab", "com">>
WildLab == <<"*", "lab", "com">>
Readme  == <<"readme">>

MCRequest ==
  [action : {"http.request", "package.install", "mcp.invoke"},
   target : {Url(Model), Url(Lab), Bare(Lab)}]
    \cup [action : {"run.create", "file.read"}, target : {Bare(Readme), Caps(Readme)}]

MCProfile ==
  {[networking |-> "limited", mcp |-> FALSE, packages |-> FALSE, hosts |-> {Bare(Model)}],
   [networking |-> "limited", mcp |-> TRUE, packages |-> TRUE, hosts |-> {Bare(WildLab)}],
   [networking |-> "open", mcp |-> TRUE, packages |-> FALSE, hosts |-> {}]}

Of(id, effect, action, target) ==
  [id |-> id, effect |-> effect, action |-> action, target |-> target]

(* Two rules of every shape beside the shipped ones. *)
Shapes ==
  [id : {"r1", "r2"}, effect : {"allow", "deny"},
   action : {"*", "http.request", "mcp.invoke"},
   target : {AnyName, Bare(Model), Bare(WildLab)}]

DenyUnknown    == Of("deny_unknown", "deny", "*", AnyName)
AllowRunCreate == Of("allow_run_create", "allow", "run.create", AnyName)

Shipped == <<AllowRunCreate, DenyUnknown>>
Legacy  == {<<DenyUnknown>>}

FirstParty == {"allow_run_create"}

(* An operator may also turn the first-party rule round.                     *)
Edits == Shapes \cup {Of("allow_run_create", "deny", "run.create", AnyName)}
=============================================================================
