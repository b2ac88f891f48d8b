---------------------------- MODULE PolicyStore -----------------------------
(***************************************************************************)
(* PolicyStore and JsonStore (configuration/policies.py, store.py): the    *)
(* rules as a JSON file that each operation reads, changes in memory,      *)
(* writes to "policies.json.tmp" and renames into place.                   *)
(*                                                                         *)
(* A client is a thread of the API server, or another process on the same  *)
(* data directory.  The runtime's lock does not cover these operations, so *)
(* clients interleave between any two file operations, and the name of the *)
(* temporary file is the same for all.  A client may stop at any point.    *)
(***************************************************************************)
EXTENDS PolicyEngine

CONSTANT Client     \* threads of the server, or processes

VARIABLES
  json,      \* policies.json
  tmp,       \* policies.json.tmp
  client,    \* what each client is doing
  standing,  \* rules an upsert returned and no delete has been asked for since
  dropped,   \* required rules an operator deleted and did not put back
  met        \* history: have two clients' updates, or their writes, overlapped?

vars == <<json, tmp, client, standing, dropped, met>>

(* The rules the file holds, as Policy has them: an absent file is seeded. *)
Policies == INSTANCE Policy WITH
  rules   <- IF json.state = "absent" THEN SeedRules ELSE json.rules,
  deleted <- dropped

-----------------------------------------------------------------------------
(* Files.  "blank" is a file that open() has truncated, "garbled" one that  *)
(* holds the text of one write and the rest of another.                     *)

Whole(list) == [state |-> "whole", rules |-> list]
Absent      == [state |-> "absent", rules |-> <<>>]
Blank       == [state |-> "blank", rules |-> <<>>]
Garbled     == [state |-> "garbled", rules |-> <<>>]

(* Text written at the start of a file that another writer has since        *)
(* filled: what was longer shows behind it.                                 *)
Written(list, over) ==
  IF over \in {Absent, Blank} THEN {Whole(list)} ELSE {Whole(list), Garbled}

(* A client: the operation it performs and how far it is; the rules it will *)
(* write; the file its handle is open on, which renames move.               *)
Stopped == [at |-> "down", does |-> "none", id |-> "none", list |-> <<>>, handle |-> "none"]
Serving == [Stopped EXCEPT !.at = "up"]

Doing(does, id, list) ==
  [at |-> "open", does |-> does, id |-> id, list |-> list, handle |-> "none"]

Ready(c) == client[c] = Serving /\ json.state = "whole"

(* An update lasts from its read to its rename, its write from opening the  *)
(* temporary file.                                                          *)
Overlap(stages) ==
  \E c, d \in Client : c # d /\ {client[c].at, client[d].at} \subseteq stages

Meetings ==
  (IF Overlap({"open", "write", "replace"}) THEN {"updates"} ELSE {})
    \cup (IF Overlap({"write", "replace"}) THEN {"writes"} ELSE {})

Noted == met' = met \cup Meetings'

-----------------------------------------------------------------------------
(* A client starts: JsonStore seeds an absent file, *)
Seed(c) ==
  /\ client[c] = Stopped
  /\ json = Absent
  /\ client' = [client EXCEPT ![c] = Doing("seed", "none", SeedRules)]
  /\ UNCHANGED <<json, tmp, standing, dropped>>
  /\ Noted

(* and PolicyStore adds what is missing.  A file that does not parse raises *)
(* and the client does not start.                                           *)
Ensure(c) ==
  /\ \/ client[c] = Stopped /\ json # Absent
     \/ client[c].at = "seeded"
  /\ LET upgraded == Upgraded(json.rules)
     IN  client' =
           [client EXCEPT ![c] =
              IF json.state # "whole" THEN Stopped
              ELSE IF upgraded = json.rules THEN Serving
              ELSE Doing("ensure", "none", upgraded)]
  /\ UNCHANGED <<json, tmp, standing, dropped>>
  /\ Noted

(* Mutant: the rule is reported stored before it is.                         *)
AskUpsert_early(c, rule) ==
  /\ Ready(c)
  /\ client' = [client EXCEPT ![c] =
                  Doing("upsert", rule.id, Upserted(json.rules, rule))]
  /\ standing' = standing \cup {rule.id}
  /\ UNCHANGED <<json, tmp, dropped>>
  /\ Noted

(* upsert: read, keep the others, append. *)
AskUpsert(c, rule) ==
  /\ Ready(c)
  /\ client' = [client EXCEPT ![c] =
                  Doing("upsert", rule.id, Upserted(json.rules, rule))]
  /\ UNCHANGED <<json, tmp, standing, dropped>>
  /\ Noted

(* delete writes the file whether or not the rule was there. *)
AskDelete(c, id) ==
  /\ Ready(c)
  /\ client' = [client EXCEPT ![c] =
                  Doing("delete", id, Deleted(json.rules, id))]
  /\ standing' = standing \ {id}
  /\ UNCHANGED <<json, tmp, dropped>>
  /\ Noted

(* Mutant: the file itself is opened, not a temporary one. *)
OpenTmp_in_place(c) ==
  /\ client[c].at = "open"
  /\ json' = Blank
  /\ client' = [client EXCEPT ![c].at = "write", ![c].handle = "json"]
  /\ UNCHANGED <<tmp, standing, dropped>>
  /\ Noted

(* write_text opens the temporary file and truncates it ... *)
OpenTmp(c) ==
  /\ client[c].at = "open"
  /\ tmp' = Blank
  /\ client' = [client EXCEPT ![c].at = "write", ![c].handle = "tmp"]
  /\ UNCHANGED <<json, standing, dropped>>
  /\ Noted

(* ... and writes through the handle, wherever that file is by now. *)
WriteTmp(c) ==
  /\ client[c].at = "write"
  /\ CASE client[c].handle = "tmp"  -> /\ tmp' \in Written(client[c].list, tmp)
                                       /\ UNCHANGED json
       [] client[c].handle = "json" -> /\ json' \in Written(client[c].list, json)
                                       /\ UNCHANGED tmp
       [] client[c].handle = "gone" -> UNCHANGED <<json, tmp>>
  /\ client' = [client EXCEPT ![c].at = "replace", ![c].handle = "none"]
  /\ UNCHANGED <<standing, dropped>>
  /\ Noted

(* Where the handles point once the temporary file has its new name. *)
Moved(handle) ==
  CASE handle = "tmp"  -> "json"
    [] handle = "json" -> "gone"
    [] OTHER           -> handle

Replace(c) ==
  /\ client[c].at = "replace" /\ tmp # Absent
  /\ json' = tmp
  /\ tmp' = Absent
  /\ client' =
       [d \in Client |->
          IF d # c THEN [client[d] EXCEPT !.handle = Moved(@)]
          ELSE IF client[c].does = "seed" THEN [Serving EXCEPT !.at = "seeded"]
          ELSE Serving]
  /\ standing' = IF client[c].does = "upsert" THEN standing \cup {client[c].id}
                 ELSE standing
  /\ dropped' =
       CASE client[c].does = "upsert" -> dropped \ {client[c].id}
         [] client[c].does = "delete" ->
              dropped \cup (Required \cap Ids(json.rules) \cap {client[c].id})
         [] OTHER -> dropped
  /\ Noted

(* Another client renamed the temporary file first: replace() raises. *)
ReplaceRaises(c) ==
  /\ client[c].at = "replace" /\ tmp = Absent
  /\ client' = [client EXCEPT ![c] =
                  IF client[c].does \in {"seed", "ensure"} THEN Stopped ELSE Serving]
  /\ UNCHANGED <<json, tmp, standing, dropped>>
  /\ Noted

(* The client's process stops; what it had opened stays as it is. *)
Stop(c) ==
  /\ client[c] # Stopped
  /\ client' = [client EXCEPT ![c] = Stopped]
  /\ UNCHANGED <<json, tmp, standing, dropped>>
  /\ Noted

-----------------------------------------------------------------------------
Init ==
  /\ json \in {Absent} \cup {Whole(list) : list \in LegacyRules}
  /\ tmp = Absent
  /\ client = [c \in Client |-> Stopped]
  /\ standing = {}
  /\ dropped = {}
  /\ met = {}

Step(c) ==
  \/ Seed(c) \/ Ensure(c)
  \/ \E rule \in Rule : AskUpsert(c, rule)
  \/ \E id \in Named(json.rules) : AskDelete(c, id)
  \/ OpenTmp(c) \/ WriteTmp(c) \/ Replace(c) \/ ReplaceRaises(c)

Next == \E c \in Client : Step(c) \/ Stop(c)

Spec == Init /\ [][Next]_vars

-----------------------------------------------------------------------------
(* Properties *)

States == {"absent", "blank", "garbled", "whole"}

TypeOK ==
  /\ {json.state, tmp.state} \subseteq States
  /\ \A c \in Client :
       /\ client[c].at \in {"down", "open", "write", "replace", "seeded", "up"}
       /\ client[c].does \in {"none", "seed", "ensure", "upsert", "delete"}
       /\ client[c].handle \in {"none", "tmp", "json", "gone"}
  /\ dropped \subseteq Required
  /\ met \subseteq {"updates", "writes"}

(* "atomic temp-file replace" (.cursor/agents/rif-quality-gate.md:35-36).    *)
(* Not kept by the code: see Departures in README.md.                        *)
FileReadable == json.state \in {"absent", "whole"}

(* A rule whose upsert returned is listed until its deletion is asked for    *)
(* (tests/test_policy_store.py:19-20).  Not kept by the code: see Departures *)
(* in README.md.                                                             *)
UpsertsStand ==
  json.state = "whole" => standing \subseteq Ids(json.rules)

(* What the file shows is never half a write, whatever stops, unless two     *)
(* clients were writing at once: only the shared temporary name breaks it    *)
(* (store.py:20-23).                                                         *)
ReadableUnlessWritesMeet == "writes" \in met \/ FileReadable

(* An upsert that returned stands, whatever stops, unless two updates        *)
(* overlapped from read to rename: to lock the writes alone would not do     *)
(* (policies.py:101-106).                                                    *)
StandsUnlessUpdatesMeet == "updates" \in met \/ UpsertsStand

(* Until two updates overlap the file behaves as the rules of Policy: each   *)
(* operation takes effect at once or not at all.  With one client they never *)
(* do, and this is Policies!RulesSpec.                                      *)
ImplementsPolicy ==
  Policies!RulesInit /\ [][Policies!RulesNext \/ "updates" \in met']_(Policies!rules_vars)
=============================================================================
