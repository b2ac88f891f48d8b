-------------------------- MODULE PolicyStoreProofs -------------------------
(***************************************************************************)
(* Theorems about PolicyStore and the Policy it implements, for any number *)
(* of clients, any rules and any file it may start from.  Up to            *)
(* Implementation nothing depends on what the operations of Policy         *)
(* compute; what follows is about just that.                               *)
(***************************************************************************)
EXTENDS PolicyStore, Policy, FiniteSetTheorems, SequenceTheorems, TLAPS

-----------------------------------------------------------------------------
(* Types *)

(* Every client is a record of its operation, and one that writes has a      *)
(* handle.                                                                   *)
Shaped ==
  /\ DOMAIN client = Client
  /\ \A c \in Client :
       /\ DOMAIN client[c] = {"at", "does", "id", "list", "handle"}
       /\ client[c].at = "write" => client[c].handle # "none"

(* The clients that write, and those that are between read and rename.       *)
Writing  == {"write", "replace"}
Updating == {"open", "write", "replace"}

(* What overlaps now is remembered, and writes that meet are updates that    *)
(* meet.                                                                     *)
Remembered ==
  /\ Meetings \subseteq met
  /\ "writes" \in met => "updates" \in met

Typed == TypeOK /\ Shaped /\ Remembered

LEMMA NotedRemembers == ASSUME Remembered, Noted PROVE Remembered' /\ met \subseteq met'
<1>1. "writes" \in Meetings' => "updates" \in Meetings'
  BY DEF Meetings, Overlap
<1> QED BY <1>1 DEF Remembered, Noted

LEMMA RecordShapes ==
  /\ DOMAIN Stopped = {"at", "does", "id", "list", "handle"}
  /\ Stopped.at = "down" /\ Stopped.does = "none" /\ Stopped.handle = "none"
  /\ DOMAIN Serving = {"at", "does", "id", "list", "handle"}
  /\ Serving.at = "up" /\ Serving.does = "none" /\ Serving.handle = "none"
  /\ DOMAIN [Serving EXCEPT !.at = "seeded"] = {"at", "does", "id", "list", "handle"}
  /\ [Serving EXCEPT !.at = "seeded"].at = "seeded"
  /\ [Serving EXCEPT !.at = "seeded"].does = "none"
  /\ [Serving EXCEPT !.at = "seeded"].handle = "none"
  /\ \A does, id, list :
       /\ DOMAIN Doing(does, id, list) = {"at", "does", "id", "list", "handle"}
       /\ Doing(does, id, list).at = "open"
       /\ Doing(does, id, list).does = does
       /\ Doing(does, id, list).id = id
       /\ Doing(does, id, list).list = list
       /\ Doing(does, id, list).handle = "none"
BY DEF Stopped, Serving, Doing

Operations == {"seed", "ensure", "upsert", "delete"}

(* A client that takes up or ends an operation without touching a file.      *)
Turned(c, x) ==
  /\ client' = [client EXCEPT ![c] = x]
  /\ UNCHANGED <<json, tmp>>
  /\ \/ x \in {Stopped, Serving}
     \/ \E does \in Operations : \E id, list : x = Doing(does, id, list)

(* Seeding, upgrading, asking, failing and stopping are such steps.          *)
LEMMA TurnedSteps ==
  ASSUME NEW c \in Client,
         \/ Seed(c) \/ Ensure(c) \/ ReplaceRaises(c) \/ Stop(c)
         \/ \E rule \in Rule : AskUpsert(c, rule)
         \/ \E id \in Named(json.rules) : AskDelete(c, id)
  PROVE  (\E x : Turned(c, x)) /\ UNCHANGED dropped /\ Noted
<1>1. CASE Seed(c)
  BY <1>1 DEF Seed, Turned, Operations
<1>2. CASE Ensure(c)
  <2> DEFINE upgraded == Upgraded(json.rules)
             x == IF json.state # "whole" THEN Stopped
                  ELSE IF upgraded = json.rules THEN Serving
                  ELSE Doing("ensure", "none", upgraded)
  <2>1. /\ client' = [client EXCEPT ![c] = x]
        /\ UNCHANGED <<json, tmp, dropped>> /\ Noted
    BY <1>2 DEF Ensure
  <2>2. \/ x \in {Stopped, Serving}
        \/ \E does \in Operations : \E id, list : x = Doing(does, id, list)
    BY DEF Operations
  <2> HIDE DEF x
  <2> QED BY <2>1, <2>2 DEF Turned
<1>3. CASE ReplaceRaises(c)
  <2> DEFINE x == IF client[c].does \in {"seed", "ensure"} THEN Stopped ELSE Serving
  <2>1. /\ client' = [client EXCEPT ![c] = x] /\ x \in {Stopped, Serving}
        /\ UNCHANGED <<json, tmp, dropped>> /\ Noted
    BY <1>3 DEF ReplaceRaises
  <2> HIDE DEF x
  <2> QED BY <2>1 DEF Turned
<1>4. CASE Stop(c)
  BY <1>4 DEF Stop, Turned
<1>5. CASE \E rule \in Rule : AskUpsert(c, rule)
  <2>1. PICK rule \in Rule : AskUpsert(c, rule)
    BY <1>5
  <2> DEFINE list == Upserted(json.rules, rule)
  <2>2. /\ client' = [client EXCEPT ![c] = Doing("upsert", rule.id, list)]
        /\ UNCHANGED <<json, tmp, dropped>> /\ Noted
    BY <2>1 DEF AskUpsert
  <2> HIDE DEF list
  <2> QED BY <2>2 DEF Turned, Operations
<1>6. CASE \E id \in Named(json.rules) : AskDelete(c, id)
  <2>1. PICK id \in Named(json.rules) : AskDelete(c, id)
    BY <1>6
  <2> DEFINE list == Deleted(json.rules, id)
  <2>2. /\ client' = [client EXCEPT ![c] = Doing("delete", id, list)]
        /\ UNCHANGED <<json, tmp, dropped>> /\ Noted
    BY <2>1 DEF AskDelete
  <2> HIDE DEF list
  <2> QED BY <2>2 DEF Turned, Operations
<1> QED BY <1>1, <1>2, <1>3, <1>4, <1>5, <1>6

(* What each step does to its client, the others and the files.              *)
LEMMA ClientSteps ==
  ASSUME Shaped, NEW c \in Client, NEW x, Turned(c, x)
  PROVE  /\ Shaped' /\ client'[c] = x /\ x.at \notin Writing
         /\ \A d \in Client \ {c} : client'[d] = client[d]
<1>1. /\ x.at \in {"down", "up", "open"}
      /\ DOMAIN x = {"at", "does", "id", "list", "handle"}
  BY RecordShapes DEF Turned
<1> QED BY <1>1 DEF Shaped, Turned, Writing

LEMMA OpenTmpStep ==
  ASSUME Shaped, NEW c \in Client, OpenTmp(c)
  PROVE  /\ Shaped' /\ \A d \in Client \ {c} : client'[d] = client[d]
         /\ client'[c].at = "write" /\ client'[c].handle = "tmp"
         /\ client'[c].does = client[c].does /\ client'[c].id = client[c].id
         /\ client'[c].list = client[c].list
BY DEF Shaped, OpenTmp

LEMMA WriteTmpStep ==
  ASSUME Shaped, NEW c \in Client, WriteTmp(c)
  PROVE  /\ Shaped' /\ \A d \in Client \ {c} : client'[d] = client[d]
         /\ client'[c].at = "replace" /\ client'[c].handle = "none"
         /\ client'[c].does = client[c].does /\ client'[c].id = client[c].id
         /\ client'[c].list = client[c].list
BY DEF Shaped, WriteTmp

LEMMA ReplaceStep ==
  ASSUME Shaped, NEW c \in Client, Replace(c)
  PROVE  /\ Shaped'
         /\ client'[c] \in {Serving, [Serving EXCEPT !.at = "seeded"]}
         /\ \A d \in Client \ {c} :
              /\ client'[d].at = client[d].at /\ client'[d].does = client[d].does
              /\ client'[d].id = client[d].id /\ client'[d].list = client[d].list
              /\ client'[d].handle = Moved(client[d].handle)
<1> DEFINE mine == IF client[c].does = "seed" THEN [Serving EXCEPT !.at = "seeded"]
                   ELSE Serving
<1>1. client' = [d \in Client |-> IF d # c THEN [client[d] EXCEPT !.handle = Moved(@)]
                                  ELSE mine]
  BY DEF Replace
<1>2. mine \in {Serving, [Serving EXCEPT !.at = "seeded"]}
  OBVIOUS
<1> HIDE DEF mine
<1> QED BY <1>1, <1>2, RecordShapes DEF Shaped, Moved

THEOREM Typing == Spec => []Typed
<1>1. Init => Typed
  BY RecordShapes DEF Init, Typed, TypeOK, Shaped, Remembered, Meetings, Overlap,
     States, Absent, Whole
<1>2. Typed /\ [Next]_vars => Typed'
  <2> SUFFICES ASSUME Typed, [Next]_vars PROVE Typed'
    OBVIOUS
  <2>0. TypeOK /\ Shaped /\ Remembered
    BY DEF Typed
  <2>1. ASSUME Noted PROVE Remembered' /\ met' \subseteq {"updates", "writes"}
    BY <2>0, <2>1, NotedRemembers DEF Noted, Meetings, TypeOK
  <2>2. ASSUME NEW c \in Client, NEW x, Turned(c, x), UNCHANGED dropped, Noted
        PROVE  Typed'
    <3>1. /\ x.at \in {"down", "up", "open"} /\ x.does \in {"none"} \cup Operations
          /\ x.handle = "none"
      BY <2>2, RecordShapes DEF Turned
    <3>2. TypeOK'
      BY <2>0, <2>1, <2>2, <3>1, ClientSteps DEF TypeOK, Turned, Operations
    <3> QED BY <2>0, <2>1, <2>2, <3>2, ClientSteps DEF Typed
  <2>3. ASSUME NEW c \in Client, OpenTmp(c) PROVE Typed'
    <3>1. UNCHANGED <<json, dropped>> /\ tmp' = Blank /\ Noted
      BY <2>3 DEF OpenTmp
    <3>2. TypeOK'
      BY <2>0, <2>1, <2>3, <3>1, OpenTmpStep DEF TypeOK, States, Blank
    <3> QED BY <2>0, <2>1, <2>3, <3>1, <3>2, OpenTmpStep DEF Typed
  <2>4. ASSUME NEW c \in Client, WriteTmp(c) PROVE Typed'
    <3>1. UNCHANGED dropped /\ Noted
      BY <2>4 DEF WriteTmp
    <3>2. \A list, over : \A file \in Written(list, over) : file.state \in States
      BY DEF Written, Whole, Garbled, States
    <3>3. client[c].handle \in {"tmp", "json", "gone"}
      BY <2>0, <2>4 DEF TypeOK, Shaped, WriteTmp
    <3>4. json'.state \in States /\ tmp'.state \in States
      BY <2>0, <2>4, <3>2, <3>3 DEF WriteTmp, TypeOK
    <3>5. TypeOK'
      BY <2>0, <2>1, <2>4, <3>1, <3>4, WriteTmpStep DEF TypeOK
    <3> QED BY <2>0, <2>1, <2>4, <3>1, <3>5, WriteTmpStep DEF Typed
  <2>5. ASSUME NEW c \in Client, Replace(c) PROVE Typed'
    <3>1. json' = tmp /\ tmp' = Absent /\ Noted
      BY <2>5 DEF Replace
    <3>2. dropped' \subseteq Required
      BY <2>0, <2>5 DEF Replace, TypeOK
    <3>3. TypeOK'
      BY <2>0, <2>1, <2>5, <3>1, <3>2, ReplaceStep, RecordShapes
      DEF TypeOK, States, Absent, Moved
    <3> QED BY <2>0, <2>1, <2>5, <3>1, <3>3, ReplaceStep DEF Typed
  <2>6. CASE UNCHANGED vars
    BY <2>0, <2>6 DEF vars, Typed, TypeOK, Shaped, Remembered, Meetings, Overlap
  <2> QED BY <2>2, <2>3, <2>4, <2>5, <2>6, TurnedSteps DEF Next, Step
<1> QED BY <1>1, <1>2, PTL DEF Spec

-----------------------------------------------------------------------------
(* The file is whole *)

(* ReadableUnlessWritesMeet is not inductive: what a rename moves into place *)
(* was written some steps before, in a file that only one client had open.   *)
Own(c) ==
  /\ client[c].at = "write" => client[c].handle = "tmp" /\ tmp = Blank
  /\ client[c].at = "replace" => tmp = Whole(client[c].list)

Clean ==
  "writes" \notin met => FileReadable /\ \A c \in Client : Own(c)

(* Nobody else writes where no writes have met.                              *)
LEMMA OneWrites ==
  ASSUME Remembered, "writes" \notin met, NEW c \in Client, NEW d \in Client \ {c},
         client[c].at \in Writing
  PROVE  client[d].at \notin Writing
BY DEF Remembered, Meetings, Overlap, Writing

LEMMA CleanStays == ASSUME Typed, Typed', Clean, [Next]_vars PROVE Clean'
<1> SUFFICES ASSUME "writes" \notin met' PROVE FileReadable' /\ \A c \in Client : Own(c)'
  BY DEF Clean
<1>0. Shaped /\ Remembered /\ Remembered'
  BY DEF Typed
<1>1. ASSUME Noted PROVE FileReadable /\ \A c \in Client : Own(c)
  BY <1>0, <1>1, NotedRemembers DEF Clean
<1>2. ASSUME NEW c \in Client, NEW d \in Client \ {c}, client'[c].at \in Writing
      PROVE  client'[d].at \notin Writing
  BY <1>0, <1>2, OneWrites DEF Remembered, Meetings, Overlap, Writing
<1>3. ASSUME NEW c \in Client, NEW x, Turned(c, x), Noted
      PROVE  FileReadable' /\ \A d \in Client : Own(d)'
  BY <1>0, <1>1, <1>3, ClientSteps, ZenonT(60) DEF Turned, FileReadable, Own, Writing
<1>4. ASSUME NEW c \in Client, OpenTmp(c)
      PROVE  FileReadable' /\ \A d \in Client : Own(d)'
  <2>1. Noted /\ UNCHANGED json /\ tmp' = Blank
    BY <1>4 DEF OpenTmp
  <2> QED BY <1>0, <1>1, <1>2, <1>4, <2>1, OpenTmpStep DEF FileReadable, Own, Writing
<1>5. ASSUME NEW c \in Client, WriteTmp(c)
      PROVE  FileReadable' /\ \A d \in Client : Own(d)'
  <2>1. Noted /\ client[c].at = "write"
    BY <1>5 DEF WriteTmp
  <2>2. client[c].handle = "tmp" /\ tmp = Blank
    BY <1>1, <2>1 DEF Own
  <2>3. UNCHANGED json /\ tmp' = Whole(client[c].list)
    BY <1>5, <2>2 DEF WriteTmp, Written
  <2> QED BY <1>0, <1>1, <1>2, <1>5, <2>1, <2>3, WriteTmpStep DEF FileReadable, Own, Writing
<1>6. ASSUME NEW c \in Client, Replace(c)
      PROVE  FileReadable' /\ \A d \in Client : Own(d)'
  <2>1. Noted /\ client[c].at = "replace" /\ json' = tmp
    BY <1>6 DEF Replace
  <2>2. "writes" \notin met
    BY <1>0, <2>1, NotedRemembers
  <2>3. json' = Whole(client[c].list)
    BY <1>1, <2>1 DEF Own
  <2>4. \A d \in Client \ {c} : client[d].at \notin Writing
    BY <1>0, <2>1, <2>2, OneWrites DEF Writing
  <2> QED BY <1>0, <1>6, <2>3, <2>4, ReplaceStep, RecordShapes
          DEF FileReadable, Own, Writing, Whole
<1>7. CASE UNCHANGED vars
  BY <1>7 DEF vars, Clean, FileReadable, Own
<1> QED BY <1>3, <1>4, <1>5, <1>6, <1>7, TurnedSteps DEF Next, Step

(* Whatever stops, the file is never half a write unless two clients wrote   *)
(* at once (store.py:20-23).                                                 *)
THEOREM FileStaysWhole == Spec => []ReadableUnlessWritesMeet
<1>1. Init => Clean
  BY RecordShapes DEF Init, Clean, FileReadable, Own, Absent, Whole
<1>2. Clean => ReadableUnlessWritesMeet
  BY DEF Clean, ReadableUnlessWritesMeet
<1> QED BY <1>1, <1>2, CleanStays, Typing, PTL DEF Spec

-----------------------------------------------------------------------------
(* The file behaves as the rules of Policy *)

(* What a client will rename into place is what its operation makes of the   *)
(* rules that are in the file now, not only when it read them.               *)
Planned(c) ==
  \/ client[c].does = "seed" /\ json = Absent /\ client[c].list = SeedRules
  \/ /\ json.state = "whole"
     /\ \/ /\ client[c].does = "ensure"
           /\ client[c].list = Upgraded(json.rules)
        \/ /\ client[c].does = "upsert"
           /\ \E rule \in Rule :
                /\ client[c].id = rule.id
                /\ client[c].list = Upserted(json.rules, rule)
        \/ /\ client[c].does = "delete"
           /\ client[c].id \in Named(json.rules)
           /\ client[c].list = Deleted(json.rules, client[c].id)

Current ==
  "updates" \notin met =>
    \A c \in Client : client[c].at \in Updating => Planned(c)

LEMMA OneUpdates ==
  ASSUME Remembered, "updates" \notin met, NEW c \in Client, NEW d \in Client \ {c},
         client[c].at \in Updating
  PROVE  client[d].at \notin Updating
BY DEF Remembered, Meetings, Overlap, Updating

(* Whoever takes up an operation plans it from the file as it is.            *)
LEMMA TurnedPlans ==
  ASSUME Typed, FileReadable, NEW c \in Client,
         \/ Seed(c) \/ Ensure(c) \/ ReplaceRaises(c) \/ Stop(c)
         \/ \E rule \in Rule : AskUpsert(c, rule)
         \/ \E id \in Named(json.rules) : AskDelete(c, id)
  PROVE  client'[c].at \in Updating => Planned(c)'
<1>0. DOMAIN client = Client
  BY DEF Typed, Shaped
<1> DEFINE Quiet == client'[c] \in {Stopped, Serving}
<1>1. Quiet => client'[c].at \notin Updating
  BY RecordShapes DEF Updating
<1>2. CASE Seed(c)
  BY <1>0, <1>2, RecordShapes DEF Seed, Planned
<1>3. CASE Ensure(c)
  <2> DEFINE upgraded == Upgraded(json.rules)
  <2>1. /\ client'[c] = (IF json.state # "whole" THEN Stopped
                         ELSE IF upgraded = json.rules THEN Serving
                         ELSE Doing("ensure", "none", upgraded))
        /\ UNCHANGED json
    BY <1>0, <1>3 DEF Ensure
  <2>2. Quiet \/ (json.state = "whole" /\ client'[c] = Doing("ensure", "none", upgraded))
    BY <2>1
  <2> HIDE DEF Quiet, upgraded
  <2>3. client'[c] = Doing("ensure", "none", upgraded) =>
          client'[c].does = "ensure" /\ client'[c].list = upgraded
    BY RecordShapes
  <2> QED BY <1>1, <2>1, <2>2, <2>3 DEF Planned, upgraded
<1>4. CASE ReplaceRaises(c)
  <2>1. Quiet
    BY <1>0, <1>4 DEF ReplaceRaises
  <2> QED BY <1>1, <2>1
<1>5. CASE Stop(c)
  <2>1. Quiet
    BY <1>0, <1>5 DEF Stop
  <2> QED BY <1>1, <2>1
<1>6. CASE \E rule \in Rule : AskUpsert(c, rule)
  <2>1. PICK rule \in Rule : AskUpsert(c, rule)
    BY <1>6
  <2> DEFINE list == Upserted(json.rules, rule)
  <2>2. /\ client'[c] = Doing("upsert", rule.id, list)
        /\ UNCHANGED json /\ json.state = "whole"
    BY <1>0, <2>1 DEF AskUpsert, Ready
  <2> HIDE DEF list
  <2>3. client'[c].does = "upsert" /\ client'[c].id = rule.id /\ client'[c].list = list
    BY <2>2, RecordShapes
  <2> QED BY <2>2, <2>3 DEF Planned, list
<1>7. CASE \E id \in Named(json.rules) : AskDelete(c, id)
  <2>1. PICK id \in Named(json.rules) : AskDelete(c, id)
    BY <1>7
  <2> DEFINE list == Deleted(json.rules, id)
  <2>2. /\ client'[c] = Doing("delete", id, list)
        /\ UNCHANGED json /\ json.state = "whole"
    BY <1>0, <2>1 DEF AskDelete, Ready
  <2> HIDE DEF list
  <2>3. client'[c].does = "delete" /\ client'[c].id = id /\ client'[c].list = list
    BY <2>2, RecordShapes
  <2> QED BY <2>1, <2>2, <2>3 DEF Planned, list
<1> QED BY <1>2, <1>3, <1>4, <1>5, <1>6, <1>7

(* Until two updates overlap, writing moves nothing and only renames show.   *)
LEMMA WriteTmpHidden ==
  ASSUME Typed, Clean, "updates" \notin met, NEW c \in Client, WriteTmp(c)
  PROVE  UNCHANGED <<json, dropped>>
<1>1. client[c].handle = "tmp"
  BY DEF WriteTmp, Typed, Remembered, Clean, Own
<1> QED BY <1>1 DEF WriteTmp

LEMMA CurrentStays == ASSUME Typed, Typed', Clean, Current, [Next]_vars PROVE Current'
<1> SUFFICES ASSUME "updates" \notin met', NEW d \in Client, client'[d].at \in Updating
             PROVE  Planned(d)'
  BY DEF Current
<1>0. Shaped /\ Remembered /\ Remembered'
  BY DEF Typed
<1>1. ASSUME Noted
      PROVE  "updates" \notin met /\ FileReadable
             /\ \A c \in Client : client[c].at \in Updating => Planned(c)
  BY <1>0, <1>1, NotedRemembers DEF Current, Clean, Remembered
<1>2. ASSUME NEW c \in Client, UNCHANGED json, client[c].at \in Updating,
             client'[c].does = client[c].does, client'[c].id = client[c].id,
             client'[c].list = client[c].list, Noted
      PROVE  Planned(c)'
  BY <1>1, <1>2 DEF Planned
<1>3. ASSUME NEW c \in Client,
             \/ Seed(c) \/ Ensure(c) \/ ReplaceRaises(c) \/ Stop(c)
             \/ \E rule \in Rule : AskUpsert(c, rule)
             \/ \E id \in Named(json.rules) : AskDelete(c, id)
      PROVE  Planned(d)'
  <2>1. PICK x : Turned(c, x)
    BY <1>3, TurnedSteps
  <2>2. Noted /\ UNCHANGED json
    BY <1>3, <2>1, TurnedSteps DEF Turned
  <2>3. CASE d = c
    <3>1. FileReadable
      BY <1>1, <2>2
    <3>2. client'[c].at \in Updating => Planned(c)'
      BY <1>3, <3>1, TurnedPlans
    <3> QED BY <2>3, <3>2
  <2>4. CASE d # c
    BY <1>0, <1>2, <2>1, <2>2, <2>4, ClientSteps
  <2> QED BY <2>3, <2>4
<1>4. ASSUME NEW c \in Client, OpenTmp(c) PROVE Planned(d)'
  <2>1. Noted /\ UNCHANGED json /\ client[c].at = "open"
    BY <1>4 DEF OpenTmp
  <2> QED BY <1>0, <1>2, <1>4, <2>1, OpenTmpStep DEF Updating
<1>5. ASSUME NEW c \in Client, WriteTmp(c) PROVE Planned(d)'
  <2>1. Noted /\ client[c].at = "write"
    BY <1>5 DEF WriteTmp
  <2>2. UNCHANGED json
    BY <1>1, <1>5, <2>1, WriteTmpHidden
  <2> QED BY <1>0, <1>2, <1>5, <2>1, <2>2, WriteTmpStep DEF Updating
<1>6. ASSUME NEW c \in Client, Replace(c) PROVE FALSE
  <2>1. Noted /\ client[c].at = "replace"
    BY <1>6 DEF Replace
  <2>2. client'[c].at \notin Updating
    BY <1>0, <1>6, ReplaceStep, RecordShapes DEF Updating
  <2>3. d # c /\ client[d].at \in Updating
    BY <1>0, <1>6, <2>2, ReplaceStep
  <2> QED BY <1>0, <1>1, <2>1, <2>3, OneUpdates DEF Updating
<1>7. CASE UNCHANGED vars
  BY <1>7 DEF vars, Current, Planned
<1> QED BY <1>3, <1>4, <1>5, <1>6, <1>7 DEF Next, Step

(* Policy, as the store has it, computes what its module computes.           *)
LEMMA SamePolicy ==
  /\ \A list : /\ Policies!Upgraded(list) = Upgraded(list) /\ Policies!Ids(list) = Ids(list)
               /\ Policies!Named(list) = Named(list)
  /\ \A list, rule : Policies!Upserted(list, rule) = Upserted(list, rule)
  /\ \A list, id : Policies!Deleted(list, id) = Deleted(list, id)
<1>1. \A S : Policies!Cardinality(S) = Cardinality(S)
  BY DEF Policies!Cardinality, Cardinality
<1>2. \A list, S : Policies!Keep(list, S) = Keep(list, S)
  BY DEF Policies!Keep, Keep, Policies!Cardinality, Cardinality
<1>3. \A list : Policies!Ids(list) = Ids(list)
  BY DEF Policies!Ids, Ids
<1>4. \A list : Policies!Upgraded(list) = Upgraded(list)
  BY DEF Policies!Upgraded, Upgraded, Policies!Keep, Keep, Policies!Cardinality, Cardinality,
         Policies!Ids, Ids, Policies!is_catch_all, is_catch_all, Policies!AnyName, AnyName
<1>5. \A list, ids : Policies!Without(list, ids) = Without(list, ids)
  BY <1>2, Zenon DEF Policies!Without, Without
<1>6. \A list : Policies!Named(list) = Named(list)
  BY <1>3 DEF Policies!Named, Named
<1> QED
  BY <1>3, <1>4, <1>5, <1>6 DEF Policies!Upserted, Upserted, Policies!Deleted, Deleted

(* A rename is the operation it ends, or puts the seed where there was none. *)
LEMMA ReplaceImplements ==
  ASSUME Typed, Clean, Current, "updates" \notin met, NEW c \in Client, Replace(c)
  PROVE  Policies!RulesNext \/ UNCHANGED Policies!rules_vars
<1> DEFINE before == IF json.state = "absent" THEN SeedRules ELSE json.rules
           after  == IF json'.state = "absent" THEN SeedRules ELSE json'.rules
<1>1. /\ client[c].at = "replace" /\ json' = tmp /\ Planned(c)
      /\ dropped' = CASE client[c].does = "upsert" -> dropped \ {client[c].id}
                      [] client[c].does = "delete" ->
                           dropped \cup (Required \cap Ids(json.rules)
                                                  \cap {client[c].id})
                      [] OTHER -> dropped
  BY DEF Replace, Current, Updating
<1>2. json' = Whole(client[c].list)
  BY <1>1 DEF Typed, Remembered, Clean, Own
<1>3. after = client[c].list
  BY <1>2 DEF Whole
<1>4. CASE client[c].does = "seed"
  <2>1. before = SeedRules /\ after = SeedRules /\ UNCHANGED dropped
    BY <1>1, <1>3, <1>4 DEF Planned, Absent
  <2> QED BY <2>1 DEF Policies!rules_vars
<1>5. CASE client[c].does = "ensure"
  <2>1. /\ before = json.rules /\ after = Upgraded(json.rules)
        /\ UNCHANGED dropped
    BY <1>1, <1>3, <1>5 DEF Planned
  <2>2. Policies!Boot
    BY <2>1, SamePolicy DEF Policies!Boot
  <2> QED BY <2>2 DEF Policies!RulesNext
<1>6. CASE client[c].does = "upsert"
  <2>1. PICK rule \in Rule :
               /\ before = json.rules /\ after = Upserted(json.rules, rule)
               /\ dropped' = dropped \ {rule.id}
    BY <1>1, <1>3, <1>6 DEF Planned
  <2>2. Policies!Upsert(rule)
    BY <2>1, SamePolicy DEF Policies!Upsert
  <2> QED BY <2>2 DEF Policies!RulesNext
<1>7. CASE client[c].does = "delete"
  <2> DEFINE id == client[c].id
  <2>1. /\ id \in Named(json.rules)
        /\ before = json.rules /\ after = Deleted(json.rules, id)
        /\ dropped' = dropped \cup (Required \cap Ids(json.rules) \cap {id})
    BY <1>1, <1>3, <1>7 DEF Planned
  <2>2. Policies!Delete(id)
    BY <2>1, SamePolicy DEF Policies!Delete
  <2>3. id \in Policies!Named(before)
    BY <2>1, SamePolicy
  <2> QED BY <2>2, <2>3 DEF Policies!RulesNext
<1> QED BY <1>1, <1>4, <1>5, <1>6, <1>7 DEF Planned

(* Until two updates overlap, each operation takes effect at once or not at  *)
(* all, whatever stops in the middle of it (policies.py:101-106).            *)
THEOREM Implementation == Spec => ImplementsPolicy
<1>1. Init => Policies!RulesInit /\ Clean /\ Current
  BY RecordShapes
  DEF Init, Policies!RulesInit, Clean, Current, FileReadable, Own, Updating, Absent, Whole
<1>2. Typed /\ Typed' /\ Clean /\ Current /\ [Next]_vars =>
        [Policies!RulesNext \/ "updates" \in met']_(Policies!rules_vars)
  <2> SUFFICES ASSUME Typed, Typed', Clean, Current, [Next]_vars, "updates" \notin met'
               PROVE  Policies!RulesNext \/ UNCHANGED Policies!rules_vars
    OBVIOUS
  <2>0. Remembered
    BY DEF Typed
  <2>1. ASSUME Noted PROVE "updates" \notin met
    BY <2>0, <2>1, NotedRemembers
  <2>2. UNCHANGED <<json, dropped>> => UNCHANGED Policies!rules_vars
    BY DEF Policies!rules_vars
  <2>3. ASSUME NEW c \in Client, OpenTmp(c) PROVE UNCHANGED <<json, dropped>>
    BY <2>3 DEF OpenTmp
  <2>4. ASSUME NEW c \in Client, WriteTmp(c) PROVE UNCHANGED <<json, dropped>>
    <3>1. Noted
      BY <2>4 DEF WriteTmp
    <3> QED BY <2>1, <2>4, <3>1, WriteTmpHidden
  <2>5. ASSUME NEW c \in Client, Replace(c)
        PROVE  Policies!RulesNext \/ UNCHANGED Policies!rules_vars
    <3>1. Noted
      BY <2>5 DEF Replace
    <3> QED BY <2>1, <2>5, <3>1, ReplaceImplements
  <2>6. ASSUME NEW c \in Client,
               \/ Seed(c) \/ Ensure(c) \/ ReplaceRaises(c) \/ Stop(c)
               \/ \E rule \in Rule : AskUpsert(c, rule)
               \/ \E id \in Named(json.rules) : AskDelete(c, id)
        PROVE  UNCHANGED <<json, dropped>>
    BY <2>6, TurnedSteps DEF Turned
  <2>7. CASE UNCHANGED vars
    BY <2>7 DEF vars, Policies!rules_vars
  <2> QED BY <2>2, <2>3, <2>4, <2>5, <2>6, <2>7 DEF Next, Step
<1> QED BY <1>1, <1>2, CleanStays, CurrentStays, Typing, PTL DEF Spec, ImplementsPolicy

-----------------------------------------------------------------------------
(* List comprehensions *)

(* How many of the positions are up to this one.                             *)
Rank(positions, i) == Cardinality({j \in positions : j <= i})

(* The positions in their order: k is the rank of the k-th.                  *)
Enumerates(pos, positions) ==
  /\ pos \in [1 .. Cardinality(positions) -> positions]
  /\ \A k, l \in 1 .. Cardinality(positions) : k < l => pos[k] < pos[l]
  /\ \A i \in positions : \E k \in 1 .. Cardinality(positions) : pos[k] = i

LEMMA Ranks ==
  ASSUME NEW S \in SUBSET Nat, IsFiniteSet(S)
  PROVE  /\ Cardinality(S) \in Nat
         /\ \A i \in S : Rank(S, i) \in 1 .. Cardinality(S)
         /\ \A i, j \in S : i < j => Rank(S, i) < Rank(S, j)
         /\ \A k \in 1 .. Cardinality(S) : \E i \in S : Rank(S, i) = k
<1> DEFINE UpTo(i) == {j \in S : j <= i}
<1>1. Cardinality(S) \in Nat
  BY FS_CardinalityType
<1>2. ASSUME NEW i \in S
      PROVE  IsFiniteSet(UpTo(i)) /\ Cardinality(UpTo(i)) \in 1 .. Cardinality(S)
  <2>1. UpTo(i) \subseteq S /\ {i} \subseteq UpTo(i)
    OBVIOUS
  <2>2. IsFiniteSet(UpTo(i)) /\ Cardinality(UpTo(i)) <= Cardinality(S)
    BY <2>1, FS_Subset
  <2>3. Cardinality({i}) = 1 /\ Cardinality({i}) <= Cardinality(UpTo(i))
    BY <2>1, <2>2, FS_Subset, FS_Singleton
  <2>4. Cardinality(UpTo(i)) \in Nat
    BY <2>2, FS_CardinalityType
  <2> QED BY <1>1, <2>2, <2>3, <2>4
<1>3. ASSUME NEW i \in S, NEW j \in S, i < j
      PROVE  Cardinality(UpTo(i)) < Cardinality(UpTo(j))
  <2>0. i \in Nat /\ j \in Nat /\ \A k \in S : k \in Nat
    OBVIOUS
  <2>1. j \in UpTo(j) /\ j \notin UpTo(i) /\ UpTo(i) \subseteq UpTo(j)
    <3>1. ~(j <= i) /\ j <= j
      BY <1>3, <2>0
    <3>2. \A k \in S : k <= i => k <= j
      BY <1>3, <2>0
    <3> QED BY <3>1, <3>2
  <2>2. /\ Cardinality(UpTo(i)) <= Cardinality(UpTo(j))
        /\ Cardinality(UpTo(j)) = Cardinality(UpTo(i)) => UpTo(j) = UpTo(i)
    BY <1>2, <2>1, FS_Subset
  <2> HIDE DEF UpTo
  <2>3. Cardinality(UpTo(i)) \in Nat /\ Cardinality(UpTo(j)) \in Nat
    BY <1>2, FS_CardinalityType
  <2> QED BY <2>1, <2>2, <2>3
<1> DEFINE f == [i \in S |-> Cardinality(UpTo(i))]
<1> HIDE DEF UpTo
<1>4. f \in Injection(S, 1 .. Cardinality(S))
  <2>1. f \in [S -> 1 .. Cardinality(S)]
    BY <1>2
  <2>2. ASSUME NEW i \in S, NEW j \in S, f[i] = f[j] PROVE i = j
    <3>1. Cardinality(UpTo(i)) \in Nat /\ Cardinality(UpTo(i)) = Cardinality(UpTo(j))
      BY <1>2, <2>2, FS_CardinalityType
    <3>2. ~(i < j) /\ ~(j < i)
      BY <1>3, <3>1
    <3> QED BY <3>2
  <2> QED BY <2>1, <2>2 DEF Injection, IsInjective
<1>5. f \in Surjection(S, 1 .. Cardinality(S))
  <2>1. /\ IsFiniteSet(1 .. Cardinality(S))
        /\ Cardinality(1 .. Cardinality(S)) = Cardinality(S)
    BY <1>1, FS_Interval
  <2> QED BY <1>4, <2>1, FS_Injection
<1>6. \A k \in 1 .. Cardinality(S) : \E i \in S : Cardinality(UpTo(i)) = k
  BY <1>5 DEF Surjection
<1> QED
  BY <1>1, <1>2, <1>3, <1>6 DEF Rank, UpTo

LEMMA KeepFacts ==
  ASSUME NEW R, NEW list \in Seq(R), NEW S \in SUBSET DOMAIN list
  PROVE  /\ IsFiniteSet(S) /\ Cardinality(S) \in Nat
         /\ Keep(list, S) \in Seq(R)
         /\ DOMAIN Keep(list, S) = 1 .. Cardinality(S)
         /\ Len(Keep(list, S)) = Cardinality(S)
         /\ \E pos : /\ Enumerates(pos, S)
                     /\ \A k \in 1 .. Cardinality(S) : Keep(list, S)[k] = list[pos[k]]
<1> DEFINE pos == [k \in 1 .. Cardinality(S) |-> CHOOSE i \in S : Rank(S, i) = k]
<1>1. S \in SUBSET Nat /\ IsFiniteSet(S)
  BY FS_Interval, FS_Subset
<1>2. /\ Cardinality(S) \in Nat
      /\ \A i \in S : Rank(S, i) \in 1 .. Cardinality(S)
      /\ \A i, j \in S : i < j => Rank(S, i) < Rank(S, j)
      /\ \A k \in 1 .. Cardinality(S) : \E i \in S : Rank(S, i) = k
  BY <1>1, Ranks
<1>3. \A k \in 1 .. Cardinality(S) : pos[k] \in S /\ Rank(S, pos[k]) = k
  BY <1>2
<1>4. ASSUME NEW i \in S, NEW j \in S, Rank(S, i) = Rank(S, j) PROVE i = j
  <2>1. ~(i < j) /\ ~(j < i) /\ i \in Nat /\ j \in Nat
    BY <1>1, <1>2, <1>4
  <2> QED BY <2>1
<1>5. Enumerates(pos, S)
  <2>1. ASSUME NEW k \in 1 .. Cardinality(S), NEW l \in 1 .. Cardinality(S), k < l
        PROVE  pos[k] < pos[l]
    <3>1. /\ pos[k] \in S /\ pos[l] \in S /\ pos[k] \in Nat /\ pos[l] \in Nat
          /\ Rank(S, pos[k]) = k /\ Rank(S, pos[l]) = l
      BY <1>1, <1>3
    <3>2. pos[k] # pos[l] /\ ~(pos[l] < pos[k])
      BY <1>2, <2>1, <3>1
    <3> QED BY <3>1, <3>2
  <2>2. ASSUME NEW i \in S PROVE pos[Rank(S, i)] = i
    BY <1>2, <1>3, <1>4
  <2>3. pos \in [1 .. Cardinality(S) -> S]
    BY <1>3
  <2> HIDE DEF pos
  <2> QED BY <1>2, <2>1, <2>2, <2>3 DEF Enumerates
<1>6. Keep(list, S) = [k \in 1 .. Cardinality(S) |-> list[pos[k]]]
  <2>1. Keep(list, S) =
          [k \in 1 .. Cardinality(S) |-> list[CHOOSE i \in S : Rank(S, i) = k]]
    BY Zenon DEF Keep, Rank
  <2>2. \A k \in 1 .. Cardinality(S) : pos[k] = CHOOSE i \in S : Rank(S, i) = k
    OBVIOUS
  <2> QED BY <2>1, <2>2, Zenon
<1>7. \A k \in 1 .. Cardinality(S) : list[pos[k]] \in R
  BY <1>3
<1> HIDE DEF pos
<1>8. Keep(list, S) \in Seq(R) /\ Len(Keep(list, S)) = Cardinality(S)
  BY <1>2, <1>6, <1>7
<1> QED
  BY <1>1, <1>2, <1>5, <1>6, <1>8

(* A set of positions has a first one.                                       *)
LEMMA FirstPosition ==
  ASSUME NEW S \in SUBSET Nat, IsFiniteSet(S), S # {}
  PROVE  \E i \in S : \A j \in S : i <= j
<1>1. /\ Cardinality(S) \in Nat
      /\ \A i \in S : Rank(S, i) \in 1 .. Cardinality(S)
      /\ \A i, j \in S : i < j => Rank(S, i) < Rank(S, j)
      /\ \A k \in 1 .. Cardinality(S) : \E i \in S : Rank(S, i) = k
  BY Ranks
<1>2. 1 \in 1 .. Cardinality(S)
  BY <1>1, FS_EmptySet
<1>3. PICK i \in S : Rank(S, i) = 1
  BY <1>1, <1>2
<1>4. ASSUME NEW j \in S PROVE i <= j
  BY <1>1, <1>3
<1> QED BY <1>4

(* A comprehension begins with the first element it keeps.                   *)
LEMMA KeepHead ==
  ASSUME NEW R, NEW list \in Seq(R), NEW S \in SUBSET DOMAIN list
  PROVE  /\ S = {} => Keep(list, S) = <<>>
         /\ S # {} => /\ Keep(list, S) # <<>>
                      /\ \E i \in S : /\ \A j \in S : i <= j
                                      /\ Head(Keep(list, S)) = list[i]
<1> DEFINE kept == Keep(list, S)
<1>1. /\ IsFiniteSet(S) /\ Cardinality(S) \in Nat
      /\ kept \in Seq(R) /\ Len(kept) = Cardinality(S)
  BY KeepFacts
<1>2. PICK pos : /\ Enumerates(pos, S)
                 /\ \A k \in 1 .. Cardinality(S) : kept[k] = list[pos[k]]
  BY KeepFacts
<1> HIDE DEF kept
<1>3. CASE S = {}
  <2>1. Len(kept) = 0
    BY <1>1, <1>3, FS_EmptySet
  <2> QED BY <1>1, <1>3, <2>1, EmptySeq DEF kept
<1>4. CASE S # {}
  <2>1. Len(kept) # 0 /\ 1 \in 1 .. Cardinality(S)
    BY <1>1, <1>4, FS_EmptySet
  <2>2. kept # <<>> /\ Head(kept) = kept[1]
    BY <1>1, <2>1
  <2>3. pos[1] \in S /\ Head(kept) = list[pos[1]]
    BY <1>2, <2>1, <2>2 DEF Enumerates
  <2>4. ASSUME NEW j \in S PROVE pos[1] <= j
    <3>1. PICK l \in 1 .. Cardinality(S) : pos[l] = j
      BY <1>2 DEF Enumerates
    <3>2. pos[1] \in Nat /\ j \in Nat
      BY <2>3
    <3>3. l = 1 \/ pos[1] < pos[l]
      BY <1>1, <1>2, <2>1, <3>1 DEF Enumerates
    <3> QED BY <3>1, <3>2, <3>3
  <2> QED BY <1>4, <2>2, <2>3, <2>4 DEF kept
<1> QED BY <1>3, <1>4

-----------------------------------------------------------------------------
(* Deciding *)

(* The rules that apply to a request, catch-alls aside, and the first of the *)
(* most specific ones.                                                       *)
Applies(list, req) ==
  {i \in DOMAIN list : /\ specificity(list[i]) > 0
                       /\ rule_matches(list[i], req)}

Best(list, M, i) ==
  /\ i \in M
  /\ \A j \in M : \/ specificity(list[i]) > specificity(list[j])
                  \/ /\ specificity(list[i]) = specificity(list[j])
                     /\ i <= j

Selected(list, req) ==
  LET ordered == ordered_rules(list)
  IN  Keep(ordered,
                    {k \in DOMAIN ordered : rule_matches(ordered[k], req)})

LEMMA Specificities ==
  ASSUME NEW rule
  PROVE  /\ specificity(rule) \in 0 .. 2
         /\ specificity(rule) = 0 <=> is_catch_all(rule)
BY DEF specificity, is_catch_all

(* Rules by specificity, each class in its order: n have an action and a     *)
(* target of their own, the others one of the two.                           *)
Sorts(ordered, list, pos, n) ==
  /\ pos \in [1 .. Len(ordered) -> DOMAIN list] /\ n \in 0 .. Len(ordered)
  /\ \A k \in 1 .. Len(ordered) :
       /\ ordered[k] = list[pos[k]]
       /\ k <= n => specificity(list[pos[k]]) = 2
       /\ n < k => specificity(list[pos[k]]) = 1
  /\ \A k, l \in 1 .. Len(ordered) :
       k < l /\ (l <= n \/ n < k) => pos[k] < pos[l]
  /\ \A i \in DOMAIN list : specificity(list[i]) > 0 =>
       \E k \in 1 .. Len(ordered) : pos[k] = i

(* So ordered_rules lists them.                                              *)
LEMMA OrderedRules ==
  ASSUME NEW R, NEW list \in Seq(R), NEW ordered, ordered = ordered_rules(list)
  PROVE  ordered \in Seq(R) /\ \E pos, n : Sorts(ordered, list, pos, n)
<1> DEFINE Of(n) == {i \in DOMAIN list : specificity(list[i]) = n}
           A == Keep(list, Of(2))
           B == Keep(list, Of(1))
           a == Cardinality(Of(2))
           b == Cardinality(Of(1))
<1>1. ordered = A \o B
  BY DEF ordered_rules
<1>0. Of(1) \in SUBSET DOMAIN list /\ Of(2) \in SUBSET DOMAIN list
  OBVIOUS
<1> HIDE DEF Of
<1>2. /\ a \in Nat /\ A \in Seq(R) /\ Len(A) = a
      /\ \E p : Enumerates(p, Of(2)) /\ \A k \in 1 .. a : A[k] = list[p[k]]
  BY <1>0, KeepFacts
<1>3. /\ b \in Nat /\ B \in Seq(R) /\ Len(B) = b
      /\ \E q : Enumerates(q, Of(1)) /\ \A k \in 1 .. b : B[k] = list[q[k]]
  BY <1>0, KeepFacts
<1>4. PICK p : Enumerates(p, Of(2)) /\ \A k \in 1 .. a : A[k] = list[p[k]]
  BY <1>2
<1>5. PICK q : Enumerates(q, Of(1)) /\ \A k \in 1 .. b : B[k] = list[q[k]]
  BY <1>3
<1>6. /\ \A k \in 1 .. a : p[k] \in DOMAIN list /\ specificity(list[p[k]]) = 2
      /\ \A k, l \in 1 .. a : k < l => p[k] < p[l]
      /\ \A i \in DOMAIN list : specificity(list[i]) = 2 => \E k \in 1 .. a : p[k] = i
  BY <1>4 DEF Enumerates, Of
<1>7. /\ \A k \in 1 .. b : q[k] \in DOMAIN list /\ specificity(list[q[k]]) = 1
      /\ \A k, l \in 1 .. b : k < l => q[k] < q[l]
      /\ \A i \in DOMAIN list : specificity(list[i]) = 1 => \E k \in 1 .. b : q[k] = i
  BY <1>5 DEF Enumerates, Of
<1> HIDE DEF A, B, a, b
<1>8. PICK pos : /\ pos = [k \in 1 .. (a + b) |-> pos[k]]
                 /\ \A k \in 1 .. (a + b) : pos[k] = IF k <= a THEN p[k] ELSE q[k - a]
  <2> DEFINE f == [k \in 1 .. (a + b) |-> IF k <= a THEN p[k] ELSE q[k - a]]
  <2>1. f = [k \in 1 .. (a + b) |-> f[k]]
        /\ \A k \in 1 .. (a + b) : f[k] = IF k <= a THEN p[k] ELSE q[k - a]
    OBVIOUS
  <2> QED BY <2>1
<1>9. /\ \A k \in 1 .. a : k \in 1 .. (a + b) /\ pos[k] = p[k]
      /\ \A k \in 1 .. b : a + k \in 1 .. (a + b) /\ pos[a + k] = q[k]
  BY <1>2, <1>3, <1>8
<1>10. /\ ordered \in Seq(R) /\ Len(ordered) = a + b
       /\ \A k \in 1 .. a : ordered[k] = A[k]
       /\ \A k \in 1 .. b : ordered[a + k] = B[k]
  <2>1. /\ A \o B \in Seq(R) /\ Len(A \o B) = a + b
        /\ \A k \in 1 .. (a + b) : (A \o B)[k] = IF k <= a THEN A[k] ELSE B[k - a]
    <3>1. A \in Seq(R) /\ B \in Seq(R) /\ Len(A) = a /\ Len(B) = b
      BY <1>2, <1>3
    <3>2. /\ A \o B \in Seq(R) /\ Len(A \o B) = Len(A) + Len(B)
          /\ \A k \in 1 .. Len(A) + Len(B) :
               (A \o B)[k] = IF k <= Len(A) THEN A[k] ELSE B[k - Len(A)]
      BY <3>1, ConcatProperties, Zenon
    <3> QED BY <3>1, <3>2, Zenon
  <2> QED BY <1>1, <1>2, <1>3, <2>1
<1>11. \A k \in 1 .. (a + b) : k \in 1 .. a \/ (k - a \in 1 .. b /\ k = a + (k - a))
  BY <1>2, <1>3
<1>12. ASSUME NEW k \in 1 .. (a + b)
       PROVE  /\ pos[k] \in DOMAIN list /\ ordered[k] = list[pos[k]]
              /\ k <= a => specificity(list[pos[k]]) = 2
              /\ a < k => specificity(list[pos[k]]) = 1
  <2>1. CASE k \in 1 .. a
    <3>1. k <= a /\ ~(a < k)
      BY <1>2, <2>1
    <3>2. pos[k] = p[k] /\ ordered[k] = A[k]
      BY <1>9, <1>10, <2>1
    <3> QED BY <1>4, <1>6, <2>1, <3>1, <3>2
  <2>2. CASE k - a \in 1 .. b /\ k = a + (k - a)
    <3>1. a < k
      BY <1>2, <1>3, <2>2
    <3>2. /\ pos[k] = q[k - a] /\ ordered[k] = B[k - a]
      BY <1>9, <1>10, <2>2
    <3> QED BY <1>2, <1>5, <1>7, <2>2, <3>1, <3>2
  <2> QED BY <1>11, <2>1, <2>2
<1>13. ASSUME NEW k \in 1 .. (a + b), NEW l \in 1 .. (a + b), k < l, l <= a \/ a < k
       PROVE  pos[k] < pos[l]
  <2>1. CASE l <= a
    <3>1. k \in 1 .. a /\ l \in 1 .. a
      BY <1>2, <1>13, <2>1
    <3> QED BY <1>6, <1>9, <1>13, <3>1
  <2>2. CASE a < k
    <3>1. /\ k - a \in 1 .. b /\ l - a \in 1 .. b /\ k - a < l - a
          /\ k = a + (k - a) /\ l = a + (l - a)
      BY <1>2, <1>3, <1>13, <2>2
    <3>2. pos[k] = q[k - a] /\ pos[l] = q[l - a]
      BY <1>9, <3>1
    <3> QED BY <1>7, <3>1, <3>2
  <2> QED BY <1>13, <2>1, <2>2
<1>14. ASSUME NEW i \in DOMAIN list, specificity(list[i]) > 0
       PROVE  \E k \in 1 .. (a + b) : pos[k] = i
  <2>1. specificity(list[i]) \in {1, 2}
    BY <1>14, Specificities
  <2> QED BY <1>6, <1>7, <1>9, <2>1
<1>15. pos \in [1 .. (a + b) -> DOMAIN list]
  BY <1>8, <1>12
<1>16. a \in 0 .. Len(ordered) /\ 1 .. Len(ordered) = 1 .. (a + b)
  BY <1>2, <1>3, <1>10
<1>17. \A k \in 1 .. Len(ordered) :
         /\ ordered[k] = list[pos[k]]
         /\ k <= a => specificity(list[pos[k]]) = 2
         /\ a < k => specificity(list[pos[k]]) = 1
  BY <1>12, <1>16
<1>18. \A k, l \in 1 .. Len(ordered) : k < l /\ (l <= a \/ a < k) => pos[k] < pos[l]
  BY <1>13, <1>16
<1>19. \A i \in DOMAIN list : specificity(list[i]) > 0 =>
          \E k \in 1 .. Len(ordered) : pos[k] = i
  BY <1>14, <1>16
<1>20. ordered \in Seq(R) /\ pos \in [1 .. Len(ordered) -> DOMAIN list]
  BY <1>10, <1>15, <1>16
<1> QED
  BY <1>16, <1>17, <1>18, <1>19, <1>20, ZenonT(60) DEF Sorts

(* The first rule selected is the most specific one, and the first of those. *)
LEMMA SelectsBest ==
  ASSUME NEW R, NEW list \in Seq(R), NEW req
  PROVE  /\ Applies(list, req) = {} => Selected(list, req) = <<>>
         /\ Applies(list, req) # {} =>
              /\ Selected(list, req) # <<>>
              /\ \E i : /\ Best(list, Applies(list, req), i)
                        /\ Head(Selected(list, req)) = list[i]
<1> DEFINE ordered == ordered_rules(list)
           K == {k \in DOMAIN ordered : rule_matches(ordered[k], req)}
           M == Applies(list, req)
<1>1. ordered \in Seq(R) /\ \E pos, n : Sorts(ordered, list, pos, n)
  BY OrderedRules
<1>2. Selected(list, req) = Keep(ordered, K)
  BY DEF Selected
<1> HIDE DEF ordered
<1>3. ordered \in Seq(R)
  BY <1>1
<1>4. PICK pos, n : Sorts(ordered, list, pos, n)
  BY <1>1
<1>5. /\ pos \in [1 .. Len(ordered) -> DOMAIN list] /\ n \in 0 .. Len(ordered)
      /\ \A k \in 1 .. Len(ordered) :
           /\ ordered[k] = list[pos[k]]
           /\ k <= n => specificity(list[pos[k]]) = 2
           /\ n < k => specificity(list[pos[k]]) = 1
      /\ \A k, l \in 1 .. Len(ordered) :
           k < l /\ (l <= n \/ n < k) => pos[k] < pos[l]
      /\ \A i \in DOMAIN list : specificity(list[i]) > 0 =>
           \E k \in 1 .. Len(ordered) : pos[k] = i
  BY <1>4 DEF Sorts
<1>6. /\ Len(ordered) \in Nat /\ DOMAIN ordered = 1 .. Len(ordered)
      /\ \A i \in DOMAIN list : i \in Nat
  BY <1>3
<1>7. \A k \in 1 .. Len(ordered) : pos[k] \in DOMAIN list /\ pos[k] \in Nat
  BY <1>5, <1>6
<1>8. \A k \in K : /\ k \in 1 .. Len(ordered) /\ k \in Nat
                   /\ specificity(list[pos[k]]) \in {1, 2}
                   /\ pos[k] \in M
  <2> SUFFICES ASSUME NEW k \in K
               PROVE  /\ k \in 1 .. Len(ordered) /\ k \in Nat
                      /\ specificity(list[pos[k]]) \in {1, 2}
                      /\ pos[k] \in M
    OBVIOUS
  <2>1. k \in 1 .. Len(ordered) /\ rule_matches(ordered[k], req)
    BY <1>6
  <2>2. specificity(list[pos[k]]) \in {1, 2}
    BY <1>5, <2>1
  <2> QED BY <1>5, <1>7, <2>1, <2>2 DEF Applies
<1>9. \A i \in M : \E k \in K : pos[k] = i
  <2> SUFFICES ASSUME NEW i \in M PROVE \E k \in K : pos[k] = i
    OBVIOUS
  <2>1. PICK k \in 1 .. Len(ordered) : pos[k] = i
    BY <1>5 DEF Applies
  <2>2. rule_matches(ordered[k], req)
    BY <1>5, <2>1 DEF Applies
  <2> QED BY <1>6, <2>1, <2>2
<1>10. K \in SUBSET DOMAIN ordered
  OBVIOUS
<1> HIDE DEF K, M
<1>11. CASE M = {}
  <2>1. K = {}
    BY <1>8, <1>11
  <2>2. Keep(ordered, K) = <<>>
    BY <1>3, <1>10, <2>1, KeepHead
  <2> QED BY <1>2, <1>11, <2>2 DEF M
<1>12. CASE M # {}
  <2>1. K # {}
    BY <1>9, <1>12
  <2>2. /\ Keep(ordered, K) # <<>>
        /\ \E k \in K : /\ \A l \in K : k <= l
                        /\ Head(Keep(ordered, K)) = ordered[k]
    BY <1>3, <1>10, <2>1, KeepHead
  <2>3. PICK k \in K : /\ \A l \in K : k <= l
                       /\ Head(Keep(ordered, K)) = ordered[k]
    BY <2>2
  <2>4. ASSUME NEW j \in M
        PROVE  \/ specificity(list[pos[k]]) > specificity(list[j])
               \/ /\ specificity(list[pos[k]]) = specificity(list[j])
                  /\ pos[k] <= j
    <3>1. PICK l \in K : pos[l] = j
      BY <1>9
    <3>2. k \in Nat /\ l \in Nat /\ n \in Nat /\ k <= l
      BY <1>5, <1>6, <1>8, <2>3
    <3>3. k \in 1 .. Len(ordered) /\ l \in 1 .. Len(ordered)
      BY <1>8
    <3>4. pos[k] \in Nat /\ pos[l] \in Nat
      BY <1>7, <3>3
    <3>5. CASE k <= n /\ n < l
      BY <1>5, <3>1, <3>3, <3>5
    <3>6. CASE l <= n \/ n < k
      <4>1. k < l => pos[k] < pos[l]
        BY <1>5, <3>3, <3>6
      <4>2. pos[k] <= pos[l]
        BY <3>2, <3>4, <4>1
      <4>3. specificity(list[pos[k]]) = specificity(list[pos[l]])
        BY <1>5, <3>2, <3>3, <3>6
      <4> QED BY <3>1, <4>2, <4>3
    <3> QED BY <3>2, <3>5, <3>6
  <2>5. Best(list, M, pos[k])
    BY <1>8, <2>4 DEF Best
  <2>6. ordered[k] = list[pos[k]]
    BY <1>5, <1>8
  <2> QED BY <1>2, <1>12, <2>2, <2>3, <2>5, <2>6 DEF M
<1> QED BY <1>11, <1>12 DEF M

(* The catch-alls of a list, the first of them and what it makes of them.    *)
CatchAlls(list) == {i \in DOMAIN list : is_catch_all(list[i])}

First(S, i) == i \in S /\ \A j \in S : i <= j

(* What decides: the most specific rule that applies, else the profile, else *)
(* the first catch-all, else nothing does.                                   *)
LEMMA Evaluated ==
  ASSUME NEW R, NEW list \in Seq(R), NEW req, NEW profile
  PROVE  LET M == Applies(list, req)
             C == CatchAlls(list)
             forbidden == Constraint(req, profile)
             decided == evaluate(req, profile, "normal", list)
         IN  /\ M # {} => \E i : Best(list, M, i) /\ decided = Matched(list[i])
             /\ M = {} /\ forbidden # {} =>
                  decided = deny(CHOOSE reason \in forbidden : TRUE)
             /\ M = {} /\ forbidden = {} /\ C # {} =>
                  \E i : First(C, i) /\ decided = Matched(list[i])
             /\ M = {} /\ forbidden = {} /\ C = {} =>
                  decided = [decision |-> "allow", matched_rule |-> "default.allow"]
<1> DEFINE M == Applies(list, req)
           C == CatchAlls(list)
           forbidden == Constraint(req, profile)
           decided == evaluate(req, profile, "normal", list)
           selective == Selected(list, req)
           fallback == catch_all_rules(list)
<1>1. decided = IF selective # <<>> THEN Matched(Head(selective))
                ELSE IF forbidden # {} THEN deny(CHOOSE reason \in forbidden : TRUE)
                ELSE IF fallback # <<>> THEN Matched(Head(fallback))
                ELSE [decision |-> "allow", matched_rule |-> "default.allow"]
  BY DEF evaluate, Selected
<1>2. /\ M = {} => selective = <<>>
      /\ M # {} => selective # <<>> /\ \E i : Best(list, M, i) /\ Head(selective) = list[i]
  BY SelectsBest
<1>3. C \in SUBSET DOMAIN list /\ fallback = Keep(list, C)
  BY DEF CatchAlls, catch_all_rules
<1>4. /\ C = {} => fallback = <<>>
      /\ C # {} => fallback # <<>> /\ \E i \in C : /\ \A j \in C : i <= j
                                                   /\ Head(fallback) = list[i]
  <2> HIDE DEF C, fallback
  <2> QED BY <1>3, KeepHead
<1> HIDE DEF M, C, forbidden, decided, selective, fallback
<1>5. M # {} => \E i : Best(list, M, i) /\ decided = Matched(list[i])
  BY <1>1, <1>2
<1>6. M = {} /\ forbidden # {} => decided = deny(CHOOSE reason \in forbidden : TRUE)
  BY <1>1, <1>2
<1>7. M = {} /\ forbidden = {} /\ C # {} =>
        \E i : First(C, i) /\ decided = Matched(list[i])
  BY <1>1, <1>2, <1>4 DEF First
<1>8. M = {} /\ forbidden = {} /\ C = {} =>
        decided = [decision |-> "allow", matched_rule |-> "default.allow"]
  BY <1>1, <1>2, <1>4
<1> QED BY <1>5, <1>6, <1>7, <1>8 DEF M, C, forbidden, decided

LEMMA OneBest ==
  ASSUME NEW R, NEW list \in Seq(R), NEW M \in SUBSET DOMAIN list,
         NEW i, Best(list, M, i), NEW j, Best(list, M, j)
  PROVE  i = j
<1>1. i \in Nat /\ j \in Nat
  BY DEF Best
<1>2. /\ specificity(list[i]) \in 0 .. 2
      /\ specificity(list[j]) \in 0 .. 2
  BY Specificities
<1> QED BY <1>1, <1>2 DEF Best

LEMMA OneFirst ==
  ASSUME NEW R, NEW list \in Seq(R), NEW C \in SUBSET DOMAIN list,
         NEW i, First(C, i), NEW j, First(C, j)
  PROVE  i = j
<1>1. i \in Nat /\ j \in Nat /\ i <= j /\ j <= i
  BY DEF First
<1> QED BY <1>1

(* The most specific rule that applies decides; with a catch-all that denies *)
(* first, what is allowed is allowed by name.                                *)
LEMMA Decides ==
  ASSUME NEW R, NEW list \in Seq(R), NEW req, NEW profile
  PROVE  LET decided == evaluate(req, profile, "normal", list)
         IN  /\ \A i : Best(list, Applies(list, req), i) =>
                         decided.matched_rule = list[i].id
             /\ \A i : First(CatchAlls(list), i) /\ list[i].effect = "deny"
                         /\ decided.decision = "allow" =>
                  \E j \in Applies(list, req) : list[j].effect = "allow"
<1> DEFINE M == Applies(list, req)
           C == CatchAlls(list)
           decided == evaluate(req, profile, "normal", list)
<1>1. /\ M # {} => \E i : Best(list, M, i) /\ decided = Matched(list[i])
      /\ M = {} => \/ decided.decision = "deny"
                   \/ \E i : First(C, i) /\ decided = Matched(list[i])
                   \/ C = {}
  BY Evaluated DEF deny
<1>2. M \in SUBSET DOMAIN list /\ C \in SUBSET DOMAIN list
  BY DEF Applies, CatchAlls
<1>3. \A i, j : Best(list, M, i) /\ Best(list, M, j) => i = j
  BY <1>2, OneBest
<1>4. \A i, j : First(C, i) /\ First(C, j) => i = j
  BY <1>2, OneFirst
<1> HIDE DEF M, C, decided
<1>5. \A i : Best(list, M, i) => decided.matched_rule = list[i].id
  BY <1>1, <1>3 DEF Best, Matched
<1>6. ASSUME NEW i, First(C, i), list[i].effect = "deny", decided.decision = "allow"
      PROVE  \E j \in M : list[j].effect = "allow"
  <2>1. M # {}
    BY <1>1, <1>4, <1>6 DEF First, Matched
  <2> QED BY <1>1, <1>6, <2>1 DEF Best, Matched
<1> QED BY <1>5, <1>6 DEF M, C, decided

(* Policy's words for the same.                                              *)
LEMMA Selectives ==
  ASSUME NEW R, NEW list \in Seq(R), NEW req
  PROVE  /\ {i \in Selective(list) : rule_matches(list[i], req)}
              = Applies(list, req)
         /\ DOMAIN list \ Selective(list) = CatchAlls(list)
<1>1. \A i \in DOMAIN list : /\ i \in Selective(list) <=> ~is_catch_all(list[i])
                             /\ ~is_catch_all(list[i]) <=> specificity(list[i]) > 0
  BY Specificities DEF Selective, is_catch_all
<1>2. Selective(list) \subseteq DOMAIN list
  BY DEF Selective
<1> QED BY <1>1, <1>2 DEF Applies, CatchAlls

LEMMA ListDecides ==
  ASSUME NEW list \in Seq(Rules)
  PROVE  BySpecificity(list) /\ Closed(list)
<1>1. ASSUME NEW req \in Request, NEW profile \in Profile
      PROVE  LET M == {i \in Selective(list) : rule_matches(list[i], req)}
                 decided == evaluate(req, profile, "normal", list)
             IN  /\ \A i \in M :
                      (\A j \in M :
                         \/ specificity(list[i]) > specificity(list[j])
                         \/ specificity(list[i]) = specificity(list[j]) /\ i <= j)
                      => decided.matched_rule = list[i].id
                 /\ \A i \in DOMAIN list \ Selective(list) :
                      /\ list[i].effect = "deny"
                      /\ \A j \in DOMAIN list \ Selective(list) : i <= j
                      /\ decided.decision = "allow"
                      => \E j \in M : list[j].effect = "allow"
  BY Decides, Selectives DEF Best, First
<1>2. BySpecificity(list)
  BY <1>1 DEF BySpecificity
<1>3. Closed(list)
  BY <1>1 DEF Closed
<1> QED BY <1>2, <1>3

-----------------------------------------------------------------------------
(* What the operations make of a list *)

LEMMA WithoutIds ==
  ASSUME NEW R, NEW list \in Seq(R), NEW ids
  PROVE  /\ Without(list, ids) \in Seq(R)
         /\ Ids(Without(list, ids)) = Ids(list) \ ids
<1> DEFINE S == {i \in DOMAIN list : list[i].id \notin ids}
           kept == Keep(list, S)
<1>1. S \in SUBSET DOMAIN list /\ Without(list, ids) = kept
  BY DEF Without
<1>2. \A i \in S : i \in DOMAIN list /\ list[i].id \notin ids
  OBVIOUS
<1>3. \A i \in DOMAIN list : list[i].id \notin ids => i \in S
  OBVIOUS
<1> HIDE DEF S
<1>4. /\ kept \in Seq(R) /\ DOMAIN kept = 1 .. Cardinality(S)
      /\ \E pos : /\ Enumerates(pos, S)
                  /\ \A k \in 1 .. Cardinality(S) : kept[k] = list[pos[k]]
  BY <1>1, KeepFacts
<1> HIDE DEF kept
<1>5. PICK pos : /\ Enumerates(pos, S)
                 /\ \A k \in 1 .. Cardinality(S) : kept[k] = list[pos[k]]
  BY <1>4
<1>6. Ids(kept) \subseteq Ids(list) \ ids
  BY <1>2, <1>4, <1>5 DEF Enumerates, Ids
<1>7. ASSUME NEW i \in DOMAIN list, list[i].id \notin ids
      PROVE  list[i].id \in Ids(kept)
  BY <1>3, <1>4, <1>5, <1>7 DEF Enumerates, Ids
<1> QED BY <1>1, <1>4, <1>6, <1>7 DEF Ids

LEMMA UpsertedIds ==
  ASSUME NEW R, NEW list \in Seq(R), NEW rule \in R
  PROVE  /\ Upserted(list, rule) \in Seq(R)
         /\ Ids(Upserted(list, rule)) = Ids(list) \cup {rule.id}
<1> DEFINE rest == Without(list, {rule.id})
<1>1. rest \in Seq(R) /\ Ids(rest) = Ids(list) \ {rule.id}
  BY WithoutIds
<1>2. Upserted(list, rule) = Append(rest, rule)
  BY DEF Upserted
<1> HIDE DEF rest
<1>3. /\ Append(rest, rule) \in Seq(R)
      /\ DOMAIN Append(rest, rule) = DOMAIN rest \cup {Len(rest) + 1}
      /\ Append(rest, rule)[Len(rest) + 1] = rule
      /\ \A i \in DOMAIN rest : Append(rest, rule)[i] = rest[i]
  BY <1>1
<1>4. Ids(Append(rest, rule)) = Ids(rest) \cup {rule.id}
  BY <1>3 DEF Ids
<1> QED BY <1>1, <1>2, <1>3, <1>4

(* A sequence that is one and then another.                                  *)
Concatenates(both, s, t) ==
  /\ Len(both) = Len(s) + Len(t)
  /\ \A i \in 1 .. Len(s) : both[i] = s[i]
  /\ \A i \in 1 .. Len(t) : both[Len(s) + i] = t[i]

LEMMA Concatenated ==
  ASSUME NEW R, NEW s \in Seq(R), NEW t \in Seq(R)
  PROVE  s \o t \in Seq(R) /\ Concatenates(s \o t, s, t)
<1>1. /\ s \o t \in Seq(R) /\ Len(s \o t) = Len(s) + Len(t)
      /\ \A i \in 1 .. Len(s) + Len(t) :
           (s \o t)[i] = IF i <= Len(s) THEN s[i] ELSE t[i - Len(s)]
  BY ConcatProperties, Zenon
<1>2. Len(s) \in Nat /\ Len(t) \in Nat
  OBVIOUS
<1>3. ASSUME NEW i \in 1 .. Len(s) PROVE (s \o t)[i] = s[i]
  BY <1>1, <1>2
<1>4. ASSUME NEW i \in 1 .. Len(t) PROVE (s \o t)[Len(s) + i] = t[i]
  <2>1. /\ Len(s) + i \in 1 .. Len(s) + Len(t) /\ ~(Len(s) + i <= Len(s))
        /\ (Len(s) + i) - Len(s) = i
    BY <1>2
  <2> QED BY <1>1, <2>1
<1> QED BY <1>1, <1>3, <1>4 DEF Concatenates

(* The upgrade keeps every rule in its order and adds none that is not       *)
(* required and missing.                                                     *)
LEMMA UpgradeRestores ==
  ASSUME NEW R, SeedRules \in Seq(R), NEW list \in Seq(R)
  PROVE  LET upgraded == Upgraded(list)
         IN  /\ upgraded \in Seq(R)
             /\ \E to \in [DOMAIN list -> DOMAIN upgraded] :
                  /\ \A i \in DOMAIN list : upgraded[to[i]] = list[i]
                  /\ \A i, j \in DOMAIN list : i < j => to[i] < to[j]
                  /\ \A k \in DOMAIN upgraded :
                       \/ \E i \in DOMAIN list : to[i] = k
                       \/ upgraded[k].id \in Required \ Ids(list)
<1> DEFINE S == {i \in DOMAIN SeedRules : SeedRules[i].id \in Required \ Ids(list)}
           missing == Keep(SeedRules, S)
           m == Len(missing)
           C == CatchAlls(list)
           upgraded == Upgraded(list)
<1>1. /\ missing \in Seq(R) /\ m \in Nat
      /\ \A k \in 1 .. m : missing[k].id \in Required \ Ids(list)
  <2>1. S \in SUBSET DOMAIN SeedRules
        /\ \A i \in S : SeedRules[i].id \in Required \ Ids(list)
    OBVIOUS
  <2> HIDE DEF S
  <2>2. /\ missing \in Seq(R) /\ m = Cardinality(S) /\ m \in Nat
        /\ \E pos : /\ Enumerates(pos, S)
                    /\ \A k \in 1 .. Cardinality(S) : missing[k] = SeedRules[pos[k]]
    BY <2>1, KeepFacts
  <2> QED BY <2>1, <2>2 DEF Enumerates
<1>2. PICK at \in 0 .. Len(list) :
        upgraded = SubSeq(list, 1, at) \o missing \o SubSeq(list, at + 1, Len(list))
  <2> DEFINE place == IF C = {} THEN Len(list)
                      ELSE (CHOOSE i \in C : \A j \in C : i <= j) - 1
  <2>1. upgraded = SubSeq(list, 1, place) \o missing \o SubSeq(list, place + 1, Len(list))
    BY DEF Upgraded, CatchAlls
  <2>2. C # {} => \E i \in C : \A j \in C : i <= j
    <3>1. C \in SUBSET Nat /\ C \subseteq DOMAIN list /\ IsFiniteSet(DOMAIN list)
      BY FS_Interval DEF CatchAlls
    <3> HIDE DEF C
    <3> QED BY <3>1, FS_Subset, FirstPosition
  <2>3. C # {} => (CHOOSE i \in C : \A j \in C : i <= j) \in 1 .. Len(list)
    BY <2>2 DEF CatchAlls
  <2>4. place \in 0 .. Len(list)
    BY <2>3
  <2> QED BY <2>1, <2>4
<1> HIDE DEF missing, upgraded
<1> DEFINE before == SubSeq(list, 1, at)
           behind == SubSeq(list, at + 1, Len(list))
<1>3. /\ at \in Nat /\ Len(list) \in Nat /\ Len(list) - at \in Nat
      /\ before \in Seq(R) /\ Len(before) = at
      /\ \A i \in 1 .. at : before[i] = list[i]
  OBVIOUS
<1>4. /\ behind \in Seq(R) /\ Len(behind) = Len(list) - at
      /\ \A i \in 1 .. (Len(list) - at) : behind[i] = list[at + i]
  OBVIOUS
<1>5. upgraded = before \o missing \o behind
  BY <1>2
<1> HIDE DEF before, behind, m
<1> DEFINE front == before \o missing
<1>6. /\ front \in Seq(R) /\ Len(front) = at + m
      /\ \A i \in 1 .. at : front[i] = list[i]
      /\ \A i \in 1 .. m : front[at + i] = missing[i]
  <2>1. front \in Seq(R) /\ Concatenates(front, before, missing)
    BY <1>1, <1>3, Concatenated
  <2> QED BY <1>3, <2>1 DEF Concatenates, m
<1>7. upgraded = front \o behind
  BY <1>5
<1> HIDE DEF front
<1>8. /\ upgraded \in Seq(R) /\ Len(upgraded) = Len(list) + m
      /\ \A i \in 1 .. (at + m) : upgraded[i] = front[i]
      /\ \A i \in 1 .. (Len(list) - at) : upgraded[(at + m) + i] = behind[i]
  <2>1. upgraded \in Seq(R) /\ Concatenates(upgraded, front, behind)
    BY <1>4, <1>6, <1>7, Concatenated
  <2>2. (at + m) + (Len(list) - at) = Len(list) + m
    BY <1>1, <1>3 DEF m
  <2> QED BY <1>4, <1>6, <2>1, <2>2 DEF Concatenates
<1>9. PICK to : /\ to = [i \in 1 .. Len(list) |-> to[i]]
                /\ \A i \in 1 .. Len(list) : to[i] = IF i <= at THEN i ELSE i + m
  <2> DEFINE f == [i \in 1 .. Len(list) |-> IF i <= at THEN i ELSE i + m]
  <2>1. /\ f = [i \in 1 .. Len(list) |-> f[i]]
        /\ \A i \in 1 .. Len(list) : f[i] = IF i <= at THEN i ELSE i + m
    OBVIOUS
  <2> QED BY <2>1
<1>10. ASSUME NEW i \in 1 .. Len(list)
       PROVE  to[i] \in 1 .. Len(upgraded) /\ upgraded[to[i]] = list[i]
  <2>1. CASE i <= at
    <3>1. i \in 1 .. at /\ i \in 1 .. (at + m) /\ to[i] = i
      BY <1>1, <1>3, <1>9, <2>1
    <3> QED BY <1>1, <1>3, <1>6, <1>8, <3>1
  <2>2. CASE at < i
    <3>1. /\ i - at \in 1 .. (Len(list) - at) /\ at + (i - at) = i
          /\ to[i] = (at + m) + (i - at)
      BY <1>1, <1>3, <1>9, <2>2
    <3>2. to[i] \in 1 .. Len(upgraded)
      BY <1>1, <1>3, <1>8, <3>1
    <3> QED BY <1>4, <1>8, <3>1, <3>2
  <2> QED BY <1>3, <2>1, <2>2
<1>11. \A i, j \in 1 .. Len(list) : i < j => to[i] < to[j]
  BY <1>1, <1>3, <1>9
<1>12. ASSUME NEW k \in 1 .. Len(upgraded)
       PROVE  \/ \E i \in 1 .. Len(list) : to[i] = k
              \/ upgraded[k].id \in Required \ Ids(list)
  <2>0. k \in 1 .. (Len(list) + m)
    BY <1>8
  <2>1. CASE k <= at
    <3>1. k \in 1 .. Len(list) /\ to[k] = k
      BY <1>3, <1>9, <2>0, <2>1
    <3> QED BY <3>1
  <2>2. CASE at < k /\ k <= at + m
    <3>1. k - at \in 1 .. m /\ at + (k - at) = k /\ k \in 1 .. (at + m)
      BY <1>1, <1>3, <2>0, <2>2
    <3>2. upgraded[k] = missing[k - at]
      BY <1>6, <1>8, <3>1
    <3> QED BY <1>1, <3>1, <3>2
  <2>3. CASE at + m < k
    <3>1. k - m \in 1 .. Len(list) /\ to[k - m] = k
      BY <1>1, <1>3, <1>9, <2>0, <2>3
    <3> QED BY <3>1
  <2> QED BY <1>1, <1>3, <2>0, <2>1, <2>2, <2>3
<1>13. to \in [1 .. Len(list) -> 1 .. Len(upgraded)]
  BY <1>9, <1>10
<1>14. DOMAIN list = 1 .. Len(list) /\ DOMAIN upgraded = 1 .. Len(upgraded)
  BY <1>8
<1>15. /\ to \in [DOMAIN list -> DOMAIN upgraded]
       /\ \A i \in DOMAIN list : upgraded[to[i]] = list[i]
       /\ \A i, j \in DOMAIN list : i < j => to[i] < to[j]
  BY <1>10, <1>11, <1>13, <1>14
<1>16. \A k \in DOMAIN upgraded :
         \/ \E i \in DOMAIN list : to[i] = k
         \/ upgraded[k].id \in Required \ Ids(list)
  BY <1>12, <1>14
<1> QED
  BY <1>8, <1>15, <1>16, Zenon DEF upgraded

(* So a decision that the upgrade changes is one of a rule it restores.      *)
LEMMA UpgradeDecides ==
  ASSUME NEW R, SeedRules \in Seq(R), NEW list \in Seq(R), NEW req, NEW profile
  PROVE  LET before == evaluate(req, profile, "normal", list)
             after  == evaluate(req, profile, "normal", Upgraded(list))
         IN  after # before => after.matched_rule \in Required \ Ids(list)
<1> DEFINE before == evaluate(req, profile, "normal", list)
           upgraded == Upgraded(list)
           after == evaluate(req, profile, "normal", upgraded)
           M == Applies(list, req)
           C == CatchAlls(list)
           MU == Applies(upgraded, req)
           CU == CatchAlls(upgraded)
           forbidden == Constraint(req, profile)
           Restored(k) == upgraded[k].id \in Required \ Ids(list)
<1> SUFFICES after # before => after.matched_rule \in Required \ Ids(list)
  OBVIOUS
<1>1. upgraded \in Seq(R)
  BY UpgradeRestores
<1>2. PICK to \in [DOMAIN list -> DOMAIN upgraded] :
        /\ \A i \in DOMAIN list : upgraded[to[i]] = list[i]
        /\ \A i, j \in DOMAIN list : i < j => to[i] < to[j]
        /\ \A k \in DOMAIN upgraded : (\E i \in DOMAIN list : to[i] = k) \/ Restored(k)
  BY UpgradeRestores
<1> HIDE DEF upgraded, Restored
<1>3. /\ M \in SUBSET DOMAIN list /\ MU \in SUBSET DOMAIN upgraded
      /\ C \in SUBSET DOMAIN list /\ CU \in SUBSET DOMAIN upgraded
  BY DEF Applies, CatchAlls
<1>4. \A i \in DOMAIN list : (i \in M <=> to[i] \in MU) /\ (i \in C <=> to[i] \in CU)
  BY <1>2 DEF Applies, CatchAlls
<1>5. ASSUME NEW i \in DOMAIN list, NEW j \in DOMAIN list, to[i] <= to[j] PROVE i <= j
  <2>1. i \in Nat /\ j \in Nat /\ to[i] \in Nat /\ to[j] \in Nat
    BY <1>1, <1>2
  <2>2. ~(j < i)
    BY <1>2, <1>5, <2>1
  <2> QED BY <2>1, <2>2
<1>6. /\ M # {} => \E i : Best(list, M, i) /\ before = Matched(list[i])
      /\ M = {} /\ forbidden # {} =>
           before = deny(CHOOSE reason \in forbidden : TRUE)
      /\ M = {} /\ forbidden = {} /\ C # {} =>
           \E i : First(C, i) /\ before = Matched(list[i])
      /\ M = {} /\ forbidden = {} /\ C = {} =>
           before = [decision |-> "allow", matched_rule |-> "default.allow"]
  BY Evaluated
<1>7. /\ MU # {} => \E k : Best(upgraded, MU, k) /\ after = Matched(upgraded[k])
      /\ MU = {} /\ forbidden # {} =>
           after = deny(CHOOSE reason \in forbidden : TRUE)
      /\ MU = {} /\ forbidden = {} /\ CU # {} =>
           \E k : First(CU, k) /\ after = Matched(upgraded[k])
      /\ MU = {} /\ forbidden = {} /\ CU = {} =>
           after = [decision |-> "allow", matched_rule |-> "default.allow"]
  BY <1>1, Evaluated
<1> HIDE DEF before, after, M, C, MU, CU, forbidden
<1>8. CASE MU # {}
  <2>1. PICK k : Best(upgraded, MU, k) /\ after = Matched(upgraded[k])
    BY <1>7, <1>8
  <2>2. CASE Restored(k)
    BY <2>1, <2>2 DEF Restored, Matched
  <2>3. CASE \E i \in DOMAIN list : to[i] = k
    <3>1. PICK i \in DOMAIN list : to[i] = k
      BY <2>3
    <3>2. i \in M /\ after = Matched(list[i])
      BY <1>2, <1>4, <2>1, <3>1 DEF Best
    <3>3. ASSUME NEW j \in M
          PROVE  \/ specificity(list[i]) > specificity(list[j])
                 \/ /\ specificity(list[i]) = specificity(list[j])
                    /\ i <= j
      <4>1. j \in DOMAIN list /\ to[j] \in MU
        BY <1>3, <1>4
      <4>2. upgraded[to[i]] = list[i] /\ upgraded[to[j]] = list[j]
        BY <1>2, <4>1
      <4> QED BY <1>5, <2>1, <3>1, <4>1, <4>2 DEF Best
    <3>4. Best(list, M, i)
      BY <3>2, <3>3 DEF Best
    <3>5. PICK j : Best(list, M, j) /\ before = Matched(list[j])
      BY <1>6, <3>2
    <3>6. i = j
      BY <1>3, <3>4, <3>5, OneBest
    <3> QED BY <3>2, <3>5, <3>6
  <2> QED BY <1>2, <1>3, <2>1, <2>2, <2>3 DEF Best
<1>9. CASE MU = {} /\ forbidden # {}
  <2>1. M = {}
    BY <1>3, <1>4, <1>9
  <2> QED BY <1>6, <1>7, <1>9, <2>1
<1>10. CASE MU = {} /\ forbidden = {}
  <2>1. M = {}
    BY <1>3, <1>4, <1>10
  <2>2. CASE CU = {}
    <3>1. C = {}
      BY <1>3, <1>4, <2>2
    <3> QED BY <1>6, <1>7, <1>10, <2>1, <2>2, <3>1
  <2>3. CASE CU # {}
    <3>1. PICK k : First(CU, k) /\ after = Matched(upgraded[k])
      BY <1>7, <1>10, <2>3
    <3>2. CASE Restored(k)
      BY <3>1, <3>2 DEF Restored, Matched
    <3>3. CASE \E i \in DOMAIN list : to[i] = k
      <4>1. PICK i \in DOMAIN list : to[i] = k
        BY <3>3
      <4>2. i \in C /\ after = Matched(list[i])
        BY <1>2, <1>4, <3>1, <4>1 DEF First
      <4>3. First(C, i)
        BY <1>3, <1>4, <1>5, <3>1, <4>1, <4>2 DEF First
      <4>4. PICK j : First(C, j) /\ before = Matched(list[j])
        BY <1>6, <1>10, <2>1, <4>2
      <4>5. i = j
        BY <1>3, <4>3, <4>4, OneFirst
      <4> QED BY <4>2, <4>4, <4>5
    <3> QED BY <1>2, <1>3, <3>1, <3>2, <3>3 DEF First
  <2> QED BY <2>2, <2>3
<1> QED BY <1>8, <1>9, <1>10

-----------------------------------------------------------------------------
(* The rules stay rules *)

LEMMA Constants ==
  /\ Rule \subseteq Rules
  /\ SeedRules \in Seq(Rules)
  /\ \A list \in LegacyRules : list \in Seq(Rules)
  /\ <<>> \in Seq(Rules)
BY PolicyAssumption

Listing == rules \in Seq(Rules)

LEMMA ListedInPolicy == RulesSpec => []Listing
<1>1. RulesInit => Listing
  BY Constants DEF RulesInit, Listing
<1>2. Listing /\ [RulesNext]_rules_vars => Listing'
  <2> SUFFICES ASSUME rules \in Seq(Rules), [RulesNext]_rules_vars
               PROVE  rules' \in Seq(Rules)
    BY DEF Listing
  <2>1. CASE Boot
    BY <2>1, Constants, UpgradeRestores DEF Boot
  <2>2. CASE \E rule \in Rule : Upsert(rule)
    <3>1. PICK rule \in Rules : rules' = Upserted(rules, rule)
      BY <2>2, Constants DEF Upsert
    <3> QED BY <3>1, UpsertedIds
  <2>3. CASE \E id \in Named(rules) : Delete(id)
    <3>1. PICK id : rules' = Without(rules, {id})
      BY <2>3 DEF Delete, Deleted
    <3> QED BY <3>1, WithoutIds
  <2>4. CASE UNCHANGED rules_vars
    BY <2>4 DEF rules_vars
  <2> QED BY <2>1, <2>2, <2>3, <2>4 DEF RulesNext
<1> QED BY <1>1, <1>2, PTL DEF RulesSpec

(* The rules a client of the store reads.                                    *)
Listed == IF json.state = "absent" THEN SeedRules ELSE json.rules

(* In the store, what a client will write is a list of rules as well.        *)
FilesHoldRules ==
  /\ json.rules \in Seq(Rules) /\ tmp.rules \in Seq(Rules)
  /\ \A c \in Client : client[c].list \in Seq(Rules)

LEMMA TurnedLists ==
  ASSUME FilesHoldRules, Shaped, NEW c \in Client,
         \/ Seed(c) \/ Ensure(c) \/ ReplaceRaises(c) \/ Stop(c)
         \/ \E rule \in Rule : AskUpsert(c, rule)
         \/ \E id \in Named(json.rules) : AskDelete(c, id)
  PROVE  client'[c].list \in Seq(Rules)
<1>0. /\ json.rules \in Seq(Rules) /\ DOMAIN client = Client
      /\ Stopped.list = <<>> /\ Serving.list = <<>>
      /\ <<>> \in Seq(Rules)
  BY DEF FilesHoldRules, Shaped, Stopped, Serving
<1>1. CASE Seed(c)
  BY <1>0, <1>1, Constants, RecordShapes DEF Seed
<1>2. CASE Ensure(c)
  <2> DEFINE upgraded == Upgraded(json.rules)
  <2>1. client'[c] \in {Stopped, Serving, Doing("ensure", "none", upgraded)}
    BY <1>0, <1>2 DEF Ensure
  <2>2. upgraded \in Seq(Rules)
    BY <1>0, Constants, UpgradeRestores
  <2>3. Doing("ensure", "none", upgraded).list = upgraded
    BY RecordShapes
  <2> HIDE DEF upgraded
  <2> QED BY <1>0, <2>1, <2>2, <2>3
<1>3. CASE ReplaceRaises(c) \/ Stop(c)
  <2>1. client'[c] \in {Stopped, Serving}
    BY <1>0, <1>3 DEF ReplaceRaises, Stop
  <2> QED BY <1>0, <2>1
<1>4. CASE \E rule \in Rule : AskUpsert(c, rule)
  <2>1. PICK rule \in Rule : AskUpsert(c, rule)
    BY <1>4
  <2>2. client'[c] = Doing("upsert", rule.id, Upserted(json.rules, rule))
    BY <1>0, <2>1 DEF AskUpsert
  <2>3. Upserted(json.rules, rule) \in Seq(Rules)
    BY <1>0, Constants, UpsertedIds
  <2> QED BY <2>2, <2>3, RecordShapes
<1>5. CASE \E id \in Named(json.rules) : AskDelete(c, id)
  <2>1. PICK id : AskDelete(c, id)
    BY <1>5
  <2>2. client'[c] = Doing("delete", id, Deleted(json.rules, id))
    BY <1>0, <2>1 DEF AskDelete
  <2>3. Deleted(json.rules, id) \in Seq(Rules)
    BY <1>0, WithoutIds DEF Deleted
  <2> QED BY <2>2, <2>3, RecordShapes
<1> QED BY <1>1, <1>2, <1>3, <1>4, <1>5

LEMMA FilesStay ==
  ASSUME Typed, FilesHoldRules, [Next]_vars
  PROVE  FilesHoldRules'
<1>0. Shaped
  BY DEF Typed
<1>1. ASSUME NEW c \in Client,
             \/ Seed(c) \/ Ensure(c) \/ ReplaceRaises(c) \/ Stop(c)
             \/ \E rule \in Rule : AskUpsert(c, rule)
             \/ \E id \in Named(json.rules) : AskDelete(c, id)
      PROVE  FilesHoldRules'
  <2>1. client'[c].list \in Seq(Rules)
    BY <1>0, <1>1, TurnedLists
  <2>2. PICK x : Turned(c, x)
    BY <1>1, TurnedSteps
  <2>3. UNCHANGED <<json, tmp>> /\ \A d \in Client \ {c} : client'[d] = client[d]
    BY <1>0, <2>2, ClientSteps DEF Turned
  <2> QED BY <2>1, <2>3 DEF FilesHoldRules
<1>2. ASSUME NEW c \in Client, OpenTmp(c) PROVE FilesHoldRules'
  <2>1. UNCHANGED json /\ tmp' = Blank
    BY <1>2 DEF OpenTmp
  <2> QED BY <1>0, <1>2, <2>1, OpenTmpStep DEF FilesHoldRules, Blank
<1>3. ASSUME NEW c \in Client, WriteTmp(c) PROVE FilesHoldRules'
  <2>1. ASSUME NEW list \in Seq(Rules), NEW over, NEW file \in Written(list, over)
        PROVE  file.rules \in Seq(Rules)
    <3>1. file \in {Whole(list), Garbled}
      BY <2>1 DEF Written
    <3>2. Whole(list).rules = list /\ Garbled.rules = <<>>
      BY DEF Whole, Garbled
    <3> QED BY <2>1, <3>1, <3>2, Constants
  <2>2. client[c].handle \in {"tmp", "json", "gone"}
    BY <1>0, <1>3 DEF Typed, TypeOK, Shaped, WriteTmp
  <2>3. json'.rules \in Seq(Rules) /\ tmp'.rules \in Seq(Rules)
    BY <1>3, <2>1, <2>2 DEF WriteTmp, FilesHoldRules
  <2> QED BY <1>0, <1>3, <2>3, WriteTmpStep DEF FilesHoldRules
<1>4. ASSUME NEW c \in Client, Replace(c) PROVE FilesHoldRules'
  <2>1. json' = tmp /\ tmp'.rules = <<>>
    BY <1>4 DEF Replace, Absent
  <2>2. /\ client'[c].list = <<>>
        /\ \A d \in Client \ {c} : client'[d].list = client[d].list
    BY <1>0, <1>4, ReplaceStep DEF Serving, Stopped
  <2> QED BY <2>1, <2>2, Constants DEF FilesHoldRules
<1>5. CASE UNCHANGED vars
  BY <1>5 DEF vars, FilesHoldRules
<1> QED BY <1>1, <1>2, <1>3, <1>4, <1>5 DEF Next, Step

LEMMA ListedInStore == Spec => [](FilesHoldRules /\ Listed \in Seq(Rules))
<1>1. Init => FilesHoldRules
  <2> SUFFICES ASSUME Init PROVE FilesHoldRules
    OBVIOUS
  <2>1. /\ Absent.rules = <<>> /\ Stopped.list = <<>>
        /\ \A list : Whole(list).rules = list
    BY DEF Absent, Stopped, Whole
  <2>2. json = Absent \/ \E list \in LegacyRules : json = Whole(list)
    BY DEF Init
  <2>3. json.rules \in Seq(Rules)
    <3>1. CASE json = Absent
      BY <2>1, <3>1, Constants
    <3>2. CASE \E list \in LegacyRules : json = Whole(list)
      BY <2>1, <3>2, Constants
    <3> QED BY <2>2, <3>1, <3>2
  <2>4. tmp.rules = <<>> /\ \A c \in Client : client[c].list = <<>>
    BY <2>1 DEF Init
  <2> QED BY <2>3, <2>4, Constants DEF FilesHoldRules
<1>2. FilesHoldRules => Listed \in Seq(Rules)
  BY Constants DEF FilesHoldRules, Listed
<1> QED BY <1>1, <1>2, FilesStay, Typing, PTL DEF Spec

-----------------------------------------------------------------------------
(* The properties of Policy *)

(* The most specific rule that applies decides, the first of those in the    *)
(* file, for any rules and any edits of them (policy.py:44-66); so it does   *)
(* with the rules any client reads, while others write them.                 *)
THEOREM MostSpecificDecides ==
  /\ RulesSpec => []SpecificityDecides
  /\ Spec => []BySpecificity(Listed)
<1>1. /\ Listing => SpecificityDecides
      /\ Listed \in Seq(Rules) => BySpecificity(Listed)
  BY ListDecides DEF Listing, SpecificityDecides
<1> QED BY <1>1, ListedInPolicy, ListedInStore, PTL

(* With a catch-all that denies first, what is allowed is allowed by name    *)
(* (docs/API.md:91-93); so it is by the rules any client reads.              *)
THEOREM DeniesByDefault ==
  /\ RulesSpec => []DenyByDefault
  /\ Spec => []Closed(Listed)
<1>1. /\ Listing => DenyByDefault
      /\ Listed \in Seq(Rules) => Closed(Listed)
  BY ListDecides DEF Listing, DenyByDefault
<1> QED BY <1>1, ListedInPolicy, ListedInStore, PTL

(* The upgrade at boot changes a decision only by a rule it restores         *)
(* (policies.py:73-96); so does the file that becomes the upgrade of itself. *)
THEOREM UpgradesRestore ==
  /\ RulesSpec => UpgradeOnlyRestores
  /\ Spec => [][Listed' = Upgraded(Listed) => OnlyRestored(Listed, Listed')]_vars
<1>1. ASSUME NEW list \in Seq(Rules) PROVE OnlyRestored(list, Upgraded(list))
  BY Constants, UpgradeDecides DEF OnlyRestored
<1>2. Listing => (rules' = Upgraded(rules) => OnlyRestored(rules, rules'))
  BY <1>1 DEF Listing
<1>3. Listed \in Seq(Rules) =>
        (Listed' = Upgraded(Listed) => OnlyRestored(Listed, Listed'))
  BY <1>1
<1>4. []Listing => UpgradeOnlyRestores
  BY <1>2, PTL DEF UpgradeOnlyRestores
<1> QED BY <1>3, <1>4, ListedInPolicy, ListedInStore, PTL

-----------------------------------------------------------------------------
(* An upsert that returned stands *)

(* UpsertsStand is not inductive: what is about to be renamed into place     *)
(* must not drop what stands, so who deletes a rule has taken it from those. *)
Standing ==
  "updates" \notin met =>
    /\ json.state = "whole" => standing \subseteq Ids(json.rules)
    /\ json.state = "absent" => standing = {}
    /\ \A c \in Client :
         client[c].at \in Updating /\ client[c].does = "delete" =>
           client[c].id \notin standing

LEMMA TurnedStands ==
  ASSUME Shaped, NEW c \in Client,
         \/ Seed(c) \/ Ensure(c) \/ ReplaceRaises(c) \/ Stop(c)
         \/ \E rule \in Rule : AskUpsert(c, rule)
         \/ \E id \in Named(json.rules) : AskDelete(c, id)
  PROVE  /\ standing' \subseteq standing
         /\ client'[c].does = "delete" => client'[c].id \notin standing'
<1>0. DOMAIN client = Client
  BY DEF Shaped
<1>1. CASE Seed(c)
  BY <1>0, <1>1, RecordShapes DEF Seed
<1>2. CASE Ensure(c)
  <2> DEFINE upgraded == Upgraded(json.rules)
  <2>1. /\ client'[c] \in {Stopped, Serving, Doing("ensure", "none", upgraded)}
        /\ UNCHANGED standing
    BY <1>0, <1>2 DEF Ensure
  <2> HIDE DEF upgraded
  <2>2. client'[c].does # "delete"
    BY <2>1, RecordShapes
  <2> QED BY <2>1, <2>2
<1>3. CASE ReplaceRaises(c) \/ Stop(c)
  <2>1. client'[c] \in {Stopped, Serving} /\ UNCHANGED standing
    BY <1>0, <1>3 DEF ReplaceRaises, Stop
  <2> QED BY <2>1, RecordShapes
<1>4. CASE \E rule \in Rule : AskUpsert(c, rule)
  <2>1. PICK rule \in Rule : AskUpsert(c, rule)
    BY <1>4
  <2> DEFINE list == Upserted(json.rules, rule)
  <2>2. client'[c] = Doing("upsert", rule.id, list) /\ UNCHANGED standing
    BY <1>0, <2>1 DEF AskUpsert
  <2> HIDE DEF list
  <2>3. client'[c].does # "delete"
    BY <2>2, RecordShapes
  <2> QED BY <2>2, <2>3
<1>5. CASE \E id \in Named(json.rules) : AskDelete(c, id)
  <2>1. PICK id : AskDelete(c, id)
    BY <1>5
  <2> DEFINE list == Deleted(json.rules, id)
  <2>2. client'[c] = Doing("delete", id, list) /\ standing' = standing \ {id}
    BY <1>0, <2>1 DEF AskDelete
  <2> HIDE DEF list
  <2>3. client'[c].id = id
    BY <2>2, RecordShapes
  <2> QED BY <2>2, <2>3
<1> QED BY <1>1, <1>2, <1>3, <1>4, <1>5

(* What an operation writes keeps what stands, and holds what it upserts.    *)
LEMMA PlannedKeeps ==
  ASSUME Standing, FilesHoldRules, "updates" \notin met, NEW c \in Client,
         client[c].at \in Updating, Planned(c)
  PROVE  /\ standing \subseteq Ids(client[c].list)
         /\ client[c].does = "upsert" => client[c].id \in Ids(client[c].list)
<1>0. json.rules \in Seq(Rules)
  BY DEF FilesHoldRules
<1>1. json.state = "whole" => standing \subseteq Ids(json.rules)
  BY DEF Standing
<1>2. CASE client[c].does = "seed"
  BY <1>2 DEF Planned, Standing, Absent
<1>3. CASE client[c].does = "ensure"
  <2> DEFINE upgraded == Upgraded(json.rules)
  <2>1. json.state = "whole" /\ client[c].list = upgraded
    BY <1>3 DEF Planned
  <2>2. \E to \in [DOMAIN json.rules -> DOMAIN upgraded] :
          \A i \in DOMAIN json.rules : upgraded[to[i]] = json.rules[i]
    BY <1>0, Constants, UpgradeRestores
  <2>3. PICK to \in [DOMAIN json.rules -> DOMAIN upgraded] :
          \A i \in DOMAIN json.rules : upgraded[to[i]] = json.rules[i]
    BY <2>2
  <2> HIDE DEF upgraded
  <2>4. ASSUME NEW i \in DOMAIN json.rules
        PROVE  to[i] \in DOMAIN upgraded /\ upgraded[to[i]].id = json.rules[i].id
    BY <2>3
  <2>5. Ids(json.rules) \subseteq Ids(upgraded)
    BY <2>4 DEF Ids
  <2> QED BY <1>1, <1>3, <2>1, <2>5
<1>4. CASE client[c].does = "upsert"
  <2>1. json.state = "whole"
    BY <1>4 DEF Planned
  <2>2. PICK rule \in Rule : /\ client[c].id = rule.id
                             /\ client[c].list = Upserted(json.rules, rule)
    BY <1>4 DEF Planned
  <2>3. Ids(client[c].list) = Ids(json.rules) \cup {rule.id}
    BY <1>0, <2>2, Constants, UpsertedIds
  <2> QED BY <1>1, <2>1, <2>2, <2>3
<1>5. CASE client[c].does = "delete"
  <2>1. /\ json.state = "whole"
        /\ client[c].list = Without(json.rules, {client[c].id})
    BY <1>5 DEF Planned, Deleted
  <2>2. Ids(client[c].list) = Ids(json.rules) \ {client[c].id}
    BY <1>0, <2>1, WithoutIds
  <2>3. client[c].id \notin standing
    BY <1>5 DEF Standing
  <2> QED BY <1>1, <1>5, <2>1, <2>2, <2>3
<1> QED BY <1>2, <1>3, <1>4, <1>5 DEF Planned

LEMMA StandingStays ==
  ASSUME Typed, Typed', Clean, Current, FilesHoldRules, Standing, [Next]_vars
  PROVE  Standing'
<1> SUFFICES ASSUME "updates" \notin met'
             PROVE  /\ json'.state = "whole" => standing' \subseteq Ids(json'.rules)
                    /\ json'.state = "absent" => standing' = {}
                    /\ \A c \in Client :
                         client'[c].at \in Updating /\ client'[c].does = "delete" =>
                           client'[c].id \notin standing'
  BY DEF Standing
<1>0. Shaped /\ Remembered /\ Remembered'
  BY DEF Typed
<1>1. ASSUME Noted PROVE "updates" \notin met
  BY <1>0, <1>1, NotedRemembers
<1>2. "updates" \notin met =>
        /\ json.state = "whole" => standing \subseteq Ids(json.rules)
        /\ json.state = "absent" => standing = {}
        /\ \A c \in Client : client[c].at \in Updating /\ client[c].does = "delete" =>
                               client[c].id \notin standing
  BY DEF Standing
<1>3. ASSUME NEW c \in Client,
             \/ Seed(c) \/ Ensure(c) \/ ReplaceRaises(c) \/ Stop(c)
             \/ \E rule \in Rule : AskUpsert(c, rule)
             \/ \E id \in Named(json.rules) : AskDelete(c, id)
      PROVE  Standing'
  <2>1. /\ standing' \subseteq standing
        /\ client'[c].does = "delete" => client'[c].id \notin standing'
    BY <1>0, <1>3, TurnedStands
  <2>2. PICK x : Turned(c, x)
    BY <1>3, TurnedSteps
  <2>3. /\ UNCHANGED json /\ Noted
        /\ \A d \in Client \ {c} : client'[d] = client[d]
    BY <1>0, <1>3, <2>2, TurnedSteps, ClientSteps DEF Turned
  <2> QED BY <1>1, <1>2, <2>1, <2>3 DEF Standing
<1>4. ASSUME NEW c \in Client, OpenTmp(c) PROVE Standing'
  <2>1. Noted /\ UNCHANGED <<json, standing>> /\ client[c].at \in Updating
    BY <1>4 DEF OpenTmp, Updating
  <2> QED BY <1>0, <1>1, <1>2, <1>4, <2>1, OpenTmpStep DEF Standing
<1>5. ASSUME NEW c \in Client, WriteTmp(c) PROVE Standing'
  <2>1. Noted /\ UNCHANGED standing /\ client[c].at \in Updating
    BY <1>5 DEF WriteTmp, Updating
  <2>2. UNCHANGED json
    BY <1>1, <1>5, <2>1, WriteTmpHidden
  <2> QED BY <1>0, <1>1, <1>2, <1>5, <2>1, <2>2, WriteTmpStep DEF Standing
<1>6. ASSUME NEW c \in Client, Replace(c) PROVE Standing'
  <2>1. /\ Noted /\ client[c].at = "replace" /\ client[c].at \in Updating /\ json' = tmp
        /\ standing' = IF client[c].does = "upsert" THEN standing \cup {client[c].id}
                       ELSE standing
    BY <1>6 DEF Replace, Updating
  <2>2. "updates" \notin met /\ "writes" \notin met
    BY <1>0, <1>1, <2>1 DEF Remembered
  <2>3. json' = Whole(client[c].list) /\ Planned(c)
    BY <2>1, <2>2 DEF Clean, Own, Current
  <2>4. json'.state = "whole" /\ json'.rules = client[c].list
    BY <2>3 DEF Whole
  <2>5. standing' \subseteq Ids(client[c].list)
    BY <2>1, <2>2, <2>3, PlannedKeeps
  <2>6. \A d \in Client : client'[d].at \in Updating => FALSE
    <3>1. client'[c].at \notin Updating
      BY <1>0, <1>6, ReplaceStep, RecordShapes DEF Updating
    <3>2. ASSUME NEW d \in Client \ {c} PROVE client'[d].at \notin Updating
      BY <1>0, <1>6, <2>1, <2>2, OneUpdates, ReplaceStep
    <3> QED BY <3>1, <3>2
  <2> QED BY <2>4, <2>5, <2>6 DEF Standing
<1>7. ASSUME UNCHANGED vars PROVE Standing'
  BY <1>7 DEF vars, Standing
<1>8. Standing'
  BY <1>3, <1>4, <1>5, <1>6, <1>7 DEF Next, Step
<1> QED BY <1>8 DEF Standing

(* Whatever stops, an upsert that returned is listed until its deletion is   *)
(* asked for, unless two updates overlapped (policies.py:101-106).           *)
THEOREM UpsertsLast == Spec => []StandsUnlessUpdatesMeet
<1>1. Init => Clean /\ Current /\ Standing
  BY RecordShapes
  DEF Init, Clean, Current, Standing, FileReadable, Own, Updating, Absent, Whole
<1>2. Standing => StandsUnlessUpdatesMeet
  BY DEF Standing, StandsUnlessUpdatesMeet, UpsertsStand
<1> QED BY <1>1, <1>2, CleanStays, CurrentStays, StandingStays, Typing, ListedInStore, PTL
        DEF Spec
=============================================================================
