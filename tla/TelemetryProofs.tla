--------------------------- MODULE TelemetryProofs ---------------------------
(***************************************************************************)
(* Theorems about Drift and Telemetry, for any thresholds, any length of    *)
(* the queue and of the window, and any run of decisions.                   *)
(***************************************************************************)
EXTENDS Telemetry, FiniteSetTheorems, SequenceTheorems, TLAPS

-----------------------------------------------------------------------------
(* The ladder, as far as it is needed here. *)

LEMMA Severities ==
  /\ posture_severity("normal") = 0
  /\ posture_severity("elevated") = 1
  /\ posture_severity("restricted") = 2
  /\ posture_severity("locked") = 3
BY DEF posture_severity

LEMMA Order ==
  /\ \A p \in Postures : p \preceq p
  /\ \A p, q, r \in Postures : p \preceq q /\ q \preceq r => p \preceq r
  /\ \A p, q \in Postures : p \preceq q \/ q \preceq p
BY Severities DEF Postures, \preceq

LEMMA Rungs ==
  ASSUME NEW n \in Nat
  PROVE  /\ n >= LockedAt => posture_for_denials(n) = "locked"
         /\ n >= RestrictedAt /\ n < LockedAt => posture_for_denials(n) = "restricted"
         /\ n >= ElevatedAt /\ n < RestrictedAt => posture_for_denials(n) = "elevated"
         /\ n < ElevatedAt => posture_for_denials(n) = "normal"
         /\ posture_for_denials(n) \in Postures
<1>1. /\ n >= LockedAt => posture_for_denials(n) = "locked"
      /\ n >= RestrictedAt /\ n < LockedAt => posture_for_denials(n) = "restricted"
      /\ n >= ElevatedAt /\ n < RestrictedAt => posture_for_denials(n) = "elevated"
      /\ n < ElevatedAt => posture_for_denials(n) = "normal"
  BY ThresholdsAssumption DEF posture_for_denials
<1> QED BY <1>1, ThresholdsAssumption DEF Postures

LEMMA MoreDenials ==
  ASSUME NEW m \in Nat, NEW n \in Nat, m <= n
  PROVE  posture_for_denials(m) \preceq posture_for_denials(n)
BY Rungs, Severities, ThresholdsAssumption DEF \preceq

LEMMA NextPosture ==
  ASSUME NEW p \in Postures, NEW n \in Nat
  PROVE  /\ next_posture(p, n) \in Postures
         /\ posture_for_denials(n) \preceq next_posture(p, n)
         /\ posture_for_denials(n) \preceq p => next_posture(p, n) = p
<1>1. posture_for_denials(n) \in Postures
  BY Rungs
<1>2. "normal" \preceq p
  BY Severities DEF Postures, \preceq
<1> HIDE DEF posture_for_denials
<1> QED
  BY <1>1, <1>2, Severities DEF next_posture, at_least_posture, Postures, \preceq

-----------------------------------------------------------------------------
(* Counting. *)

Denied(queue, now) ==
  {i \in DOMAIN queue : queue[i].timestamp + Window >= now /\ queue[i].decision = "deny"}

LEMMA EventFields ==
  \A e \in Events : e.timestamp \in Nat /\ e.decision \in Verdicts /\ e.target \in Target
BY DEF Events

LEMMA CountIsOfDenied ==
  ASSUME NEW queue, NEW now
  PROVE  denial_count(queue, now) = Cardinality(Denied(queue, now))
<1> DEFINE Recent == {i \in DOMAIN queue : queue[i].timestamp + Window >= now}
<1>1. DOMAIN recent(queue, now) = Recent /\ \A i \in Recent : recent(queue, now)[i] = queue[i]
  BY DEF recent, Restrict
<1>2. {i \in DOMAIN recent(queue, now) : recent(queue, now)[i].decision = "deny"}
        = Denied(queue, now)
  BY <1>1 DEF Denied
<1> QED
  BY <1>2 DEF denial_count, Count

LEMMA DeniedIsFinite ==
  ASSUME NEW queue \in Seq(Events), NEW now
  PROVE  /\ IsFiniteSet(Denied(queue, now)) /\ Cardinality(Denied(queue, now)) \in Nat
         /\ denial_count(queue, now) \in Nat
<1>1. IsFiniteSet(DOMAIN queue)
  BY FS_Interval
<1>2. Denied(queue, now) \subseteq DOMAIN queue
  BY DEF Denied
<1> QED
  BY <1>1, <1>2, FS_Subset, FS_CardinalityType, CountIsOfDenied

(* An observation appends the event and drops what is in excess.             *)
LEMMA KeptShape ==
  ASSUME NEW queue \in Seq(Events), NEW event \in Events, Len(queue) <= MaxEvents
  PROVE  \E x \in 0 .. 1 :
           /\ Kept(queue, event) \in Seq(Events)
           /\ Len(Kept(queue, event)) = Len(queue) + 1 - x
           /\ Len(Kept(queue, event)) <= MaxEvents
           /\ Len(queue) + 1 - x >= 1
           /\ x = 1 => Len(queue) = MaxEvents
           /\ \A i \in 1 .. Len(queue) - x : Kept(queue, event)[i] = queue[i + x]
           /\ Kept(queue, event)[Len(queue) + 1 - x] = event
<1> DEFINE all == Append(queue, event)
<1>1. /\ all \in Seq(Events) /\ Len(all) = Len(queue) + 1 /\ Len(queue) \in Nat
      /\ MaxEvents \in Nat /\ MaxEvents > 0
      /\ \A i \in 1 .. Len(queue) : all[i] = queue[i]
      /\ all[Len(queue) + 1] = event
  BY TelemetryAssumption
<1>2. PICK x \in 0 .. 1 : x = IF Len(queue) = MaxEvents THEN 1 ELSE 0
  OBVIOUS
<1>3. Kept(queue, event) = SubSeq(all, x + 1, Len(all))
  <2>1. (IF Len(all) > MaxEvents THEN Len(all) - MaxEvents ELSE 0) = x
    BY <1>1, <1>2
  <2> QED BY <2>1 DEF Kept
<1> HIDE DEF all
<1>4. /\ SubSeq(all, x + 1, Len(all)) \in Seq(Events)
      /\ Len(SubSeq(all, x + 1, Len(all))) = Len(all) - x
      /\ \A i \in 1 .. Len(all) - x : SubSeq(all, x + 1, Len(all))[i] = all[i + x]
  <2>1. /\ \A i \in x + 1 .. Len(all) : all[i] \in Events
        /\ x + 1 \in Int /\ Len(all) \in Int
    BY <1>1, <1>2
  <2>2. /\ SubSeq(all, x + 1, Len(all)) \in Seq(Events)
        /\ Len(SubSeq(all, x + 1, Len(all)))
             = IF x + 1 <= Len(all) THEN Len(all) - (x + 1) + 1 ELSE 0
        /\ \A i \in 1 .. Len(all) - (x + 1) + 1 :
             SubSeq(all, x + 1, Len(all))[i] = all[x + 1 + i - 1]
    BY <2>1, SubSeqProperties
  <2>3. x + 1 <= Len(all) /\ Len(all) - (x + 1) + 1 = Len(all) - x
    BY <1>1, <1>2
  <2>4. \A i \in 1 .. Len(all) - x : x + 1 + i - 1 = i + x
    BY <1>1, <1>2
  <2> QED BY <2>2, <2>3, <2>4
<1> QED
  BY <1>1, <1>2, <1>3, <1>4

(* What the queue remembers once a decision is in it: the denials it held    *)
(* and still holds, and this one.                                            *)
LEMMA CountGrows ==
  ASSUME NEW queue \in Seq(Events), Len(queue) <= MaxEvents, NEW now \in Nat,
         NEW event \in Events, event.timestamp = now
  PROVE  \E kept \in 0 .. denial_count(queue, now) :
           denial_count(Kept(queue, event), now)
             = kept + (IF event.decision = "deny" THEN 1 ELSE 0)
<1> DEFINE next == Kept(queue, event)
<1>1. PICK x \in 0 .. 1 :
           /\ next \in Seq(Events) /\ Len(next) = Len(queue) + 1 - x
           /\ Len(queue) + 1 - x >= 1
           /\ \A i \in 1 .. Len(queue) - x : next[i] = queue[i + x]
           /\ next[Len(queue) + 1 - x] = event
  BY KeptShape
<1>2. /\ Len(queue) \in Nat /\ Window \in Nat
      /\ DOMAIN next = 1 .. Len(next) /\ DOMAIN queue = 1 .. Len(queue)
  BY <1>1, TelemetryAssumption
<1> HIDE DEF next
<1> DEFINE last == Len(next)
           Old  == Denied(next, now) \ {last}
           f    == [i \in Old |-> i + x]
<1>3. last \in DOMAIN next /\ next[last] = event
  <2>1. last = Len(queue) + 1 - x /\ last \in 1 .. Len(queue) + 1 - x
    BY <1>1, <1>2
  <2> QED BY <1>1, <1>2, <2>1
<1>4. f \in Injection(Old, Denied(queue, now))
  <2>1. ASSUME NEW i \in Old PROVE i + x \in Denied(queue, now)
    <3>1. i \in 1 .. Len(queue) - x
      BY <1>1, <1>2 DEF Denied
    <3>2. i + x \in 1 .. Len(queue) /\ next[i] = queue[i + x]
      BY <1>1, <1>2, <3>1
    <3> QED BY <1>2, <3>2 DEF Denied
  <2>2. \A i, j \in Old : i + x = j + x => i = j
    BY <1>1, <1>2 DEF Denied
  <2> QED BY <2>1, <2>2 DEF Injection, IsInjective
<1>5. /\ IsFiniteSet(Denied(queue, now)) /\ Cardinality(Denied(queue, now)) \in Nat
      /\ denial_count(queue, now) = Cardinality(Denied(queue, now))
      /\ denial_count(next, now) = Cardinality(Denied(next, now))
  BY DeniedIsFinite, CountIsOfDenied
<1>6. IsFiniteSet(Old) /\ Cardinality(Old) \in 0 .. denial_count(queue, now)
  <2>1. IsFiniteSet(Old) /\ Cardinality(Old) <= Cardinality(Denied(queue, now))
    BY <1>4, <1>5, FS_Injection
  <2>2. Cardinality(Old) \in Nat
    BY <2>1, FS_CardinalityType
  <2> QED BY <1>5, <2>1, <2>2
<1>7. last \in Denied(next, now) <=> event.decision = "deny"
  BY <1>2, <1>3 DEF Denied
<1> HIDE DEF last
<1>8. CASE event.decision = "deny"
  <2>1. Denied(next, now) = Old \cup {last} /\ last \notin Old
    BY <1>7, <1>8
  <2>2. Cardinality(Old \cup {last}) = Cardinality(Old) + 1
    BY <1>6, <2>1, FS_AddElement
  <2> QED BY <1>5, <1>6, <1>8, <2>1, <2>2 DEF next
<1>9. CASE event.decision # "deny"
  <2>1. Cardinality(Denied(next, now)) = Cardinality(Old)
    <3>1. Denied(next, now) = Old
      BY <1>7, <1>9
    <3> QED BY <3>1
  <2>2. Cardinality(Old) = Cardinality(Old) + 0
    BY <1>5, <1>6
  <2> QED BY <1>5, <1>6, <1>9, <2>1, <2>2 DEF next
<1> QED
  BY <1>8, <1>9

(* As time passes, denials leave the window and none enters it.              *)
LEMMA CountFades ==
  ASSUME NEW queue \in Seq(Events), NEW now \in Nat, NEW later \in Nat, now <= later
  PROVE  denial_count(queue, later) \in 0 .. denial_count(queue, now)
<1>1. Denied(queue, later) \subseteq Denied(queue, now)
  <2>1. \A i \in DOMAIN queue : queue[i].timestamp \in Nat
    BY EventFields
  <2>2. \A t \in Nat : t + Window >= later => t + Window >= now
    BY TelemetryAssumption
  <2> QED BY <2>1, <2>2 DEF Denied
<1> QED
  BY <1>1, DeniedIsFinite, FS_Subset, CountIsOfDenied

-----------------------------------------------------------------------------
(* The queue and the decisions made. *)

(* Decisions carry the time at which they were made.                         *)
Ordered(log, now) ==
  /\ \A i, j \in DOMAIN log : i <= j => log[i].timestamp <= log[j].timestamp
  /\ \A i \in DOMAIN log : log[i].timestamp <= now

(* The queue is the end of the log, and all of it until it is full.          *)
Newest(queue, log) ==
  \E gone \in 0 .. Len(log) :
    /\ Len(log) = Len(queue) + gone
    /\ gone > 0 => Len(queue) = MaxEvents
    /\ \A i \in 1 .. Len(queue) : queue[i] = log[i + gone]

(* Unless the operator interferes, what is remembered has been answered.     *)
Answered ==
  ~eased => posture_for_denials(denial_count(events, clock)) \preceq posture

TelemetryInv ==
  TypeOK /\ Ordered(recorded, clock) /\ Newest(events, recorded) /\ Answered

(* No denial of the window has been evicted unless more than MaxEvents       *)
(* decisions are in it: the recent ones are the last ones.                   *)
LEMMA NoneEvicted ==
  ASSUME NEW log \in Seq(Events), NEW queue \in Seq(Events), NEW now \in Nat,
         Ordered(log, now), Newest(queue, log)
  PROVE  \/ Size(recent(log, now)) > MaxEvents
         \/ denial_count(log, now) <= denial_count(queue, now)
<1> DEFINE Recent == {i \in DOMAIN log : log[i].timestamp + Window >= now}
<1>1. PICK gone \in 0 .. Len(log) :
        /\ Len(log) = Len(queue) + gone
        /\ gone > 0 => Len(queue) = MaxEvents
        /\ \A i \in 1 .. Len(queue) : queue[i] = log[i + gone]
  BY DEF Newest
<1>2. /\ Len(log) \in Nat /\ Len(queue) \in Nat /\ Window \in Nat /\ MaxEvents \in Nat
  BY TelemetryAssumption
<1>2a. DOMAIN log = 1 .. Len(log) /\ DOMAIN queue = 1 .. Len(queue)
  OBVIOUS
<1>3. /\ IsFiniteSet(Recent) /\ Cardinality(Recent) \in Nat
      /\ Size(recent(log, now)) = Cardinality(Recent)
  <2>1. IsFiniteSet(DOMAIN log) /\ Recent \subseteq DOMAIN log
    BY <1>2, <1>2a, FS_Interval
  <2>2. DOMAIN recent(log, now) = Recent
    BY DEF recent, Restrict
  <2> QED BY <2>1, <2>2, FS_Subset, FS_CardinalityType DEF Size
<1>3a. \A i \in 1 .. Len(log) : i \in Recent <=> log[i].timestamp + Window >= now
  BY <1>2a
<1>3b. Recent \subseteq 1 .. Len(log) /\ Denied(log, now) \subseteq Recent
  BY <1>2a DEF Denied
<1> HIDE DEF Recent
<1>4. CASE \E i \in Recent : ~(i > gone)
  <2>0. gone \in Nat /\ \A i \in Recent : i \in Nat
    BY <1>1, <1>2, <1>3b
  <2> PICK i \in Recent : i <= gone
    BY <1>4, <2>0
  <2>1. gone .. Len(log) \subseteq Recent
    <3> SUFFICES ASSUME NEW j \in gone .. Len(log) PROVE j \in Recent
      OBVIOUS
    <3>0. i \in 1 .. Len(log)
      BY <1>3b
    <3>1. i \in 1 .. Len(log) /\ j \in 1 .. Len(log) /\ i <= j
      BY <1>1, <1>2, <3>0
    <3>2. log[i].timestamp <= log[j].timestamp
      BY <1>2a, <3>1 DEF Ordered
    <3>3. log[i].timestamp \in Nat /\ log[j].timestamp \in Nat
      BY <1>2a, <3>1, EventFields
    <3>4. log[i].timestamp + Window >= now
      BY <1>3a, <3>1
    <3>5. \A s, t \in Nat : s <= t /\ s + Window >= now => t + Window >= now
      BY <1>2
    <3>6. log[j].timestamp + Window >= now
      BY <3>2, <3>3, <3>4, <3>5
    <3> QED BY <1>3a, <3>1, <3>6
  <2>2. gone >= 1 /\ Len(queue) = MaxEvents
    <3>1. i \in 1 .. Len(log)
      BY <1>3b
    <3> QED BY <1>1, <1>2, <3>1
  <2>3. Cardinality(gone .. Len(log)) = MaxEvents + 1
    <3>1. gone \in Int /\ Len(log) \in Int /\ gone <= Len(log)
          /\ Len(log) - gone + 1 = MaxEvents + 1
      BY <1>1, <1>2, <2>2
    <3> QED BY <3>1, FS_Interval
  <2>4. Cardinality(gone .. Len(log)) <= Cardinality(Recent)
    BY <1>3, <2>1, FS_Subset
  <2> QED BY <1>2, <1>3, <2>3, <2>4
<1>5. CASE \A i \in Recent : i > gone
  <2> DEFINE f == [i \in Denied(log, now) |-> i - gone]
  <2>1. f \in Injection(Denied(log, now), Denied(queue, now))
    <3>1. ASSUME NEW i \in Denied(log, now) PROVE i - gone \in Denied(queue, now)
      <4>1. i \in Recent /\ i \in 1 .. Len(log) /\ log[i].decision = "deny"
        BY <1>3b DEF Denied
      <4>2. i > gone
        BY <1>5, <4>1
      <4>3. i - gone \in 1 .. Len(queue) /\ (i - gone) + gone = i
        BY <1>1, <1>2, <4>1, <4>2
      <4>4. queue[i - gone] = log[i]
        BY <1>1, <4>3
      <4> QED BY <1>2a, <1>3a, <4>1, <4>3, <4>4 DEF Denied
    <3>2. \A i, j \in Denied(log, now) : i - gone = j - gone => i = j
      <4>1. \A i \in Denied(log, now) : i \in Nat
        <5>1. Denied(log, now) \subseteq 1 .. Len(log)
          BY <1>3b
        <5> QED BY <1>2, <5>1
      <4> QED BY <1>1, <4>1
    <3> QED BY <3>1, <3>2 DEF Injection, IsInjective
  <2> QED BY <2>1, DeniedIsFinite, CountIsOfDenied, FS_Injection
<1> QED
  BY <1>4, <1>5

LEMMA NewestStays ==
  ASSUME NEW log \in Seq(Events), NEW queue \in Seq(Events), NEW event \in Events,
         Newest(queue, log), Len(queue) <= MaxEvents
  PROVE  Newest(Kept(queue, event), Append(log, event))
<1>1. PICK gone \in 0 .. Len(log) :
        /\ Len(log) = Len(queue) + gone
        /\ gone > 0 => Len(queue) = MaxEvents
        /\ \A i \in 1 .. Len(queue) : queue[i] = log[i + gone]
  BY DEF Newest
<1> DEFINE next == Kept(queue, event)
           all  == Append(log, event)
<1>2. PICK x \in 0 .. 1 :
           /\ next \in Seq(Events) /\ Len(next) = Len(queue) + 1 - x
           /\ Len(next) <= MaxEvents
           /\ x = 1 => Len(queue) = MaxEvents
           /\ \A i \in 1 .. Len(queue) - x : next[i] = queue[i + x]
           /\ next[Len(queue) + 1 - x] = event
  BY KeptShape
<1>3. /\ Len(queue) \in Nat /\ Len(log) \in Nat /\ MaxEvents \in Nat
      /\ Len(all) = Len(log) + 1 /\ all[Len(log) + 1] = event
      /\ \A i \in 1 .. Len(log) : all[i] = log[i]
  BY TelemetryAssumption
<1> HIDE DEF next, all
<1>4. /\ gone + x \in 0 .. Len(all) /\ Len(all) = Len(next) + (gone + x)
      /\ gone + x > 0 => Len(next) = MaxEvents
  BY <1>1, <1>2, <1>3
<1>5. ASSUME NEW i \in 1 .. Len(next) PROVE next[i] = all[i + (gone + x)]
  <2>1. CASE i = Len(queue) + 1 - x
    <3>1. i + (gone + x) = Len(log) + 1
      BY <1>1, <1>2, <1>3, <2>1
    <3> QED BY <1>2, <1>3, <2>1, <3>1
  <2>2. CASE i # Len(queue) + 1 - x
    <3>1. i \in 1 .. Len(queue) - x /\ i + x \in 1 .. Len(queue)
      BY <1>1, <1>2, <1>3, <2>2
    <3>2. i + x + gone = i + (gone + x) /\ i + (gone + x) \in 1 .. Len(log)
      BY <1>1, <1>2, <1>3, <3>1
    <3> QED BY <1>1, <1>2, <1>3, <3>1, <3>2
  <2> QED BY <2>1, <2>2
<1>6. Newest(next, all)
  BY <1>4, <1>5 DEF Newest
<1> QED
  BY <1>6 DEF next, all

LEMMA OrderedStays ==
  ASSUME NEW log \in Seq(Events), NEW now \in Nat, NEW event \in Events,
         event.timestamp = now, Ordered(log, now)
  PROVE  Ordered(Append(log, event), now)
<1> DEFINE all == Append(log, event)
<1>1. /\ Len(log) \in Nat /\ DOMAIN all = 1 .. Len(log) + 1 /\ DOMAIN log = 1 .. Len(log)
      /\ all[Len(log) + 1] = event /\ \A i \in 1 .. Len(log) : all[i] = log[i]
  OBVIOUS
<1> HIDE DEF all
<1>2. \A i \in DOMAIN all : all[i].timestamp <= now
  BY <1>1 DEF Ordered
<1>3. ASSUME NEW i \in DOMAIN all, NEW j \in DOMAIN all, i <= j
      PROVE  all[i].timestamp <= all[j].timestamp
  <2>1. CASE j = Len(log) + 1
    BY <1>1, <1>2, <2>1
  <2>2. CASE j # Len(log) + 1
    <3>1. i \in 1 .. Len(log) /\ j \in 1 .. Len(log)
      BY <1>1, <1>3, <2>2
    <3> QED BY <1>1, <1>3, <3>1 DEF Ordered
  <2> QED BY <2>1, <2>2
<1>4. Ordered(all, now)
  BY <1>2, <1>3 DEF Ordered
<1> QED
  BY <1>4 DEF all

-----------------------------------------------------------------------------
(* The steps. *)

LEMMA Starts == Init => TelemetryInv
<1> SUFFICES ASSUME Init PROVE TelemetryInv
  OBVIOUS
<1>1. /\ clock = 0 /\ events = <<>> /\ recorded = <<>> /\ posture \in Postures
      /\ eased = FALSE /\ events \in Seq(Events) /\ Len(events) = 0
  BY DEF Init
<1>2. TypeOK
  <2>1. clock \in Nat /\ recorded \in Seq(Events) /\ Len(events) <= MaxEvents
    BY <1>1, TelemetryAssumption
  <2>2. eased \in BOOLEAN
    BY <1>1
  <2> QED BY <1>1, <2>1, <2>2 DEF TypeOK
<1>3. Ordered(recorded, clock)
  BY <1>1 DEF Ordered
<1>4. Newest(events, recorded)
  <2>1. /\ 0 \in 0 .. Len(recorded) /\ Len(recorded) = Len(events) + 0
        /\ \A i \in 1 .. Len(events) : FALSE
    BY <1>1
  <2> QED BY <1>1, <2>1 DEF Newest
<1>5. Answered
  <2>1. Denied(events, clock) = {}
    BY <1>1 DEF Denied
  <2>2. denial_count(events, clock) = 0
    BY <2>1, CountIsOfDenied, FS_EmptySet
  <2>3. posture_for_denials(0) = "normal"
    BY Rungs, ThresholdsAssumption
  <2> QED BY <1>1, <2>2, <2>3, Severities DEF Answered, Postures, \preceq
<1> QED
  BY <1>2, <1>3, <1>4, <1>5 DEF TelemetryInv

(* What recording a decision does, to the queue and to the posture.          *)
LEMMA Recording ==
  ASSUME TelemetryInv, NEW verdict \in Verdicts, NEW target \in Target,
         Record(verdict, target)
  PROVE  \E event \in Events :
           /\ event.timestamp = clock /\ event.decision = verdict
           /\ events' = Kept(events, event) /\ recorded' = Append(recorded, event)
           /\ posture' = next_posture(posture, denial_count(events', clock))
           /\ eased' = FALSE /\ clock' = clock
<1> DEFINE event == [timestamp |-> clock, decision |-> verdict, target |-> target]
<1>1. event \in Events /\ event.timestamp = clock /\ event.decision = verdict
  BY DEF TelemetryInv, TypeOK, Events
<1>2. /\ events' = Kept(events, event) /\ recorded' = Append(recorded, event)
      /\ posture' = next_posture(posture, denial_count(events', clock))
      /\ eased' = FALSE /\ clock' = clock
  BY DEF Record, Observe
<1> QED
  BY <1>1, <1>2

LEMMA RecordStep ==
  ASSUME TelemetryInv, NEW verdict \in Verdicts, NEW target \in Target,
         Record(verdict, target)
  PROVE  TelemetryInv'
<1>1. PICK event \in Events :
        /\ event.timestamp = clock
        /\ events' = Kept(events, event) /\ recorded' = Append(recorded, event)
        /\ posture' = next_posture(posture, denial_count(events', clock))
        /\ eased' = FALSE /\ clock' = clock
  BY Recording
<1>2. /\ events \in Seq(Events) /\ recorded \in Seq(Events) /\ clock \in Nat
      /\ Len(events) <= MaxEvents /\ posture \in Postures
  BY DEF TelemetryInv, TypeOK
<1>3. events' \in Seq(Events) /\ Len(events') <= MaxEvents
  BY <1>1, <1>2, KeptShape
<1>4. denial_count(events', clock) \in Nat
  BY <1>3, DeniedIsFinite
<1>5. /\ posture' \in Postures
      /\ posture_for_denials(denial_count(events', clock)) \preceq posture'
  BY <1>1, <1>2, <1>4, NextPosture
<1>6. TypeOK'
  <2>1. recorded' \in Seq(Events) /\ clock' \in Nat
    BY <1>1, <1>2
  <2>2. eased' \in BOOLEAN
    BY <1>1
  <2> QED BY <1>3, <1>5, <2>1, <2>2 DEF TypeOK
<1>7. Ordered(recorded', clock')
  BY <1>1, <1>2, OrderedStays DEF TelemetryInv
<1>8. Newest(events', recorded')
  BY <1>1, <1>2, NewestStays DEF TelemetryInv
<1>9. Answered'
  BY <1>1, <1>5 DEF Answered
<1> QED
  BY <1>6, <1>7, <1>8, <1>9 DEF TelemetryInv

LEMMA OperatorStep ==
  ASSUME TelemetryInv, NEW q \in Postures, SetPosture(q)
  PROVE  TelemetryInv'
<1>1. /\ posture' = q /\ eased' = (eased \/ ~(posture \preceq q))
      /\ UNCHANGED <<clock, events, recorded>>
  BY DEF SetPosture
<1>2. TypeOK' /\ denial_count(events, clock) \in Nat
  BY <1>1, DeniedIsFinite DEF TelemetryInv, TypeOK
<1>3. Answered'
  <2> SUFFICES ASSUME ~eased, posture \preceq q
               PROVE  posture_for_denials(denial_count(events, clock)) \preceq q
    BY <1>1 DEF Answered
  <2>1. /\ posture_for_denials(denial_count(events, clock)) \preceq posture
        /\ posture \in Postures
        /\ posture_for_denials(denial_count(events, clock)) \in Postures
    BY <1>2, Rungs DEF TelemetryInv, Answered, TypeOK
  <2> QED BY <2>1, Order
<1> QED
  BY <1>1, <1>2, <1>3 DEF TelemetryInv

LEMMA TickStep ==
  ASSUME TelemetryInv, Tick
  PROVE  TelemetryInv'
<1>1. /\ clock \in Nat /\ clock' = clock + 1 /\ clock' \in Nat /\ clock <= clock'
      /\ UNCHANGED <<events, posture, eased, recorded>>
  BY DEF Tick, TelemetryInv, TypeOK
<1>2. TypeOK'
  BY <1>1 DEF TelemetryInv, TypeOK
<1>3. Ordered(recorded, clock')
  <2>1. \A i \in DOMAIN recorded : recorded[i].timestamp \in Nat
    BY EventFields DEF TelemetryInv, TypeOK
  <2> QED BY <1>1, <2>1 DEF TelemetryInv, Ordered
<1>4. Answered'
  <2> SUFFICES ASSUME ~eased
               PROVE  posture_for_denials(denial_count(events, clock')) \preceq posture
    BY <1>1 DEF Answered
  <2>1. /\ denial_count(events, clock') \in 0 .. denial_count(events, clock)
        /\ denial_count(events, clock) \in Nat /\ denial_count(events, clock') \in Nat
    BY <1>1, CountFades, DeniedIsFinite DEF TelemetryInv, TypeOK
  <2>2. /\ posture_for_denials(denial_count(events, clock'))
             \preceq posture_for_denials(denial_count(events, clock))
        /\ posture_for_denials(denial_count(events, clock')) \in Postures
        /\ posture_for_denials(denial_count(events, clock)) \in Postures
    BY <2>1, MoreDenials, Rungs
  <2>3. /\ posture_for_denials(denial_count(events, clock)) \preceq posture
        /\ posture \in Postures
    BY DEF TelemetryInv, Answered, TypeOK
  <2> QED BY <2>2, <2>3, Order
<1> QED
  BY <1>1, <1>2, <1>3, <1>4 DEF TelemetryInv

LEMMA Steps ==
  ASSUME TelemetryInv, [Next]_vars
  PROVE  TelemetryInv'
<1>1. CASE UNCHANGED vars
  BY <1>1 DEF vars, TelemetryInv, TypeOK, Answered
<1> QED
  BY <1>1, RecordStep, OperatorStep, TickStep DEF Next

(* For any run of decisions, any clock and any operator.                     *)
THEOREM Telemetered == Spec => []TelemetryInv
BY Starts, Steps, PTL DEF Spec

LEMMA OnlyRecords ==
  ASSUME TelemetryInv, [Next]_vars, recorded' # recorded
  PROVE  \E verdict \in Verdicts, target \in Target : Record(verdict, target)
BY DEF Next, vars, SetPosture, Tick

LEMMA BurstStep ==
  ASSUME TelemetryInv, TelemetryInv', [Next]_vars, recorded' # recorded
  PROVE  Flooded' \/ posture_for_denials(denial_count(recorded', clock)) \preceq posture'
<1>1. PICK verdict \in Verdicts, target \in Target : Record(verdict, target)
  BY OnlyRecords
<1>2. /\ posture' = next_posture(posture, denial_count(events', clock)) /\ clock' = clock
  BY <1>1, Recording
<1>3. /\ events' \in Seq(Events) /\ recorded' \in Seq(Events) /\ clock' \in Nat
      /\ Ordered(recorded', clock') /\ Newest(events', recorded')
      /\ posture \in Postures /\ posture' \in Postures
  BY DEF TelemetryInv, TypeOK
<1>4. \/ Size(recent(recorded', clock')) > MaxEvents
      \/ denial_count(recorded', clock') <= denial_count(events', clock')
  BY <1>3, NoneEvicted
<1>5. CASE Size(recent(recorded', clock')) > MaxEvents
  BY <1>5 DEF Flooded
<1>6. CASE denial_count(recorded', clock') <= denial_count(events', clock')
  <2>1. denial_count(recorded', clock) \in Nat /\ denial_count(events', clock) \in Nat
    BY <1>3, DeniedIsFinite
  <2>2. /\ posture_for_denials(denial_count(recorded', clock))
             \preceq posture_for_denials(denial_count(events', clock))
        /\ posture_for_denials(denial_count(recorded', clock)) \in Postures
        /\ posture_for_denials(denial_count(events', clock)) \in Postures
    BY <1>2, <1>6, <2>1, MoreDenials, Rungs
  <2>3. posture_for_denials(denial_count(events', clock)) \preceq posture'
    BY <1>2, <1>3, <2>1, NextPosture
  <2> QED BY <1>3, <2>2, <2>3, Order
<1> QED
  BY <1>4, <1>5, <1>6

(* A burst of denials is contained: whatever the bounds, the posture answers *)
(* every denial of the window, evicted or not, unless the window overflowed  *)
(* the queue (telemetry.py:13-23).                                           *)
THEOREM Bursts == Spec => BurstsAreContained
<1>1. TelemetryInv /\ TelemetryInv' /\ [Next]_vars
        => [recorded' # recorded =>
              \/ Flooded'
              \/ posture_for_denials(denial_count(recorded', clock)) \preceq posture']_vars
  BY BurstStep
<1> QED
  BY <1>1, Telemetered, PTL DEF Spec, BurstsAreContained

LEMMA AllowStep ==
  ASSUME TelemetryInv, [Next]_vars, recorded' # recorded,
         recorded'[Len(recorded')].decision = "allow", ~eased
  PROVE  posture' = posture
<1>1. PICK verdict \in Verdicts, target \in Target : Record(verdict, target)
  BY OnlyRecords
<1>2. PICK event \in Events :
        /\ event.timestamp = clock /\ events' = Kept(events, event)
        /\ recorded' = Append(recorded, event)
        /\ posture' = next_posture(posture, denial_count(events', clock))
  BY <1>1, Recording
<1>3. /\ events \in Seq(Events) /\ recorded \in Seq(Events) /\ clock \in Nat
      /\ Len(events) <= MaxEvents /\ posture \in Postures
  BY DEF TelemetryInv, TypeOK
<1>4. event.decision = "allow"
  <2>1. recorded'[Len(recorded')] = event
    BY <1>2, <1>3
  <2> QED BY <2>1
<1>5. PICK kept \in 0 .. denial_count(events, clock) :
        denial_count(Kept(events, event), clock)
          = kept + (IF event.decision = "deny" THEN 1 ELSE 0)
  BY <1>2, <1>3, CountGrows
<1>6. /\ denial_count(events', clock) \in Nat /\ denial_count(events, clock) \in Nat
      /\ denial_count(events', clock) <= denial_count(events, clock)
  <2>1. denial_count(events, clock) \in Nat
    BY <1>3, DeniedIsFinite
  <2>2. denial_count(events', clock) = kept + 0
    BY <1>2, <1>4, <1>5
  <2> QED BY <2>1, <2>2
<1>7. /\ posture_for_denials(denial_count(events', clock))
           \preceq posture_for_denials(denial_count(events, clock))
      /\ posture_for_denials(denial_count(events', clock)) \in Postures
      /\ posture_for_denials(denial_count(events, clock)) \in Postures
  BY <1>6, MoreDenials, Rungs
<1>8. posture_for_denials(denial_count(events, clock)) \preceq posture
  BY DEF TelemetryInv, Answered
<1>9. posture_for_denials(denial_count(events', clock)) \preceq posture
  BY <1>3, <1>7, <1>8, Order
<1> QED
  BY <1>2, <1>3, <1>6, <1>9, NextPosture

(* Only a denial raises a posture, unless the operator has lowered it since  *)
(* the last decision (posture.py:51-70).                                     *)
THEOREM Allows == Spec => AllowsNeverRaise
<1>1. TelemetryInv /\ [Next]_vars
        => [(recorded' # recorded /\ recorded'[Len(recorded')].decision = "allow" /\ ~eased)
              => posture' = posture]_vars
  BY AllowStep
<1> QED
  BY <1>1, Telemetered, PTL DEF Spec, AllowsNeverRaise

-----------------------------------------------------------------------------
(* The refinement. *)

(* The two modules mean the same ladder.                                     *)
LEMMA SameLadder ==
  /\ Loop!Postures = Postures
  /\ \A p, n : Loop!next_posture(p, n) = next_posture(p, n)
BY DEF Loop!Postures, Postures, Loop!next_posture, next_posture, Loop!posture_for_denials,
   posture_for_denials, Loop!at_least_posture, at_least_posture, Loop!posture_severity,
   posture_severity

LEMMA RefinedStart == Init => Loop!Init
<1> SUFFICES ASSUME Init PROVE Loop!Init
  OBVIOUS
<1>1. Denied(events, clock) = {}
  BY DEF Init, Denied
<1>2. denial_count(events, clock) = 0
  BY <1>1, CountIsOfDenied, FS_EmptySet
<1> QED
  BY <1>2, SameLadder DEF Init, Loop!Init, Remembered

LEMMA RefinedStep ==
  ASSUME TelemetryInv, [Next]_vars
  PROVE  [Loop!Next]_<<posture, Remembered>>
<1>1. /\ events \in Seq(Events) /\ clock \in Nat /\ posture \in Postures
      /\ Len(events) <= MaxEvents
  BY DEF TelemetryInv, TypeOK
<1>2. CASE UNCHANGED vars
  BY <1>2 DEF vars, Remembered
<1>3. ASSUME NEW verdict \in Verdicts, NEW target \in Target, Record(verdict, target)
      PROVE  Loop!Next
  <2>1. PICK event \in Events :
          /\ event.timestamp = clock /\ event.decision = verdict
          /\ events' = Kept(events, event) /\ clock' = clock
          /\ posture' = next_posture(posture, denial_count(events', clock))
    BY <1>3, Recording
  <2>2. PICK kept \in 0 .. denial_count(events, clock) :
          denial_count(events', clock) = kept + (IF verdict = "deny" THEN 1 ELSE 0)
    BY <1>1, <2>1, CountGrows
  <2>3. Remembered' = denial_count(events', clock) /\ Remembered = denial_count(events, clock)
    BY <2>1 DEF Remembered
  <2>4. Loop!Observe(verdict)
    BY <2>1, <2>2, <2>3, SameLadder DEF Loop!Observe
  <2> QED BY <2>4 DEF Loop!Next, Verdicts
<1>4. ASSUME NEW q \in Postures, SetPosture(q)
      PROVE  Loop!Next
  <2>1. posture' \in Postures /\ Remembered' = Remembered
    BY <1>4 DEF SetPosture, Remembered
  <2> QED BY <2>1, SameLadder DEF Loop!Next, Loop!SetPosture
<1>5. ASSUME Tick
      PROVE  Loop!Next
  <2>1. /\ clock' \in Nat /\ clock <= clock' /\ events' = events /\ posture' = posture
    BY <1>1, <1>5 DEF Tick
  <2>2. Remembered' \in 0 .. Remembered
    BY <1>1, <2>1, CountFades DEF Remembered
  <2> QED BY <2>1, <2>2 DEF Loop!Next, Loop!Forget
<1> QED
  BY <1>2, <1>3, <1>4, <1>5 DEF Next

(* A queue of any positive length, a window of any length and a clock        *)
(* implement the count that forgets (telemetry.py, reflexive.py:11-14).      *)
THEOREM Refines == Spec => ImplementsDenialWindow
BY RefinedStart, RefinedStep, Telemetered, PTL DEF Spec, ImplementsDenialWindow, Loop!Spec

-----------------------------------------------------------------------------
(* The recommendation. *)

Denials(w) == {i \in DOMAIN w : w[i].decision = "deny"}
Hostile(w) == {i \in DOMAIN w : w[i].target \in Adversarial}

LEMMA VectorFields ==
  ASSUME NEW w
  PROVE  LET v == from_events(w)
         IN  /\ v.events = Cardinality(DOMAIN w)
             /\ v.denials = Cardinality(Denials(w))
             /\ v.adversarial = Cardinality(Hostile(w))
             /\ v.concentrated = LowEntropy(w)
BY DEF from_events, Size, Count, Denials, Hostile

(* What a window asks for, rung by rung.                                     *)
AsksLocked(w) ==
  Exceeds(Cardinality(Hostile(w)), Size(w), 3) \/ Exceeds(Cardinality(Denials(w)), Size(w), 8)

AsksRestricted(w) ==
  \/ Exceeds(Cardinality(Hostile(w)), Size(w), 1)
  \/ Exceeds(Cardinality(Denials(w)), Size(w), 5)
  \/ LowEntropy(w) /\ Exceeds(Cardinality(Denials(w)), Size(w), 3)

AsksElevated(w) == Exceeds(Cardinality(Denials(w)), Size(w), 2)

LEMMA RecommendationIs ==
  ASSUME NEW w
  PROVE  Recommendation(w) = IF AsksLocked(w) THEN "locked"
                             ELSE IF AsksRestricted(w) THEN "restricted"
                             ELSE IF AsksElevated(w) THEN "elevated" ELSE "normal"
BY VectorFields
   DEF Recommendation, recommend_correction, AsksLocked, AsksRestricted, AsksElevated, Size

LEMMA DemandedIs ==
  ASSUME NEW w
  PROVE  /\ Demanded(w) \subseteq {"locked", "restricted", "elevated"}
         /\ "locked" \in Demanded(w) <=> AsksLocked(w)
         /\ "restricted" \in Demanded(w) <=> AsksRestricted(w)
         /\ "elevated" \in Demanded(w) <=> AsksElevated(w)
<1> DEFINE v == from_events(w)
           Asks == [locked     |-> {<<v.adversarial, 3>>, <<v.denials, 8>>},
                    restricted |-> {<<v.adversarial, 1>>, <<v.denials, 5>>}
                                     \cup (IF v.concentrated THEN {<<v.denials, 3>>} ELSE {}),
                    elevated   |-> {<<v.denials, 2>>}]
<1>1. Demanded(w) =
        {p \in {"locked", "restricted", "elevated"} :
           \E a \in Asks[p] : Exceeds(a[1], Size(w), a[2])}
  BY DEF Demanded
<1>2. /\ Asks["locked"] = {<<v.adversarial, 3>>, <<v.denials, 8>>}
      /\ Asks["restricted"] = {<<v.adversarial, 1>>, <<v.denials, 5>>}
                                \cup (IF v.concentrated THEN {<<v.denials, 3>>} ELSE {})
      /\ Asks["elevated"] = {<<v.denials, 2>>}
  OBVIOUS
<1> HIDE DEF Asks
<1>3. (\E a \in Asks["locked"] : Exceeds(a[1], Size(w), a[2])) <=> AsksLocked(w)
  BY <1>2, VectorFields DEF AsksLocked
<1>4. (\E a \in Asks["restricted"] : Exceeds(a[1], Size(w), a[2])) <=> AsksRestricted(w)
  <2>1. /\ v.denials = Cardinality(Denials(w)) /\ v.adversarial = Cardinality(Hostile(w))
        /\ v.concentrated = LowEntropy(w)
    BY VectorFields
  <2> HIDE DEF v
  <2>2. CASE v.concentrated
    <3>1. Asks["restricted"] = {<<v.adversarial, 1>>, <<v.denials, 5>>, <<v.denials, 3>>}
      BY <1>2, <2>2
    <3> QED BY <2>1, <2>2, <3>1 DEF AsksRestricted
  <2>3. CASE ~v.concentrated
    <3>1. Asks["restricted"] = {<<v.adversarial, 1>>, <<v.denials, 5>>}
      BY <1>2, <2>3
    <3> QED BY <2>1, <2>3, <3>1 DEF AsksRestricted
  <2> QED BY <2>2, <2>3
<1>5. (\E a \in Asks["elevated"] : Exceeds(a[1], Size(w), a[2])) <=> AsksElevated(w)
  BY <1>2, VectorFields DEF AsksElevated
<1> QED
  BY <1>1, <1>3, <1>4, <1>5

(* A window with one denial more.                                            *)
LEMMA OneMoreDenial ==
  ASSUME NEW w, IsFiniteSet(DOMAIN w), NEW i \in DOMAIN w, NEW more,
         DOMAIN more = DOMAIN w,
         \A j \in DOMAIN w : more[j].target = w[j].target,
         \A j \in DOMAIN w \ {i} : more[j].decision = w[j].decision,
         more[i].decision = "deny"
  PROVE  /\ Size(more) = Size(w) /\ Hostile(more) = Hostile(w)
         /\ LowEntropy(more) <=> LowEntropy(w)
         /\ Cardinality(Denials(w)) \in Nat /\ Cardinality(Denials(more)) \in Nat
         /\ Cardinality(Hostile(w)) \in Nat /\ Size(w) \in Nat
         /\ Cardinality(Denials(w)) <= Cardinality(Denials(more))
<1>1. Size(more) = Size(w) /\ Hostile(more) = Hostile(w)
  BY DEF Size, Hostile
<1>2. \A t : {j \in DOMAIN more : more[j].target = t} = {j \in DOMAIN w : w[j].target = t}
  OBVIOUS
<1>3. LowEntropy(more) <=> LowEntropy(w)
  BY <1>1, <1>2 DEF LowEntropy, Counter, Count
<1>4. /\ Denials(w) \subseteq Denials(more) /\ Denials(more) \subseteq DOMAIN w
      /\ Hostile(w) \subseteq DOMAIN w
  BY DEF Denials, Hostile
<1>5. /\ IsFiniteSet(Denials(more)) /\ IsFiniteSet(Denials(w)) /\ IsFiniteSet(Hostile(w))
      /\ Cardinality(Denials(w)) <= Cardinality(Denials(more))
  BY <1>4, FS_Subset
<1> QED
  BY <1>1, <1>3, <1>5, FS_CardinalityType DEF Size

LEMMA Harsher ==
  ASSUME NEW k \in Nat, NEW l \in Nat, NEW n \in Nat, NEW tenths \in Nat, k <= l,
         Exceeds(k, n, tenths)
  PROVE  Exceeds(l, n, tenths)
BY SMT DEF Exceeds

(* The recommendation contains a window of any length.  LowEntropy is used   *)
(* only as a fact about the targets that a change of decisions leaves alone. *)
LEMMA WindowContained ==
  ASSUME NEW R, NEW D, IsFiniteSet(D), NEW w \in [D -> R],
         \A r \in R : /\ [r EXCEPT !.decision = "deny"].target = r.target
                      /\ [r EXCEPT !.decision = "deny"].decision = "deny"
  PROVE  Contains(w)
<1>1. \A p \in Demanded(w) : p \preceq Recommendation(w)
  BY RecommendationIs, DemandedIs, Severities DEF \preceq
<1>2. Recommendation(w) \in Demanded(w) \cup {"normal"}
  BY RecommendationIs, DemandedIs
<1>3. ASSUME NEW i \in D
      PROVE  Recommendation(w) \preceq Recommendation([w EXCEPT ![i].decision = "deny"])
  <2> DEFINE more == [w EXCEPT ![i].decision = "deny"]
  <2>1. /\ DOMAIN w = D /\ DOMAIN more = D
        /\ \A j \in D \ {i} : more[j] = w[j]
        /\ more[i] = [w[i] EXCEPT !.decision = "deny"]
    OBVIOUS
  <2>2. more[i].target = w[i].target /\ more[i].decision = "deny"
    BY <2>1
  <2> HIDE DEF more
  <2>3. \A j \in D : more[j].target = w[j].target
    BY <2>1, <2>2
  <2>4. /\ Size(more) = Size(w) /\ Hostile(more) = Hostile(w)
        /\ LowEntropy(more) <=> LowEntropy(w)
        /\ Cardinality(Denials(w)) \in Nat /\ Cardinality(Denials(more)) \in Nat
        /\ Cardinality(Hostile(w)) \in Nat /\ Size(w) \in Nat
        /\ Cardinality(Denials(w)) <= Cardinality(Denials(more))
    BY <2>1, <2>2, <2>3, OneMoreDenial
  <2>5. \A tenths \in Nat : Exceeds(Cardinality(Denials(w)), Size(w), tenths)
                              => Exceeds(Cardinality(Denials(more)), Size(w), tenths)
    BY <2>4, Harsher
  <2>6. /\ AsksLocked(w) => AsksLocked(more)
        /\ AsksRestricted(w) => AsksRestricted(more)
        /\ AsksElevated(w) => AsksElevated(more)
    BY <2>4, <2>5 DEF AsksLocked, AsksRestricted, AsksElevated
  <2>7. Recommendation(w) \preceq Recommendation(more)
    BY <2>6, RecommendationIs, Severities DEF \preceq
  <2> QED BY <2>7 DEF more
<1> QED
  BY <1>1, <1>2, <1>3 DEF Contains

(* The recommendation contains the window of every state, and every window   *)
(* that the run enumerates (drift.py:142-163).                               *)
THEOREM Drifts == Spec => []DriftIsContained
<1>1. ASSUME TypeOK PROVE Contains(recent(events, clock))
  <2> DEFINE D == {i \in DOMAIN events : events[i].timestamp + Window >= clock}
  <2>1. IsFiniteSet(D) /\ D \subseteq DOMAIN events
    BY <1>1, FS_Interval, FS_Subset DEF TypeOK
  <2>2. recent(events, clock) \in [D -> Events]
    BY <1>1, <2>1 DEF recent, Restrict, TypeOK
  <2>3. \A e \in Events : /\ [e EXCEPT !.decision = "deny"].target = e.target
                          /\ [e EXCEPT !.decision = "deny"].decision = "deny"
    BY DEF Events
  <2> QED BY <2>1, <2>2, <2>3, WindowContained
<1>2. ASSUME NEW w \in Windows PROVE Contains(w)
  <2>1. PICK n \in 0 .. MaxDrift : w \in [1 .. n -> [decision : Verdicts, target : Target]]
    BY DEF Windows
  <2>2. IsFiniteSet(1 .. n)
    BY FS_Interval
  <2>3. \A e \in [decision : Verdicts, target : Target] :
          /\ [e EXCEPT !.decision = "deny"].target = e.target
          /\ [e EXCEPT !.decision = "deny"].decision = "deny"
    OBVIOUS
  <2> QED BY <2>1, <2>2, <2>3, WindowContained
<1>3. TelemetryInv => DriftIsContained
  BY <1>1, <1>2 DEF TelemetryInv, DriftIsContained
<1> QED
  BY <1>3, Telemetered, PTL
==============================================================================
