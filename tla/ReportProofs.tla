----------------------------- MODULE ReportProofs -----------------------------
(***************************************************************************)
(* Theorems about RefinementSession and Report, for any number of turns,   *)
(* any candidates and any outcome of their tests, any verdicts, and any    *)
(* point at which either command stops.                                    *)
(***************************************************************************)
EXTENDS Report, FiniteSetTheorems, TLAPS

-----------------------------------------------------------------------------
(* Traces. *)

FlaggedTurns(t) == {i \in DOMAIN t : t[i].regression_detected}

(* What one turn more adds.                                                  *)
LEMMA AppendedTurn ==
  ASSUME NEW t \in Seq(Events), NEW e \in Events
  PROVE  LET n == Len(t) + 1
             s == Append(t, e)
         IN  /\ s \in Seq(Events) /\ Len(s) = n /\ DOMAIN s = DOMAIN t \cup {n}
             /\ n \notin DOMAIN t /\ \A i \in DOMAIN t : i < n
             /\ FailedTurns(s) = FailedTurns(t)
                  \cup (IF e.verification_status \in Failing THEN {n} ELSE {})
             /\ BlockedTurns(s) = BlockedTurns(t)
                  \cup (IF e.verification_status = "blocked" THEN {n} ELSE {})
             /\ FlaggedTurns(s) = FlaggedTurns(t)
                  \cup (IF e.regression_detected THEN {n} ELSE {})
<1> DEFINE n == Len(t) + 1
           s == Append(t, e)
<1>1. /\ s \in Seq(Events) /\ Len(s) = n
      /\ DOMAIN s = 1 .. n /\ DOMAIN t = 1 .. Len(t) /\ Len(t) \in Nat
  OBVIOUS
<1>2. DOMAIN s = DOMAIN t \cup {n} /\ n \notin DOMAIN t /\ \A i \in DOMAIN t : i < n
  BY <1>1
<1>3. s[n] = e /\ \A i \in DOMAIN t : s[i] = t[i]
  OBVIOUS
<1> HIDE DEF s, n
<1> QED
  BY <1>1, <1>2, <1>3 DEF FailedTurns, BlockedTurns, FlaggedTurns, n, s

(* The turns of a trace can be counted.                                      *)
LEMMA TurnsAreFinite ==
  ASSUME NEW t \in Seq(Events)
  PROVE  /\ IsFiniteSet(FailedTurns(t)) /\ Cardinality(FailedTurns(t)) \in Nat
         /\ IsFiniteSet(BlockedTurns(t)) /\ Cardinality(BlockedTurns(t)) \in Nat
         /\ Cardinality(BlockedTurns(t)) <= Len(t)
         /\ Cardinality(BlockedTurns(t)) = Len(t) <=> BlockedTurns(t) = DOMAIN t
<1>1. DOMAIN t = 1 .. Len(t) /\ Len(t) \in Nat
  OBVIOUS
<1>2. IsFiniteSet(DOMAIN t) /\ Cardinality(DOMAIN t) = Len(t)
  <2>1. 1 \in Int /\ Len(t) \in Int
    BY <1>1
  <2>2. /\ IsFiniteSet(1 .. Len(t))
        /\ Cardinality(1 .. Len(t)) = IF 1 > Len(t) THEN 0 ELSE Len(t) - 1 + 1
    BY <2>1, FS_Interval
  <2> QED BY <1>1, <2>2
<1>3. FailedTurns(t) \in SUBSET DOMAIN t /\ BlockedTurns(t) \in SUBSET DOMAIN t
  BY DEF FailedTurns, BlockedTurns
<1> QED
  BY <1>2, <1>3, FS_Subset, FS_CardinalityType

(* One turn more is one failed turn, one blocked turn or neither.            *)
LEMMA CountedTurn ==
  ASSUME NEW t \in Seq(Events), NEW e \in Events
  PROVE  /\ Cardinality(FailedTurns(Append(t, e))) =
              Cardinality(FailedTurns(t))
                + (IF e.verification_status \in Failing THEN 1 ELSE 0)
         /\ Cardinality(BlockedTurns(Append(t, e))) =
              Cardinality(BlockedTurns(t))
                + (IF e.verification_status = "blocked" THEN 1 ELSE 0)
<1> DEFINE n == Len(t) + 1
<1>1. /\ n \notin DOMAIN t
      /\ FailedTurns(Append(t, e)) = FailedTurns(t)
           \cup (IF e.verification_status \in Failing THEN {n} ELSE {})
      /\ BlockedTurns(Append(t, e)) = BlockedTurns(t)
           \cup (IF e.verification_status = "blocked" THEN {n} ELSE {})
  BY AppendedTurn
<1>2. n \notin FailedTurns(t) /\ n \notin BlockedTurns(t)
  BY <1>1 DEF FailedTurns, BlockedTurns
<1> HIDE DEF n
<1>3. /\ Cardinality(FailedTurns(t) \cup {n}) = Cardinality(FailedTurns(t)) + 1
      /\ Cardinality(BlockedTurns(t) \cup {n}) = Cardinality(BlockedTurns(t)) + 1
      /\ Cardinality(FailedTurns(t)) \in Nat /\ Cardinality(BlockedTurns(t)) \in Nat
  BY <1>2, TurnsAreFinite, FS_AddElement
<1>4. Cardinality(FailedTurns(Append(t, e))) =
        Cardinality(FailedTurns(t)) + (IF e.verification_status \in Failing THEN 1 ELSE 0)
  <2>1. CASE e.verification_status \in Failing
    BY <1>1, <1>3, <2>1
  <2>2. CASE e.verification_status \notin Failing
    <3>1. FailedTurns(Append(t, e)) = FailedTurns(t)
      BY <1>1, <2>2
    <3> QED BY <1>3, <2>2, <3>1
  <2> QED BY <2>1, <2>2
<1>5. Cardinality(BlockedTurns(Append(t, e))) =
        Cardinality(BlockedTurns(t)) + (IF e.verification_status = "blocked" THEN 1 ELSE 0)
  <2>1. CASE e.verification_status = "blocked"
    BY <1>1, <1>3, <2>1
  <2>2. CASE e.verification_status # "blocked"
    <3>1. BlockedTurns(Append(t, e)) = BlockedTurns(t)
      BY <1>1, <2>2
    <3> QED BY <1>3, <2>2, <3>1
  <2> QED BY <2>1, <2>2
<1> QED
  BY <1>4, <1>5

-----------------------------------------------------------------------------
(* Sessions. *)

(* The posture a decision leads to is one of the four.                       *)
LEMMA NextPostureTyped ==
  ASSUME NEW p \in Postures, NEW n \in Nat
  PROVE  next_posture(p, n) \in Postures
<1>1. /\ n >= LockedAt => posture_for_denials(n) = "locked"
      /\ n >= RestrictedAt /\ n < LockedAt => posture_for_denials(n) = "restricted"
      /\ n >= ElevatedAt /\ n < RestrictedAt => posture_for_denials(n) = "elevated"
      /\ n < ElevatedAt => posture_for_denials(n) = "normal"
  BY ThresholdsAssumption DEF posture_for_denials
<1>2. posture_for_denials(n) \in Postures
  BY <1>1, ThresholdsAssumption DEF Postures
<1> QED
  BY <1>2 DEF next_posture, at_least_posture

SessionTyped ==
  /\ TypeOK
  /\ phase \in {"going", "finished", "raised"}
  /\ still_correct \in BOOLEAN
  /\ decided \in [rows : Nat, denials : Nat]
  /\ phase # "raised" => denials <= MaxStart + Len(events)
  /\ gate # "none" => Len(events) < Turns

(* The first failed turn is the flagged one, and no other.                   *)
FirstFailureFlagged ==
  /\ still_correct <=> FailedTurns(events) = {}
  /\ \A i \in FlaggedTurns(events) :
       i \in FailedTurns(events) /\ \A j \in FailedTurns(events) : i <= j
  /\ FailedTurns(events) # {} => FlaggedTurns(events) # {}

ResultOf(t) ==
  [score |-> score_session(t), turns_blocked |-> Cardinality(BlockedTurns(t)),
   score_is_meaningful |-> Cardinality(BlockedTurns(t)) < Len(t)]

(* What is returned is read off the whole trace.                             *)
Scored == Finished => result = ResultOf(events) /\ Len(events) = Turns

SessionInv == SessionTyped /\ FirstFailureFlagged /\ DenialsOnRecord /\ Scored

(* A turn that ends is logged: the first failure is flagged as it happens.   *)
LEMMA LoggedStep ==
  ASSUME SessionTyped, FirstFailureFlagged,
         NEW verdict \in Verdicts,
         NEW status \in {"passed", "failed", "error", "blocked"},
         NEW after \in Code, Len(events) < Turns,
         Logged(Event(verdict, status, code, after))
  PROVE  /\ events' \in Seq(Events) /\ Len(events') = Len(events) + 1
         /\ gate' = "none" /\ still_correct' \in BOOLEAN
         /\ FirstFailureFlagged'
         /\ Cardinality(FailedTurns(events')) =
              Cardinality(FailedTurns(events)) + (IF status \in Failing THEN 1 ELSE 0)
         /\ Cardinality(BlockedTurns(events')) =
              Cardinality(BlockedTurns(events)) + (IF status = "blocked" THEN 1 ELSE 0)
<1> DEFINE e == Event(verdict, status, code, after)
           n == Len(events) + 1
<1>1. events \in Seq(Events) /\ code \in Code /\ still_correct \in BOOLEAN
  BY DEF SessionTyped, TypeOK
<1>2. /\ e \in Events /\ e.verification_status = status
      /\ e.regression_detected = (still_correct /\ status \in Failing)
  BY <1>1 DEF Event, Regresses, Events
<1>3. /\ events' = Append(events, e) /\ gate' = "none"
      /\ still_correct' = (still_correct /\ status \notin Failing)
  BY <1>2 DEF Logged
<1> HIDE DEF e
<1>4. /\ events' \in Seq(Events) /\ Len(events') = n
      /\ \A i \in DOMAIN events : i < n
      /\ FailedTurns(events') = FailedTurns(events)
           \cup (IF status \in Failing THEN {n} ELSE {})
      /\ FlaggedTurns(events') = FlaggedTurns(events)
           \cup (IF e.regression_detected THEN {n} ELSE {})
  BY <1>1, <1>2, <1>3, AppendedTurn
<1>5. /\ Cardinality(FailedTurns(events')) =
           Cardinality(FailedTurns(events)) + (IF status \in Failing THEN 1 ELSE 0)
      /\ Cardinality(BlockedTurns(events')) =
           Cardinality(BlockedTurns(events)) + (IF status = "blocked" THEN 1 ELSE 0)
  BY <1>1, <1>2, <1>3, CountedTurn
<1>6. /\ FailedTurns(events) \subseteq DOMAIN events /\ FlaggedTurns(events) \subseteq DOMAIN events
      /\ n \in Nat
  BY <1>1 DEF FailedTurns, FlaggedTurns
<1> HIDE DEF n
<1>7. FirstFailureFlagged'
  <2>1. CASE status \notin Failing
    <3>1. FailedTurns(events') = FailedTurns(events) /\ FlaggedTurns(events') = FlaggedTurns(events)
      BY <1>2, <1>4, <2>1
    <3> QED
      BY <1>3, <2>1, <3>1 DEF FirstFailureFlagged
  <2>2. CASE status \in Failing /\ still_correct
    <3>1. FailedTurns(events) = {} /\ FlaggedTurns(events) = {}
      BY <2>2 DEF FirstFailureFlagged
    <3>2. FailedTurns(events') = {n} /\ FlaggedTurns(events') = {n}
      BY <1>2, <1>4, <2>2, <3>1
    <3>3. ~still_correct'
      BY <1>3, <2>2
    <3>4. \A i, j \in {n} : i <= j
      BY <1>6
    <3> QED
      BY <3>2, <3>3, <3>4 DEF FirstFailureFlagged
  <2>3. CASE status \in Failing /\ ~still_correct
    <3>1. /\ FailedTurns(events') = FailedTurns(events) \cup {n}
          /\ FlaggedTurns(events') = FlaggedTurns(events)
      BY <1>2, <1>4, <2>3
    <3>2. \A i \in FlaggedTurns(events) : i <= n
      BY <1>1, <1>4, <1>6
    <3>3. FailedTurns(events) # {} /\ FlaggedTurns(events) # {}
      BY <2>3 DEF FirstFailureFlagged
    <3> QED
      BY <1>3, <2>3, <3>1, <3>2, <3>3 DEF FirstFailureFlagged
  <2> QED
    BY <1>1, <2>1, <2>2, <2>3
<1> QED
  BY <1>1, <1>3, <1>4, <1>5, <1>7 DEF n

(* A decision is typed, and counts itself and the denial it is.              *)
LEMMA DecideStep ==
  ASSUME SessionTyped, NEW verdict \in Verdicts, Decide(verdict)
  PROVE  /\ posture' \in Postures
         /\ denials' = denials + Denial(verdict) /\ denials' \in Nat
         /\ decided' \in [rows : Nat, denials : Nat]
         /\ decided'.rows = decided.rows + 1
         /\ decided'.denials = decided.denials + Denial(verdict)
<1>1. /\ posture \in Postures /\ denials \in Nat
      /\ decided \in [rows : Nat, denials : Nat] /\ Denial(verdict) \in 0 .. 1
  BY SessionAssumption DEF SessionTyped, TypeOK, Denial
<1>2. denials + Denial(verdict) \in Nat
  BY <1>1
<1>3. /\ denials' = denials + Denial(verdict)
      /\ posture' = next_posture(posture, denials + Denial(verdict))
      /\ decided' = [rows |-> decided.rows + 1, denials |-> decided.denials + Denial(verdict)]
  BY DEF Decide, Observe
<1>4. posture' \in Postures
  BY <1>1, <1>2, <1>3, NextPostureTyped
<1> QED
  BY <1>1, <1>2, <1>3, <1>4

(* A turn that is blocked, or that goes to the agent.                        *)
LEMMA GateStep ==
  ASSUME SessionInv, NEW policy \in Verdicts, Gate(policy)
  PROVE  SessionInv'
<1>1. /\ SessionTyped /\ TypeOK /\ FirstFailureFlagged /\ DenialsOnRecord
      /\ events \in Seq(Events) /\ Len(events) \in Nat /\ denials <= MaxStart + Len(events)
  BY DEF SessionInv, SessionTyped, TypeOK, Gate, Going
<1>2. /\ phase = "going" /\ gate = "none" /\ Len(events) < Turns
      /\ code' = code /\ phase' = phase /\ code \in Code
  BY <1>1 DEF Gate, Going, TypeOK
<1> DEFINE verdict == IF posture = "locked" THEN "deny" ELSE policy
<1>3. verdict \in Verdicts /\ Decide(verdict)
  BY DEF Gate, Verdicts
<1> HIDE DEF verdict
<1>4. /\ posture' \in Postures
      /\ denials' = denials + Denial(verdict) /\ denials' \in Nat
      /\ decided' \in [rows : Nat, denials : Nat]
      /\ decided'.rows = decided.rows + 1
      /\ decided'.denials = decided.denials + Denial(verdict)
  BY <1>1, <1>3, DecideStep
<1>5. /\ Turns \in Nat /\ MaxStart \in Nat /\ decided.rows \in Nat /\ decided.denials \in Nat
      /\ denials \in Nat
      /\ Cardinality(FailedTurns(events)) \in Nat /\ Cardinality(BlockedTurns(events)) \in Nat
  BY <1>1, TurnsAreFinite, SessionAssumption DEF SessionTyped, TypeOK
<1>6. /\ decided.denials = Cardinality(FailedTurns(events)) + Cardinality(BlockedTurns(events))
      /\ decided.rows = Len(events) + Cardinality(FailedTurns(events))
  BY <1>1, <1>2, <1>5 DEF DenialsOnRecord
<1>7. CASE verdict = "deny"
  <2>1. Logged(Event("deny", "blocked", code, code))
    BY <1>7 DEF Gate, verdict
  <2>2. /\ events' \in Seq(Events) /\ Len(events') = Len(events) + 1
        /\ gate' = "none" /\ still_correct' \in BOOLEAN /\ FirstFailureFlagged'
        /\ Cardinality(FailedTurns(events')) = Cardinality(FailedTurns(events))
        /\ Cardinality(BlockedTurns(events')) = Cardinality(BlockedTurns(events)) + 1
    <3>1. "deny" \in Verdicts /\ "blocked" \notin Failing
      BY DEF Verdicts, Failing
    <3> QED
      BY <1>1, <1>2, <1>5, <2>1, <3>1, LoggedStep
  <2>3. Denial(verdict) = 1
    BY <1>7 DEF Denial
  <2>4. SessionTyped'
    BY <1>1, <1>2, <1>4, <1>5, <2>2, <2>3 DEF SessionTyped, TypeOK
  <2>5. DenialsOnRecord'
    BY <1>4, <1>5, <1>6, <2>2, <2>3 DEF DenialsOnRecord
  <2> QED
    BY <1>2, <2>2, <2>4, <2>5 DEF SessionInv, Scored, Finished
<1>8. CASE verdict # "deny"
  <2>1. gate' = verdict /\ events' = events /\ still_correct' = still_correct
    BY <1>8 DEF Gate, verdict
  <2>2. Denial(verdict) = 0 /\ verdict \in {"allow", "review"}
    BY <1>3, <1>8 DEF Denial, Verdicts
  <2>3. SessionTyped'
    BY <1>1, <1>2, <1>4, <1>5, <2>1, <2>2 DEF SessionTyped, TypeOK
  <2>4. DenialsOnRecord'
    BY <1>4, <1>5, <1>6, <2>1, <2>2 DEF DenialsOnRecord
  <2>5. FirstFailureFlagged'
    BY <1>1, <2>1 DEF FirstFailureFlagged
  <2> QED
    BY <1>2, <2>3, <2>4, <2>5 DEF SessionInv, Scored, Finished
<1> QED
  BY <1>7, <1>8

(* A candidate that fails is a denial on record as well as a failed turn.    *)
LEMMA VerifyStep ==
  ASSUME SessionInv, NEW candidate \in Code, Verify(candidate)
  PROVE  SessionInv'
<1>1. /\ SessionTyped /\ TypeOK /\ FirstFailureFlagged /\ DenialsOnRecord
      /\ events \in Seq(Events) /\ Len(events) \in Nat /\ denials <= MaxStart + Len(events)
  BY DEF SessionInv, SessionTyped, TypeOK, Verify, Going
<1>2. /\ phase = "going" /\ gate \in {"allow", "review"} /\ Len(events) < Turns
      /\ code' = candidate /\ phase' = phase
  BY <1>1 DEF Verify, Going, TypeOK, SessionTyped
<1> DEFINE status == Sandbox(candidate)
<1>3. status \in {"passed"} \cup Failing /\ status # "blocked"
  BY SessionAssumption DEF Failing
<1>4. /\ Turns \in Nat /\ MaxStart \in Nat /\ decided.rows \in Nat /\ decided.denials \in Nat
      /\ denials \in Nat
      /\ Cardinality(FailedTurns(events)) \in Nat /\ Cardinality(BlockedTurns(events)) \in Nat
  BY <1>1, TurnsAreFinite, SessionAssumption DEF SessionTyped, TypeOK
<1>5. /\ decided.denials = Cardinality(FailedTurns(events)) + Cardinality(BlockedTurns(events))
      /\ decided.rows = Len(events) + Cardinality(FailedTurns(events)) + 1
  BY <1>1, <1>2, <1>4 DEF DenialsOnRecord
<1>6. PICK verdict \in Verdicts : Logged(Event(verdict, status, code, candidate))
  BY <1>2 DEF Verify, Verdicts
<1>7. status \in {"passed", "failed", "error", "blocked"} /\ Len(events) < Turns
  BY <1>2, <1>3 DEF Failing
<1> HIDE DEF status
<1>8. /\ events' \in Seq(Events) /\ Len(events') = Len(events) + 1
      /\ gate' = "none" /\ still_correct' \in BOOLEAN /\ FirstFailureFlagged'
      /\ Cardinality(FailedTurns(events')) =
           Cardinality(FailedTurns(events)) + (IF status \in Failing THEN 1 ELSE 0)
      /\ Cardinality(BlockedTurns(events')) =
           Cardinality(BlockedTurns(events)) + (IF status = "blocked" THEN 1 ELSE 0)
  BY <1>1, <1>6, <1>7, LoggedStep
<1>9. CASE status \in Failing
  <2>1. Decide("deny") /\ "deny" \in Verdicts /\ Denial("deny") = 1
    BY <1>9 DEF Verify, Verdicts, Denial, status
  <2>2. /\ posture' \in Postures
        /\ denials' = denials + 1 /\ denials' \in Nat
        /\ decided' \in [rows : Nat, denials : Nat]
        /\ decided'.rows = decided.rows + 1 /\ decided'.denials = decided.denials + 1
    BY <1>1, <2>1, DecideStep
  <2>3. SessionTyped'
    BY <1>1, <1>2, <1>4, <1>8, <2>2, SMTT(30) DEF SessionTyped, TypeOK
  <2>4. DenialsOnRecord'
    BY <1>3, <1>4, <1>5, <1>8, <1>9, <2>2, SMTT(30) DEF DenialsOnRecord
  <2> QED
    BY <1>2, <1>8, <2>3, <2>4 DEF SessionInv, Scored, Finished
<1>10. CASE status \notin Failing
  <2>1. UNCHANGED <<posture, denials, decided>>
    BY <1>10 DEF Verify, runtime, status
  <2>2. SessionTyped'
    BY <1>1, <1>2, <1>4, <1>8, <2>1 DEF SessionTyped, TypeOK
  <2>3. DenialsOnRecord'
    <3>1. /\ Cardinality(FailedTurns(events')) = Cardinality(FailedTurns(events))
          /\ Cardinality(BlockedTurns(events')) = Cardinality(BlockedTurns(events))
      BY <1>3, <1>4, <1>8, <1>10
    <3>2. decided'.rows = decided.rows /\ decided'.denials = decided.denials
      BY <2>1
    <3>3. Len(events') = Len(events) + 1 /\ gate' = "none"
      BY <1>8
    <3> QED BY <1>1, <1>4, <1>5, <3>1, <3>2, <3>3 DEF DenialsOnRecord
  <2> QED
    BY <1>2, <1>8, <2>2, <2>3 DEF SessionInv, Scored, Finished
<1> QED
  BY <1>9, <1>10

(* Denials that leave the window, and a step that raises.                    *)
LEMMA AsideSteps ==
  ASSUME SessionInv, Forget \/ Raise
  PROVE  SessionInv'
<1>1. /\ SessionTyped /\ TypeOK /\ FirstFailureFlagged /\ DenialsOnRecord
      /\ events \in Seq(Events) /\ Len(events) \in Nat /\ denials <= MaxStart + Len(events)
      /\ denials \in Nat /\ MaxStart \in Nat /\ Turns \in Nat /\ Len(events) <= Turns
  BY SessionAssumption DEF SessionInv, SessionTyped, TypeOK, Forget, Raise, Going
<1>2. /\ phase = "going" /\ UNCHANGED <<code, gate, still_correct, events, result>>
  BY DEF Forget, Raise, Going
<1>3. FirstFailureFlagged'
  BY <1>1, <1>2 DEF FirstFailureFlagged
<1>4. CASE Forget
  <2>1. /\ phase' = phase /\ posture' = posture /\ decided' = decided
        /\ denials' \in Nat /\ denials' <= denials
    BY <1>1, <1>4 DEF Forget
  <2>2. SessionTyped'
    BY <1>1, <1>2, <2>1 DEF SessionTyped, TypeOK
  <2>3. DenialsOnRecord'
    BY <1>1, <1>2, <2>1 DEF DenialsOnRecord
  <2> QED
    BY <1>2, <1>3, <2>1, <2>2, <2>3 DEF SessionInv, Scored, Finished
<1>5. CASE Raise
  <2>1. phase' = "raised" /\ Len(events) < Turns
    BY <1>5 DEF Raise
  <2>2. /\ posture' \in Postures /\ denials' \in 0 .. (MaxStart + Turns)
        /\ decided' \in [rows : Nat, denials : Nat]
    <3>1. CASE UNCHANGED runtime
      BY <1>1, <3>1 DEF SessionTyped, TypeOK, runtime
    <3>2. ASSUME NEW verdict \in Verdicts, Observe(verdict)
          PROVE  posture' \in Postures /\ denials' \in 0 .. (MaxStart + Turns)
      <4>1. Denial(verdict) \in 0 .. 1 /\ denials + Denial(verdict) \in Nat
        BY <1>1 DEF Denial
      <4>2. /\ denials' = denials + Denial(verdict)
            /\ posture' = next_posture(posture, denials + Denial(verdict))
        BY <3>2 DEF Observe
      <4>3. posture' \in Postures
        BY <1>1, <4>1, <4>2, NextPostureTyped DEF TypeOK
      <4> QED
        BY <1>1, <2>1, <4>1, <4>2, <4>3
    <3>3. ASSUME NEW verdict \in Verdicts, Decide(verdict)
          PROVE  decided' \in [rows : Nat, denials : Nat]
      BY <1>1, <3>3, DecideStep
    <3> QED
      BY <1>1, <1>5, <3>1, <3>2, <3>3 DEF Raise, Decide, SessionTyped
  <2>3. SessionTyped'
    BY <1>1, <1>2, <2>1, <2>2 DEF SessionTyped, TypeOK
  <2> QED
    BY <1>3, <2>1, <2>3 DEF SessionInv, DenialsOnRecord, Scored, Finished
<1> QED
  BY <1>4, <1>5

(* The result is read off the trace, which is over.                          *)
LEMMA ScoreStep ==
  ASSUME SessionInv, Score
  PROVE  SessionInv'
<1>1. /\ SessionTyped /\ FirstFailureFlagged /\ DenialsOnRecord
      /\ phase = "going" /\ phase' = "finished" /\ gate = "none" /\ Len(events) = Turns
      /\ UNCHANGED <<posture, denials, decided, code, gate, still_correct, events>>
  BY DEF SessionInv, Score, Going, runtime
<1>2. SessionTyped' /\ FirstFailureFlagged' /\ DenialsOnRecord'
  BY <1>1 DEF SessionTyped, TypeOK, FirstFailureFlagged, DenialsOnRecord
<1>3. result' = ResultOf(events)
  BY DEF Score, ResultOf, score_session
<1> QED
  BY <1>1, <1>2, <1>3 DEF SessionInv, Scored

LEMMA SessionSteps ==
  ASSUME SessionInv, [Next]_vars
  PROVE  SessionInv'
<1>1. CASE UNCHANGED vars
  BY <1>1 DEF vars, SessionInv, SessionTyped, TypeOK, FirstFailureFlagged, DenialsOnRecord,
     Scored, Finished
<1> QED
  BY <1>1, GateStep, VerifyStep, AsideSteps, ScoreStep DEF Next

LEMMA SessionStarts == Init => SessionInv
<1> SUFFICES ASSUME Init PROVE SessionInv
  OBVIOUS
<1>1. FailedTurns(<<>>) = {} /\ BlockedTurns(<<>>) = {} /\ FlaggedTurns(<<>>) = {}
  BY DEF FailedTurns, BlockedTurns, FlaggedTurns
<1>2. events = <<>> /\ events \in Seq(Events) /\ Len(events) = 0
  BY DEF Init
<1>3. SessionTyped
  BY <1>2, SessionAssumption DEF Init, SessionTyped, TypeOK
<1>4. FirstFailureFlagged
  BY <1>1, <1>2 DEF Init, FirstFailureFlagged
<1>5. DenialsOnRecord
  <2>1. /\ Cardinality(FailedTurns(events)) = 0 /\ Cardinality(BlockedTurns(events)) = 0
        /\ gate = "none" /\ decided.rows = 0 /\ decided.denials = 0
    BY <1>1, <1>2, FS_EmptySet DEF Init
  <2> QED BY <1>2, <2>1 DEF DenialsOnRecord
<1> QED
  BY <1>3, <1>4, <1>5 DEF Init, SessionInv, Scored, Finished

(* For any number of turns and any candidates: a session is a sequence of    *)
(* steps that keep its trace, its score and the decision log in agreement.   *)
THEOREM Sessions == Spec => []SessionInv
BY SessionStarts, SessionSteps, PTL DEF Spec

(* The turn flagged as it happened is the one the score finds afterwards.    *)
LEMMA ScoreFindsTheFlag == SessionInv => TraceAgreesWithScore
<1> SUFFICES ASSUME SessionInv, Finished
             PROVE  FlaggedTurns(events)
                      = IF result.score.first_regression_turn = 0 THEN {}
                        ELSE {result.score.first_regression_turn}
  BY DEF TraceAgreesWithScore, FlaggedTurns
<1> DEFINE failed == FailedTurns(events)
           flagged == FlaggedTurns(events)
           first == result.score.first_regression_turn
<1>1. first = IF failed = {} THEN 0 ELSE Min(failed)
  BY DEF SessionInv, Scored, ResultOf, score_session
<1>2. /\ \A i \in flagged : i \in failed /\ \A j \in failed : i <= j
      /\ failed # {} => flagged # {}
      /\ failed \subseteq Nat \ {0}
  BY DEF SessionInv, FirstFailureFlagged, FailedTurns, SessionTyped, TypeOK
<1> HIDE DEF failed, flagged, first
<1>3. CASE failed = {}
  BY <1>1, <1>2, <1>3 DEF flagged, first
<1>4. CASE failed # {}
  <2>1. PICK i \in flagged : TRUE
    BY <1>2, <1>4
  <2>2. i \in failed /\ \A j \in failed : i <= j
    BY <1>2
  <2>3. \A m \in failed : (\A j \in failed : m <= j) => m = i
    BY <1>2, <2>2
  <2>4. Min(failed) = i
    BY <2>2, <2>3 DEF Min
  <2>5. flagged = {i}
    BY <1>2, <2>1, <2>3
  <2> QED
    BY <1>1, <1>2, <1>4, <2>2, <2>4, <2>5 DEF flagged, first
<1> QED
  BY <1>3, <1>4

(* The score and the trace name the same regression, for any trace           *)
(* (run_session.py:143-144, score.py:36-48).                                 *)
THEOREM ScoreIsOfTheTrace == Spec => []TraceAgreesWithScore
BY Sessions, ScoreFindsTheFlag, PTL

(* Every blocked turn and every failed verification is a denial on record    *)
(* (run_session.py:3-8, 129-141).                                            *)
THEOREM DenialsAreOnRecord == Spec => []DenialsOnRecord
<1>1. SessionInv => DenialsOnRecord
  BY DEF SessionInv
<1> QED
  BY <1>1, Sessions, PTL

-----------------------------------------------------------------------------
(* The reports. *)

Places ==
  {"idle", "trace", "read", "open", "json", "render", "md", "stopped", "refused",
   "exit_0", "exit_1"}

FileStates == {"absent", "blank", "garbled", "whole"}

ReportTyped ==
  /\ json \in [state : FileStates, rows : [Command -> Row]]
  /\ md \in [state : FileStates, rows : [Command -> {"none", "INVALID", "score"}]]
  /\ writer \in [Command -> [at : Places, row : Row, merged : [Command -> Row]]]
  /\ met \in BOOLEAN

(* What this command says of its session, by how far it is.                  *)
Mine ==
  /\ writer["mine"].at = "idle" => writer["mine"] = Idle
  /\ writer["mine"].at # "idle" =>
       /\ Finished
       /\ writer["mine"].row =
            IF result.score_is_meaningful THEN "scored" ELSE "unverified"
  /\ writer["mine"].at \notin {"idle", "trace", "stopped"} => trace = "whole"
  /\ writer["mine"].at = "exit_1" => writer["mine"].row = "unverified"
  /\ writer["mine"].at = "exit_0" => writer["mine"].row # "unverified"

(* What a command finds and leaves while it is the only one under way.       *)
Alone(c) ==
  /\ writer[c].at \in {"open", "json", "render", "md"} =>
       /\ writer[c].merged[c] = writer[c].row
       /\ \A d \in Command : Exited(d) => writer[c].merged[d] = writer[d].row
  /\ writer[c].at = "open" => json.state \in {"absent", "whole"}
  /\ writer[c].at = "json" => json = Blank
  /\ writer[c].at \in {"render", "md"} => json = File("whole", writer[c].merged)
  /\ writer[c].at = "md" => md = Blank

(* What the reports, whenever they can be read, hold of a finished command.  *)
Kept(c) ==
  Exited(c) =>
    /\ json.state # "absent"
    /\ json.state = "whole" => json.rows[c] = writer[c].row
    /\ md.state = "whole" => md.rows[c] = Shown(writer[c].row)

OneWriter ==
  ~met => /\ \E c \in Command : ~Ongoing(c)
          /\ \A c \in Command : Alone(c) /\ Kept(c)

(* Between two updates of which none was stopped the reports are whole.      *)
Tidy ==
  (~met /\ ~Stopped) =>
    /\ \A c \in Command : writer[c].at # "refused"
    /\ (\A c \in Command : writer[c].at \notin {"json", "render", "md"}) =>
         /\ json.state \in {"absent", "whole"}
         /\ md = File(json.state, Rendered(json.rows))

ReportInv == SessionInv /\ ReportTyped /\ Mine /\ OneWriter /\ Tidy

LEMMA ReportKept == ReportInv => ReportKeepsRows
<1> SUFFICES ASSUME ReportInv, ~met, ~Stopped, \A c \in Command : ~Ongoing(c)
             PROVE  /\ json.state \in {"absent", "whole"}
                    /\ \A c \in Command : writer[c].at # "refused"
                    /\ \A c \in Command : Exited(c) => json.rows[c] = writer[c].row
                    /\ md = File(json.state, Rendered(json.rows))
  BY DEF ReportKeepsRows
<1>1. \A c \in Command : writer[c].at \notin {"json", "render", "md"}
  BY DEF Ongoing
<1>2. Tidy /\ \A c \in Command : Kept(c)
  BY DEF ReportInv, OneWriter
<1> QED
  BY <1>1, <1>2 DEF Tidy, Kept

LEMMA BlockedMarked == ReportInv => BlockedScoresAreMarked
<1> SUFFICES ASSUME ReportInv, Exited("mine")
             PROVE  LET unverified == BlockedTurns(events) = DOMAIN events
                    IN  /\ trace = "whole"
                        /\ (writer["mine"].at = "exit_1") = unverified
                        /\ (~met /\ md.state = "whole") =>
                             (md.rows["mine"] = "INVALID") = unverified
  BY DEF BlockedScoresAreMarked
<1> DEFINE unverified == BlockedTurns(events) = DOMAIN events
<1>1. /\ Mine /\ Finished /\ SessionInv /\ OneWriter
      /\ writer["mine"].row = IF result.score_is_meaningful THEN "scored" ELSE "unverified"
      /\ writer["mine"].at \in {"exit_0", "exit_1"}
  BY DEF ReportInv, Mine, Exited
<1>2. unverified <=> ~result.score_is_meaningful
  <2>1. /\ events \in Seq(Events) /\ Len(events) = Turns
        /\ result.score_is_meaningful = (Cardinality(BlockedTurns(events)) < Len(events))
    BY <1>1, SessionAssumption DEF SessionInv, Scored, ResultOf, SessionTyped, TypeOK
  <2>2. /\ Cardinality(BlockedTurns(events)) \in Nat
        /\ Cardinality(BlockedTurns(events)) <= Len(events)
        /\ Cardinality(BlockedTurns(events)) = Len(events) <=> BlockedTurns(events) = DOMAIN events
    BY <2>1, TurnsAreFinite
  <2>3. Cardinality(BlockedTurns(events)) < Len(events)
          <=> ~(BlockedTurns(events) = DOMAIN events)
    <3>1. Len(events) \in Nat
      BY <2>1
    <3> QED BY <2>2, <3>1
  <2> QED
    BY <2>1, <2>3
<1>3. (writer["mine"].row = "unverified") <=> unverified
  BY <1>1, <1>2
<1>4. (writer["mine"].at = "exit_1") <=> unverified
  BY <1>1, <1>3 DEF Mine
<1>5. (~met /\ md.state = "whole") => ((md.rows["mine"] = "INVALID") <=> unverified)
  <2>1. ~met /\ md.state = "whole" => md.rows["mine"] = Shown(writer["mine"].row)
    BY <1>1 DEF OneWriter, Kept, Exited, Command
  <2> QED
    BY <1>1, <1>3, <2>1 DEF Shown
<1>6. trace = "whole"
  BY <1>1 DEF Mine
<1> QED
  BY <1>4, <1>5, <1>6

LEMMA ReportStarts == ReportInit => ReportInv
<1> SUFFICES ASSUME ReportInit PROVE ReportInv
  OBVIOUS
<1>1. /\ writer = [c \in Command |-> Idle] /\ met = FALSE
      /\ \A c \in Command : writer[c] = Idle /\ writer[c].at = "idle"
  BY DEF ReportInit, Idle
<1>2. /\ NoRows \in [Command -> Row] /\ Idle.row \in Row /\ "idle" \in Places
      /\ Idle \in [at : Places, row : Row, merged : [Command -> Row]]
  BY DEF NoRows, Row, Idle, Places
<1>3. PICK rows \in [Command -> Row], state \in {"absent", "whole"} : json = File(state, rows)
  BY <1>2 DEF ReportInit
<1>4. /\ md = File(state, Rendered(rows)) /\ json.state = state /\ json.rows = rows
      /\ Rendered(rows) \in [Command -> {"none", "INVALID", "score"}]
  BY <1>3 DEF ReportInit, File, Rendered, Shown
<1>5. ReportTyped
  BY <1>1, <1>2, <1>3, <1>4 DEF ReportTyped, File, FileStates
<1>6. Mine
  BY <1>1 DEF Mine, Command
<1>7. \A c \in Command : ~Ongoing(c) /\ Alone(c) /\ Kept(c)
  BY <1>1 DEF Ongoing, Alone, Kept, Exited
<1>8. OneWriter
  BY <1>7 DEF OneWriter, Command
<1>9. Tidy
  BY <1>1, <1>3, <1>4 DEF Tidy
<1>10. SessionInv
  BY SessionStarts DEF ReportInit
<1> QED
  BY <1>5, <1>6, <1>8, <1>9, <1>10 DEF ReportInv

(* While the session runs, this command has touched nothing.                 *)
LEMMA SessionKeepsReports ==
  ASSUME ReportInv, Next, UNCHANGED report_vars
  PROVE  ReportInv'
<1>1. SessionInv'
  BY SessionSteps DEF ReportInv
<1>2. ~Finished
  BY DEF Next, Gate, Verify, Forget, Raise, Score, Going, Finished
<1>3. UNCHANGED <<trace, json, md, writer, met>>
  BY DEF report_vars
<1>4. Mine'
  BY <1>2, <1>3 DEF ReportInv, Mine
<1>5. ReportTyped' /\ OneWriter' /\ Tidy'
  BY <1>3 DEF ReportInv, ReportTyped, OneWriter, Tidy, Alone, Kept, Exited, Ongoing, Stopped
<1> QED
  BY <1>1, <1>4, <1>5 DEF ReportInv

LEMMA SessionIsOver ==
  ASSUME ReportInv, UNCHANGED vars
  PROVE  SessionInv' /\ Finished' = Finished /\ result' = result
BY SessionSteps DEF ReportInv, vars, Finished

(* Nothing a command does changes what the other is at.                      *)
LEMMA Going_on ==
  ASSUME ReportTyped, NEW c \in Command, NEW place \in Places, Goes(c, place)
  PROVE  /\ writer' \in [Command -> [at : Places, row : Row, merged : [Command -> Row]]]
         /\ writer'[c].at = place /\ writer'[c].row = writer[c].row
         /\ writer'[c].merged = writer[c].merged
         /\ \A d \in Command \ {c} : writer'[d] = writer[d]
BY DEF ReportTyped, Goes

LEMMA Ending ==
  ASSUME ReportTyped, NEW c \in Command, NEW how \in Places, Ends(c, how)
  PROVE  /\ writer' \in [Command -> [at : Places, row : Row, merged : [Command -> Row]]]
         /\ writer'[c].at = how /\ writer'[c].row = writer[c].row
         /\ \A d \in Command \ {c} : writer'[d] = writer[d]
<1>1. NoRows \in [Command -> Row]
  BY DEF NoRows, Row
<1> QED
  BY <1>1 DEF ReportTyped, Ends

(* A step of one command, met by no step of the other: the other is not      *)
(* under way before it or after it, and only the reports' words on it count. *)
LEMMA AloneStep ==
  ASSUME ReportInv, NEW c \in Command, Noted,
         \A d \in Command \ {c} : writer'[d] = writer[d],
         writer'[c].at \notin {"idle", "stopped", "refused", "exit_0", "exit_1"} \/ Ongoing(c),
         ~met /\ ~met' => Alone(c)' /\ \A d \in Command : Kept(d)'
  PROVE  OneWriter'
<1> SUFFICES ASSUME ~met' PROVE /\ \E d \in Command : ~Ongoing(d)'
                                /\ \A d \in Command : Alone(d)' /\ Kept(d)'
  BY DEF OneWriter
<1>1. ~met /\ ~(\A d \in Command : Ongoing(d)')
  BY DEF Noted
<1>2. \A d \in Command \ {c} : ~Ongoing(d)'
  <2> SUFFICES ASSUME NEW d \in Command \ {c} PROVE ~Ongoing(d)'
    OBVIOUS
  <2>1. \A e \in Command : e = c \/ e = d
    BY DEF Command
  <2>2. Ongoing(d)' <=> Ongoing(d)
    BY DEF Ongoing
  <2>3. Ongoing(c)' \/ Ongoing(c)
    BY DEF Ongoing
  <2> QED
    BY <1>1, <2>1, <2>2, <2>3 DEF ReportInv, OneWriter
<1>3. \A d \in Command \ {c} : Alone(d)'
  BY <1>2 DEF Alone, Ongoing
<1> QED
  BY <1>1, <1>3

LEMMA ArrivalStep ==
  ASSUME ReportInv, Begin \/ Arrive
  PROVE  ReportInv'
<1> DEFINE c == IF Begin THEN "mine" ELSE "other"
<1>1. /\ c \in Command /\ writer[c] = Idle /\ writer[c].at = "idle" /\ Noted
      /\ UNCHANGED <<vars, json, md>> /\ (c = "mine" \/ trace' = trace)
      /\ writer'[c].at \in {"trace", "read"} /\ writer'[c].row \in Row
      /\ writer' \in [Command -> [at : Places, row : Row, merged : [Command -> Row]]]
      /\ \A d \in Command \ {c} : writer'[d] = writer[d]
  BY DEF ReportInv, ReportTyped, Begin, Arrive, Command, Idle, Row, Places, files
<1>2. c = "mine" => /\ Begin /\ writer'[c].at = "trace" /\ Finished
                    /\ writer'[c].row =
                         IF result.score_is_meaningful THEN "scored" ELSE "unverified"
  BY <1>1 DEF ReportInv, ReportTyped, Begin, Finished, Command
<1> HIDE DEF c
<1>3. SessionInv' /\ Finished' = Finished /\ result' = result
  BY <1>1, SessionIsOver
<1>4. ReportTyped'
  BY <1>1 DEF ReportInv, ReportTyped, Noted
<1>5. Mine'
  <2>1. CASE c = "mine"
    BY <1>2, <1>3, <2>1 DEF Mine
  <2>2. CASE c # "mine"
    <3>1. writer'["mine"] = writer["mine"] /\ trace' = trace
      BY <1>1, <2>2 DEF Command
    <3> QED BY <1>3, <3>1 DEF ReportInv, Mine
  <2> QED BY <2>1, <2>2
<1>6. ~met => \A d \in Command : Kept(d)'
  BY <1>1 DEF ReportInv, OneWriter, Kept, Exited
<1>7. OneWriter'
  BY <1>1, <1>6, AloneStep DEF Alone
<1>8. Tidy'
  <2>1. met => met'
    BY <1>1 DEF Noted
  <2> QED BY <1>1, <2>1 DEF ReportInv, Tidy, Stopped
<1> QED
  BY <1>3, <1>4, <1>5, <1>7, <1>8 DEF ReportInv

LEMMA TraceStep ==
  ASSUME ReportInv, WriteTrace
  PROVE  ReportInv'
<1>1. /\ "mine" \in Command /\ "read" \in Places /\ writer["mine"].at = "trace"
      /\ trace' = "whole" /\ Goes("mine", "read") /\ Noted /\ UNCHANGED <<vars, json, md>>
  BY DEF WriteTrace, Command, Places
<1>2. /\ writer' \in [Command -> [at : Places, row : Row, merged : [Command -> Row]]]
      /\ writer'["mine"].at = "read" /\ writer'["mine"].row = writer["mine"].row
      /\ \A d \in Command \ {"mine"} : writer'[d] = writer[d]
  BY <1>1, Going_on DEF ReportInv
<1>3. SessionInv' /\ Finished' = Finished /\ result' = result
  BY <1>1, SessionIsOver
<1>4. ReportTyped' /\ (met => met')
  BY <1>1, <1>2 DEF ReportInv, ReportTyped, Noted
<1>5. Mine'
  BY <1>1, <1>2, <1>3 DEF ReportInv, Mine
<1>6. ~met => \A d \in Command : Kept(d)'
  BY <1>1, <1>2 DEF ReportInv, OneWriter, Kept, Exited
<1>7. OneWriter'
  BY <1>1, <1>2, <1>6, AloneStep DEF Alone
<1>8. Tidy'
  BY <1>1, <1>2, <1>4 DEF ReportInv, Tidy, Stopped
<1> QED
  BY <1>3, <1>4, <1>5, <1>7, <1>8 DEF ReportInv

(* A step of the update proper leaves the trace alone, and what this command *)
(* says of its session with it.                                              *)
LEMMA MineStays ==
  ASSUME ReportInv, NEW c \in Command, UNCHANGED <<vars, trace>>,
         writer[c].at \in {"read", "open", "json", "render", "md"} \/ writer'[c].at = "stopped",
         writer[c].at # "idle", writer'[c].at # "idle",
         writer'[c].row = writer[c].row,
         writer'[c].at = "exit_1" => writer[c].row = "unverified",
         writer'[c].at = "exit_0" => writer[c].row # "unverified",
         \A d \in Command \ {c} : writer'[d] = writer[d]
  PROVE  SessionInv' /\ Mine'
<1>1. SessionInv' /\ Finished' = Finished /\ result' = result
  BY SessionIsOver
<1>2. CASE c = "mine"
  BY <1>1, <1>2 DEF ReportInv, Mine
<1>3. CASE c # "mine"
  <2>1. writer'["mine"] = writer["mine"]
    BY <1>3 DEF Command
  <2> QED BY <1>1, <2>1 DEF ReportInv, Mine
<1> QED
  BY <1>1, <1>2, <1>3

LEMMA ReadStep ==
  ASSUME ReportInv, NEW c \in Command, ReadReport(c)
  PROVE  ReportInv'
<1>1. /\ writer[c].at = "read" /\ Noted /\ UNCHANGED <<vars, trace, json, md>> /\ Ongoing(c)
  BY DEF ReadReport, files, Ongoing
<1>2. /\ writer' \in [Command -> [at : Places, row : Row, merged : [Command -> Row]]]
      /\ writer'[c].row = writer[c].row
      /\ \A d \in Command \ {c} : writer'[d] = writer[d]
      /\ \/ /\ json.state \in {"absent", "whole"} /\ writer'[c].at = "open"
            /\ writer'[c].merged = Merged(writer[c].row, c, json.rows)
         \/ json.state \notin {"absent", "whole"} /\ writer'[c].at = "refused"
  <2>1. CASE json.state \in {"absent", "whole"}
    <3>1. Merged(writer[c].row, c, json.rows) \in [Command -> Row] /\ "open" \in Places
      BY DEF ReportInv, ReportTyped, Merged, Places
    <3>2. writer' = [writer EXCEPT ![c].at = "open",
                                   ![c].merged = Merged(writer[c].row, c, json.rows)]
      BY <2>1 DEF ReadReport
    <3> QED BY <2>1, <3>1, <3>2 DEF ReportInv, ReportTyped
  <2>2. CASE json.state \notin {"absent", "whole"}
    <3>1. Ends(c, "refused") /\ "refused" \in Places
      BY <2>2 DEF ReadReport, Places
    <3> QED BY <2>2, <3>1, Ending DEF ReportInv
  <2> QED BY <2>1, <2>2
<1>3. ReportTyped' /\ (met => met')
  BY <1>1, <1>2 DEF ReportInv, ReportTyped, Noted
<1>4. SessionInv' /\ Mine'
  BY <1>1, <1>2, MineStays
<1>5. ~met => \A d \in Command : Kept(d)'
  <2>1. ASSUME ~met, NEW d \in Command PROVE Kept(d)'
    <3>1. Exited(d)' => Exited(d) /\ writer'[d].row = writer[d].row
      BY <1>1, <1>2 DEF Exited
    <3> QED BY <1>1, <2>1, <3>1 DEF ReportInv, OneWriter, Kept
  <2> QED BY <2>1
<1>6. ~met => Alone(c)'
  <2> SUFFICES ASSUME ~met, writer'[c].at = "open" PROVE Alone(c)'
    BY <1>2 DEF Alone
  <2>1. /\ writer'[c].merged = [json.rows EXCEPT ![c] = writer[c].row]
        /\ json.state \in {"absent", "whole"} /\ json.rows \in [Command -> Row]
    BY <1>2 DEF Merged, ReportInv, ReportTyped
  <2>2. ASSUME NEW d \in Command, Exited(d)' PROVE writer'[c].merged[d] = writer'[d].row
    <3>1. d # c /\ Exited(d) /\ writer'[d].row = writer[d].row
      BY <1>1, <1>2, <2>2 DEF Exited
    <3> QED BY <2>1, <3>1 DEF ReportInv, OneWriter, Kept
  <2> QED BY <1>1, <1>2, <2>1, <2>2 DEF Alone
<1>7. OneWriter'
  BY <1>1, <1>2, <1>5, <1>6, AloneStep
<1>8. Tidy'
  <2> SUFFICES ASSUME ~met', ~Stopped' PROVE
        /\ \A d \in Command : writer'[d].at # "refused"
        /\ json'.state \in {"absent", "whole"}
        /\ md' = File(json'.state, Rendered(json'.rows))
    BY DEF Tidy
  <2>1. ~met /\ ~Stopped
    BY <1>1, <1>2, <1>3 DEF Stopped
  <2>2. \A d \in Command : writer[d].at \notin {"json", "render", "md"}
    <3>1. PICK e \in Command : ~Ongoing(e)
      BY <2>1 DEF ReportInv, OneWriter
    <3>2. \A d \in Command : d = c \/ d = e
      BY <1>1, <3>1 DEF Command
    <3> QED BY <1>1, <3>1, <3>2 DEF Ongoing
  <2> QED BY <1>1, <1>2, <2>1, <2>2 DEF ReportInv, Tidy
<1> QED
  BY <1>3, <1>4, <1>7, <1>8 DEF ReportInv

(* A report is opened, and what it held is gone.                             *)
LEMMA OpenStep ==
  ASSUME ReportInv, NEW c \in Command, OpenJson(c) \/ OpenMd(c)
  PROVE  ReportInv'
<1>1. /\ Noted /\ Ongoing(c) /\ UNCHANGED <<vars, trace>>
      /\ \/ /\ writer[c].at = "open" /\ json' = Blank /\ md' = md /\ Goes(c, "json")
         \/ /\ writer[c].at = "render" /\ md' = Blank /\ json' = json /\ Goes(c, "md")
  BY DEF OpenJson, OpenMd, Ongoing
<1>2. /\ writer' \in [Command -> [at : Places, row : Row, merged : [Command -> Row]]]
      /\ writer'[c].row = writer[c].row /\ writer'[c].merged = writer[c].merged
      /\ writer'[c].at = IF writer[c].at = "open" THEN "json" ELSE "md"
      /\ \A d \in Command \ {c} : writer'[d] = writer[d]
  BY <1>1, Going_on DEF ReportInv, Places
<1>3. /\ Blank.state = "blank" /\ Blank \in [state : FileStates, rows : [Command -> Row]]
      /\ Blank \in [state : FileStates, rows : [Command -> {"none", "INVALID", "score"}]]
  BY DEF Blank, File, NoRows, Row, FileStates
<1>4. ReportTyped' /\ (met => met')
  BY <1>1, <1>2, <1>3 DEF ReportInv, ReportTyped, Noted
<1>5. SessionInv' /\ Mine'
  BY <1>1, <1>2, MineStays
<1>6. ASSUME ~met, NEW d \in Command, Exited(d)'
      PROVE  d # c /\ Exited(d) /\ writer'[d] = writer[d]
  BY <1>1, <1>2, <1>6 DEF Exited
<1>7. ~met => \A d \in Command : Kept(d)'
  BY <1>1, <1>3, <1>6 DEF ReportInv, OneWriter, Kept
<1>8. ~met => Alone(c)'
  BY <1>1, <1>2, <1>6 DEF ReportInv, OneWriter, Alone
<1>9. OneWriter'
  BY <1>1, <1>2, <1>7, <1>8, AloneStep
<1>10. Tidy'
  BY <1>1, <1>2, <1>4 DEF ReportInv, Tidy, Stopped
<1> QED
  BY <1>4, <1>5, <1>9, <1>10 DEF ReportInv

LEMMA JsonStep ==
  ASSUME ReportInv, NEW c \in Command, WriteJson(c)
  PROVE  ReportInv'
<1>1. /\ Noted /\ Ongoing(c) /\ UNCHANGED <<vars, trace, md>> /\ writer[c].at = "json"
      /\ Goes(c, "render") /\ json' \in Written(writer[c].merged, json)
  BY DEF WriteJson, Ongoing
<1>2. /\ writer' \in [Command -> [at : Places, row : Row, merged : [Command -> Row]]]
      /\ writer'[c].row = writer[c].row /\ writer'[c].merged = writer[c].merged
      /\ writer'[c].at = "render"
      /\ \A d \in Command \ {c} : writer'[d] = writer[d]
  BY <1>1, Going_on DEF ReportInv, Places
<1>3. /\ json' \in [state : FileStates, rows : [Command -> Row]]
      /\ json = Blank => json' = File("whole", writer[c].merged)
  BY <1>1 DEF ReportInv, ReportTyped, Written, File, Blank, NoRows, Row, FileStates
<1>4. ReportTyped' /\ (met => met')
  BY <1>1, <1>2, <1>3 DEF ReportInv, ReportTyped, Noted
<1>5. SessionInv' /\ Mine'
  BY <1>1, <1>2, MineStays
<1>6. ASSUME ~met
      PROVE  /\ json' = File("whole", writer[c].merged) /\ json'.state = "whole"
             /\ json'.rows = writer[c].merged /\ writer[c].merged[c] = writer[c].row
             /\ \A d \in Command : Exited(d) => writer[c].merged[d] = writer[d].row
  BY <1>1, <1>3, <1>6 DEF ReportInv, OneWriter, Alone, File
<1>7. ASSUME ~met, NEW d \in Command, Exited(d)'
      PROVE  d # c /\ Exited(d) /\ writer'[d] = writer[d]
  BY <1>1, <1>2, <1>7 DEF Exited
<1>8. ~met => \A d \in Command : Kept(d)'
  BY <1>1, <1>6, <1>7 DEF ReportInv, OneWriter, Kept
<1>9. ~met => Alone(c)'
  BY <1>1, <1>2, <1>6, <1>7 DEF Alone
<1>10. OneWriter'
  BY <1>1, <1>2, <1>8, <1>9, AloneStep
<1>11. Tidy'
  BY <1>1, <1>2, <1>4 DEF ReportInv, Tidy, Stopped
<1> QED
  BY <1>4, <1>5, <1>10, <1>11 DEF ReportInv

LEMMA MdStep ==
  ASSUME ReportInv, NEW c \in Command, WriteMd(c)
  PROVE  ReportInv'
<1> DEFINE how    == IF writer[c].row = "unverified" THEN "exit_1" ELSE "exit_0"
           merged == writer[c].merged
<1>1. /\ Noted /\ Ongoing(c) /\ UNCHANGED <<vars, trace, json>> /\ writer[c].at = "md"
      /\ Ends(c, how) /\ md' \in Written(Rendered(merged), md)
  BY DEF WriteMd, Ongoing
<1>2. /\ writer' \in [Command -> [at : Places, row : Row, merged : [Command -> Row]]]
      /\ writer'[c].row = writer[c].row /\ writer'[c].at = how
      /\ \A d \in Command \ {c} : writer'[d] = writer[d]
  BY <1>1, Ending DEF ReportInv, Places
<1>3. Rendered(merged) \in [Command -> {"none", "INVALID", "score"}]
  BY DEF Rendered, Shown
<1>4. /\ md' \in [state : FileStates, rows : [Command -> {"none", "INVALID", "score"}]]
      /\ md = Blank => md' = File("whole", Rendered(merged))
  BY <1>1, <1>3 DEF Written, File, Blank, NoRows, FileStates
<1>5. ReportTyped' /\ (met => met')
  BY <1>1, <1>2, <1>4 DEF ReportInv, ReportTyped, Noted
<1>6. SessionInv' /\ Mine'
  BY <1>1, <1>2, MineStays
<1>7. ASSUME ~met
      PROVE  /\ json = File("whole", merged) /\ json.state = "whole" /\ json.rows = merged
             /\ md' = File("whole", Rendered(merged)) /\ md'.state = "whole"
             /\ \A d \in Command : md'.rows[d] = Shown(merged[d])
             /\ merged[c] = writer[c].row
             /\ \A d \in Command : Exited(d) => merged[d] = writer[d].row
  BY <1>1, <1>4, <1>7 DEF ReportInv, OneWriter, Alone, File, Rendered
<1>8. \A d \in Command \ {c} : Exited(d)' => Exited(d)
  BY <1>2 DEF Exited
<1>9. ~met => \A d \in Command : Kept(d)'
  BY <1>1, <1>2, <1>7, <1>8 DEF Kept
<1>10. ~met => Alone(c)'
  BY <1>2 DEF Alone
<1>11. OneWriter'
  BY <1>1, <1>2, <1>9, <1>10, AloneStep
<1>12. Tidy'
  <2> SUFFICES ASSUME ~met', ~Stopped' PROVE
        /\ \A d \in Command : writer'[d].at # "refused"
        /\ json'.state \in {"absent", "whole"}
        /\ md' = File(json'.state, Rendered(json'.rows))
    BY DEF Tidy
  <2>1. ~met /\ ~Stopped
    BY <1>1, <1>2, <1>5 DEF Stopped
  <2>2. \A d \in Command : writer'[d].at # "refused"
    BY <1>2, <2>1 DEF ReportInv, Tidy
  <2> QED BY <1>1, <1>7, <2>1, <2>2
<1> QED
  BY <1>5, <1>6, <1>11, <1>12 DEF ReportInv

LEMMA StopStep ==
  ASSUME ReportInv, NEW c \in Command, Stop(c)
  PROVE  ReportInv'
<1>1. /\ Noted /\ Ongoing(c) /\ UNCHANGED <<vars, trace, json, md>> /\ Ends(c, "stopped")
  BY DEF Stop, files
<1>2. /\ writer' \in [Command -> [at : Places, row : Row, merged : [Command -> Row]]]
      /\ writer'[c].row = writer[c].row /\ writer'[c].at = "stopped"
      /\ \A d \in Command \ {c} : writer'[d] = writer[d]
  BY <1>1, Ending DEF ReportInv, Places
<1>3. ReportTyped'
  BY <1>1, <1>2 DEF ReportInv, ReportTyped, Noted
<1>4. SessionInv' /\ Mine'
  BY <1>1, <1>2, MineStays DEF Ongoing
<1>5. \A d \in Command : Exited(d)' => Exited(d) /\ writer'[d] = writer[d]
  BY <1>2 DEF Exited
<1>6. ~met => Alone(c)' /\ \A d \in Command : Kept(d)'
  BY <1>1, <1>2, <1>5 DEF ReportInv, OneWriter, Kept, Alone
<1>7. OneWriter'
  BY <1>1, <1>2, <1>6, AloneStep
<1>8. Tidy'
  BY <1>2 DEF Tidy, Stopped
<1> QED
  BY <1>3, <1>4, <1>7, <1>8 DEF ReportInv

LEMMA ReportSteps ==
  ASSUME ReportInv, [ReportNext]_all_vars
  PROVE  ReportInv'
<1>1. CASE UNCHANGED all_vars
  <2>1. UNCHANGED <<vars, trace, json, md, writer, met>>
    BY <1>1 DEF all_vars, report_vars
  <2>2. SessionInv' /\ Finished' = Finished /\ result' = result
    BY <2>1, SessionIsOver
  <2>3. Mine' /\ ReportTyped'
    BY <2>1, <2>2 DEF ReportInv, Mine, ReportTyped
  <2>4. OneWriter' /\ Tidy'
    BY <2>1 DEF ReportInv, OneWriter, Tidy, Alone, Kept, Exited, Ongoing, Stopped
  <2> QED
    BY <2>2, <2>3, <2>4 DEF ReportInv
<1> QED
  BY <1>1, SessionKeepsReports, ArrivalStep, TraceStep, ReadStep, OpenStep, JsonStep, MdStep,
     StopStep DEF ReportNext

(* Whatever the session did, and wherever either command stops.              *)
THEOREM Reports == ReportSpec => []ReportInv
BY ReportStarts, ReportSteps, PTL DEF ReportSpec

(* A row, once its command has exited, stays: unless two commands met or one *)
(* was stopped, the reports are whole, agree, and hold every such row        *)
(* (run_session.py:219-228, 258-261).                                        *)
THEOREM RowsAreKept == ReportSpec => []ReportKeepsRows
BY Reports, ReportKept, PTL

(* The exit status and the readable report call a score unverified exactly   *)
(* when every turn was blocked, and a row shown has its trace on disk        *)
(* (run_session.py:174-179, 240-246, 291-303).                               *)
THEOREM BlockedIsMarked == ReportSpec => []BlockedScoresAreMarked
BY Reports, BlockedMarked, PTL
===============================================================================
