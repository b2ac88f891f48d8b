-------------------------- MODULE ChainedLogProofs --------------------------
(***************************************************************************)
(* Theorems about ChainedLog, for any number of processes, events and      *)
(* payloads, any digest function (one theorem supposes that its digests do *)
(* not collide), and any log from before chaining.                         *)
(***************************************************************************)
EXTENDS ChainedLog, WellFoundedInduction, TLAPS

-----------------------------------------------------------------------------
(* Positions. *)

(* A set of positions that is bounded and not empty has a last one. *)
LEMMA LastPosition ==
  ASSUME NEW n \in Nat, NEW S \in SUBSET (1 .. n), S # {}
  PROVE  \E j \in S : \A k \in S : k <= j
<1> DEFINE T == {n - k : k \in S}
<1>1. T \subseteq Nat /\ T # {}
  <2>1. \A k \in S : k \in 1 .. n
    OBVIOUS
  <2>2. \A k \in S : n - k \in Nat
    BY <2>1
  <2> QED BY <2>2
<1>2. \E x \in T : \A y \in T : ~(<<y, x>> \in OpToRel(<, Nat))
  BY <1>1, NatLessThanWellFounded, WFMin
<1>3. PICK x \in T : \A y \in T : ~(y < x)
  BY <1>1, <1>2 DEF OpToRel
<1>4. PICK j \in S : x = n - j
  BY <1>3
<1>5. ASSUME NEW k \in S PROVE k <= j
  <2>1. n - k \in T
    OBVIOUS
  <2> QED BY <2>1, <1>3, <1>4
<1> QED BY <1>5

(* What LastBefore returns. *)
LEMMA LastBeforeProperties ==
  ASSUME NEW ls \in Seq(Lines), NEW i \in 1 .. (Len(ls) + 1)
  PROVE  /\ LastBefore(ls, i) \in 0 .. (i - 1)
         /\ LastBefore(ls, i) # 0 => ls[LastBefore(ls, i)].kind # "blank"
         /\ \A k \in (LastBefore(ls, i) + 1) .. (i - 1) : ls[k].kind = "blank"
<1> DEFINE S == {j \in 1 .. (i - 1) : ls[j].kind # "blank"}
<1>1. CASE S = {}
  <2>1. LastBefore(ls, i) = 0
    BY <1>1 DEF LastBefore
  <2> QED BY <1>1, <2>1
<1>2. CASE S # {}
  <2>1. \E j \in S : \A k \in S : k <= j
    <3>1. i - 1 \in Nat /\ S \in SUBSET (1 .. (i - 1))
      OBVIOUS
    <3> HIDE DEF S
    <3> QED BY <1>2, <3>1, LastPosition
  <2>2. \E j \in 1 .. (i - 1) :
          /\ ls[j].kind # "blank"
          /\ \A k \in (j + 1) .. (i - 1) : ls[k].kind = "blank"
    BY <2>1
  <2>3. /\ LastBefore(ls, i) \in 1 .. (i - 1)
        /\ ls[LastBefore(ls, i)].kind # "blank"
        /\ \A k \in (LastBefore(ls, i) + 1) .. (i - 1) : ls[k].kind = "blank"
    BY <1>2, <2>2 DEF LastBefore
  <2> QED BY <2>3
<1> QED BY <1>1, <1>2

(* Adding lines at the end leaves what precedes a position as it was. *)
LEMMA LastBeforeStable ==
  ASSUME NEW ls \in Seq(Lines), NEW x \in Lines, NEW i \in 1 .. (Len(ls) + 1)
  PROVE  /\ LastBefore(Append(ls, x), i) = LastBefore(ls, i)
         /\ LinkAt(Append(ls, x), i) = LinkAt(ls, i)
<1> DEFINE new == Append(ls, x)
<1>1. /\ new \in Seq(Lines) /\ Len(new) = Len(ls) + 1
      /\ \A j \in 1 .. Len(ls) : new[j] = ls[j]
  OBVIOUS
<1>2. LastBefore(new, i) = LastBefore(ls, i)
  <2> DEFINE a == LastBefore(new, i)
             b == LastBefore(ls, i)
  <2>1. /\ a \in 0 .. (i - 1)
        /\ a # 0 => new[a].kind # "blank"
        /\ \A k \in (a + 1) .. (i - 1) : new[k].kind = "blank"
    <3>1. i \in 1 .. (Len(new) + 1)
      BY <1>1
    <3> HIDE DEF new
    <3> QED BY <1>1, <3>1, LastBeforeProperties
  <2>2. /\ b \in 0 .. (i - 1)
        /\ b # 0 => ls[b].kind # "blank"
        /\ \A k \in (b + 1) .. (i - 1) : ls[k].kind = "blank"
    BY LastBeforeProperties
  <2> HIDE DEF a, b, new
  <2>3. ~(a < b)
    BY <2>1, <2>2, <1>1
  <2>4. ~(b < a)
    BY <2>1, <2>2, <1>1
  <2> QED BY <2>1, <2>2, <2>3, <2>4 DEF a, b, new
<1>3. LastBefore(ls, i) \in 0 .. Len(ls)
  BY LastBeforeProperties
<1> HIDE DEF new
<1>4. LinkAt(new, i) = LinkAt(ls, i)
  BY <1>1, <1>2, <1>3 DEF LinkAt
<1> QED BY <1>2, <1>4 DEF new

-----------------------------------------------------------------------------
(* Types, the lock, the entries under way. *)

LEMMA LinkTyped ==
  ASSUME NEW ls \in Seq(Lines), NEW i \in 1 .. (Len(ls) + 1)
  PROVE  LinkAt(ls, i) \in Hash
<1>1. LastBefore(ls, i) \in 0 .. Len(ls)
  BY LastBeforeProperties
<1>2. ASSUME NEW j \in 1 .. Len(ls), ls[j].kind = "row"
      PROVE  ls[j].current_hash \in Hash
  <2>1. ls[j] \in Lines
    OBVIOUS
  <2> QED BY <1>2, <2>1 DEF Lines, Rows, Legacy, Blank, Torn, Joined
<1> QED BY <1>1, <1>2, ChainAssumption DEF LinkAt

LEMMA RowTyped ==
  ASSUME TypeOK, NEW p \in Proc, entry[p] \in Entries
  PROVE  RowOf(p) \in Rows
BY ChainAssumption DEF TypeOK, RowOf, Rows, Entries

(* The file, its holders and every process stay in their types, and an      *)
(* append under way has an entry without the reserved key.                  *)
Typed == TypeOK /\ EntriesWellFormed

THEOREM Typing == Spec => []Typed
<1>1. Init => Typed
  <2> SUFFICES ASSUME Init PROVE Typed
    OBVIOUS
  <2>1. lines \in Seq(Lines)
    <3>1. PICK n \in 0 .. MaxOldLines : lines \in [1 .. n -> {Legacy, Blank}]
      BY DEF Init, OldLogs
    <3> QED BY <3>1, ChainAssumption DEF Lines
  <2> QED BY <2>1, ChainAssumption DEF Init, Typed, TypeOK, EntriesWellFormed, Busy
<1>2. Typed /\ [Next]_vars => Typed'
  <2> SUFFICES ASSUME Typed, [Next]_vars PROVE Typed'
    OBVIOUS
  <2> USE DEF Typed, TypeOK, EntriesWellFormed, Busy
  <2>1. ASSUME NEW p \in Proc, AppendCall(p) PROVE Typed'
    <3>1. PICK d \in Payload \ Reserved, e \in EventId :
            entry' = [entry EXCEPT ![p] = [id |-> e, payload |-> d]]
      BY <2>1 DEF AppendCall
    <3>2. [id |-> e, payload |-> d] \in Entries
      BY DEF Entries
    <3> QED BY <2>1, <3>1, <3>2, NoneAssumption DEF AppendCall, file, locks
  <2>2. ASSUME NEW p \in Proc, AcquireEX(p) PROVE Typed'
    BY <2>2 DEF AcquireEX, file
  <2>3. ASSUME NEW p \in Proc, ReadTail(p) PROVE Typed'
    <3>1. Contents \in Seq(Lines)
      BY DEF Contents
    <3>2. _tail_hash(Contents) \in Hash
      BY <3>1, LinkTyped DEF _tail_hash
    <3> QED BY <2>3, <3>2 DEF ReadTail, file, locks
  <2>4. ASSUME NEW p \in Proc, WriteHead(p) PROVE Typed'
    <3>1. Torn \in Lines /\ Joined \in Lines
      BY DEF Lines
    <3> QED BY <2>4, <3>1 DEF WriteHead, locks
  <2>5. ASSUME NEW p \in Proc, Flush(p) PROVE Typed'
    <3>1. RowOf(p) \in Lines /\ Joined \in Lines
      BY <2>5, RowTyped DEF Flush, Lines
    <3> QED BY <2>5, <3>1 DEF Flush, locks
  <2>6. ASSUME NEW p \in Proc, Unlock(p) PROVE Typed'
    <3>1. pc[p] = "flushed" => entry[p].id \in EventId
      BY DEF Entries
    <3> QED BY <2>6, <3>1, ChainAssumption DEF Unlock, Return, file
  <2>7. ASSUME NEW p \in Proc, Fault(p) PROVE Typed'
    BY <2>7, ChainAssumption DEF Fault, Return, file
  <2>8. ASSUME NEW p \in Proc, LoseNewline(p) PROVE Typed'
    <3>1. RowOf(p) \in Lines
      BY <2>8, RowTyped DEF LoseNewline, Lines
    <3> QED BY <2>8, <3>1, ChainAssumption DEF LoseNewline, Return
  <2>9. ASSUME NEW p \in Proc, AcquireSH(p) PROVE Typed'
    BY <2>9 DEF AcquireSH, file
  <2>10. ASSUME NEW p \in Proc, ReadAll(p) PROVE Typed'
    BY <2>10 DEF ReadAll, Raises, file
  <2>11. ASSUME NEW p \in Proc, Replay(p) PROVE Typed'
    BY <2>11 DEF Replay, Raises, file, locks
  <2>12. CASE UNCHANGED vars
    BY <2>12 DEF vars
  <2> QED
    BY <2>1, <2>2, <2>3, <2>4, <2>5, <2>6, <2>7, <2>8, <2>9, <2>10, <2>11, <2>12
    DEF Next
<1> QED BY <1>1, <1>2, PTL DEF Spec

(* The two locks exclude each other, whoever stops and whenever. *)
THEOREM Locking == Spec => []LockDiscipline
<1>1. Init => LockDiscipline
  BY ChainAssumption DEF Init, LockDiscipline, Holding
<1>2. TypeOK /\ LockDiscipline /\ [Next]_vars => LockDiscipline'
  <2> SUFFICES ASSUME TypeOK, LockDiscipline, [Next]_vars PROVE LockDiscipline'
    OBVIOUS
  <2> USE ChainAssumption DEF TypeOK, LockDiscipline, Holding
  <2>1. ASSUME NEW p \in Proc, AppendCall(p) PROVE LockDiscipline'
    BY <2>1 DEF AppendCall, locks
  <2>2. ASSUME NEW p \in Proc, AcquireEX(p) PROVE LockDiscipline'
    BY <2>2 DEF AcquireEX, locks
  <2>3. ASSUME NEW p \in Proc, ReadTail(p) PROVE LockDiscipline'
    BY <2>3 DEF ReadTail, locks
  <2>4. ASSUME NEW p \in Proc, WriteHead(p) PROVE LockDiscipline'
    BY <2>4 DEF WriteHead, locks
  <2>5. ASSUME NEW p \in Proc, Flush(p) PROVE LockDiscipline'
    BY <2>5 DEF Flush, locks
  <2>6. ASSUME NEW p \in Proc, Unlock(p) PROVE LockDiscipline'
    BY <2>6 DEF Unlock, Return, Busy, locks
  <2>7. ASSUME NEW p \in Proc, Fault(p) PROVE LockDiscipline'
    BY <2>7 DEF Fault, Return, Busy, locks
  <2>8. ASSUME NEW p \in Proc, LoseNewline(p) PROVE LockDiscipline'
    BY <2>8 DEF LoseNewline, Return, Busy, locks
  <2>9. ASSUME NEW p \in Proc, AcquireSH(p) PROVE LockDiscipline'
    BY <2>9 DEF AcquireSH, locks
  <2>10. ASSUME NEW p \in Proc, ReadAll(p) PROVE LockDiscipline'
    BY <2>10 DEF ReadAll, locks
  <2>11. ASSUME NEW p \in Proc, Replay(p) PROVE LockDiscipline'
    BY <2>11 DEF Replay, locks
  <2>12. CASE UNCHANGED vars
    BY <2>12 DEF vars
  <2> QED
    BY <2>1, <2>2, <2>3, <2>4, <2>5, <2>6, <2>7, <2>8, <2>9, <2>10, <2>11, <2>12
    DEF Next
<1> QED BY <1>1, <1>2, Typing, PTL DEF Spec, Typed

-----------------------------------------------------------------------------
(* The chain. *)

(* Steps that leave the file, the links and the places of the writers as    *)
(* they are leave the chain and the links sound.                            *)
Sound == LinkIsTail /\ Linked

LEMMA QuietStep ==
  ASSUME TypeOK, TypeOK', Sound, UNCHANGED <<lines, partial>>,
         \A p \in Proc : pc'[p] \in {"linked", "writing"} =>
                          pc'[p] = pc[p] /\ link'[p] = link[p]
  PROVE  Sound'
BY DEF Sound, LinkIsTail, Linked, Contents, _tail_hash, TailParses

(* Appending a line keeps every link before it; only the new line is to be  *)
(* checked.                                                                 *)
LEMMA LinkedAppend ==
  ASSUME lines \in Seq(Lines), Linked, NEW x \in Lines, lines' = Append(lines, x),
         x.kind = "row" => /\ x.previous_hash = _tail_hash(lines)
                           /\ x.current_hash = Digest(x.id, x.payload, x.previous_hash)
  PROVE  Linked'
<1> SUFFICES ASSUME NEW i \in DOMAIN lines', lines'[i].kind = "row"
             PROVE  /\ lines'[i].previous_hash = LinkAt(lines', i)
                    /\ lines'[i].current_hash =
                         Digest(lines'[i].id, lines'[i].payload, lines'[i].previous_hash)
  BY DEF Linked
<1>1. /\ i \in 1 .. (Len(lines) + 1)
      /\ LinkAt(lines', i) = LinkAt(lines, i)
  BY LastBeforeStable
<1>2. CASE i = Len(lines) + 1
  <2>1. lines'[i] = x
    BY <1>2
  <2> QED BY <1>1, <1>2, <2>1 DEF _tail_hash
<1>3. CASE i \in 1 .. Len(lines)
  <2>1. lines'[i] = lines[i]
    BY <1>3
  <2> QED BY <1>1, <1>3, <2>1 DEF Linked
<1> QED BY <1>1, <1>2, <1>3

(* Every row ever written, and every link a writer has read, is sound.       *)
THEOREM SoundChain == Spec => []Sound
<1>1. Init => Sound
  <2> SUFFICES ASSUME Init PROVE Sound
    OBVIOUS
  <2>1. PICK n \in 0 .. MaxOldLines : lines \in [1 .. n -> {Legacy, Blank}]
    BY DEF Init, OldLogs
  <2>2. Linked
    BY <2>1 DEF Linked, Legacy, Blank
  <2> QED BY <2>2 DEF Init, Sound, LinkIsTail
<1>2. Typed /\ Typed' /\ LockDiscipline /\ Sound /\ [Next]_vars => Sound'
  <2> SUFFICES ASSUME Typed, Typed', LockDiscipline, Sound, [Next]_vars PROVE Sound'
    OBVIOUS
  <2>0. TypeOK /\ TypeOK' /\ EntriesWellFormed
    BY DEF Typed
  <2> DEFINE Quiet == /\ UNCHANGED <<lines, partial>>
                      /\ \A q \in Proc : pc'[q] \in {"linked", "writing"} =>
                                          pc'[q] = pc[q] /\ link'[q] = link[q]
  <2>1. ASSUME NEW p \in Proc, AppendCall(p) PROVE Quiet
    BY <2>0, <2>1 DEF AppendCall, TypeOK, file
  <2>2. ASSUME NEW p \in Proc, AcquireEX(p) PROVE Quiet
    BY <2>0, <2>2 DEF AcquireEX, TypeOK, file
  <2>3. ASSUME NEW p \in Proc, ReadTail(p) PROVE Sound'
    <3>1. /\ UNCHANGED <<lines, partial>>
          /\ \A q \in Proc \ {p} : pc'[q] = pc[q] /\ link'[q] = link[q]
          /\ pc'[p] = "linked" => TailParses(Contents) /\ link'[p] = _tail_hash(Contents)
          /\ pc'[p] # "writing"
      BY <2>0, <2>3 DEF ReadTail, TypeOK, file
    <3> QED
      BY <3>1 DEF Sound, LinkIsTail, Linked, Contents, _tail_hash, TailParses
  <2>4. ASSUME NEW p \in Proc, WriteHead(p) PROVE Sound'
    <3>1. UNCHANGED lines /\ pc[p] = "linked" /\ partial' \in {Torn, Joined}
      BY <2>4 DEF WriteHead
    <3>2. \A q \in Proc \ {p} : pc'[q] = pc[q] /\ ~Holding(q)
      BY <2>0, <2>4 DEF WriteHead, TypeOK, LockDiscipline, Holding
    <3>3. pc'[p] = "writing" /\ link'[p] = link[p]
      BY <2>0, <2>4 DEF WriteHead, TypeOK
    <3>4. partial' = Torn => TailParses(lines) /\ link[p] = _tail_hash(lines)
      BY <2>4, <3>1 DEF WriteHead, Sound, LinkIsTail, Contents, Torn, Joined
    <3> QED
      BY <3>1, <3>2, <3>3, <3>4
      DEF Sound, LinkIsTail, Linked, Holding, _tail_hash, TailParses
  <2>5. ASSUME NEW p \in Proc, Flush(p) PROVE Sound'
    <3>1. \A q \in Proc : pc'[q] \notin {"linked", "writing"}
      BY <2>0, <2>5 DEF Flush, TypeOK, LockDiscipline, Holding
    <3>2. PICK x \in Lines : /\ lines' = Append(lines, x)
                             /\ x = IF partial = Torn THEN RowOf(p) ELSE Joined
      <4>1. RowOf(p) \in Lines /\ Joined \in Lines
        <5>1. entry[p] \in Entries
          BY <2>0, <2>5 DEF Flush, TypeOK, EntriesWellFormed, Busy
        <5> QED BY <2>0, <5>1, RowTyped DEF Lines
      <4> QED BY <2>5, <4>1 DEF Flush
    <3>3. x.kind = "row" => /\ partial = Torn /\ x = RowOf(p)
                            /\ link[p] = _tail_hash(lines)
      BY <2>5, <3>2 DEF Joined, Torn, Sound, LinkIsTail, Flush
    <3>4. x.kind = "row" => /\ x.previous_hash = _tail_hash(lines)
                            /\ x.current_hash = Digest(x.id, x.payload, x.previous_hash)
      <4>1. Strip(entry[p].payload) = entry[p].payload
        <5>1. entry[p] \in Entries /\ entry[p].payload \notin Reserved
          BY <2>0, <2>5 DEF Flush, TypeOK, EntriesWellFormed, Busy
        <5> QED BY <5>1, ChainAssumption DEF Entries
      <4> QED BY <3>3, <4>1 DEF RowOf
    <3>5. Linked'
      BY <2>0, <3>2, <3>4, LinkedAppend DEF TypeOK, Sound
    <3> QED BY <3>1, <3>5 DEF Sound, LinkIsTail
  <2>6. ASSUME NEW p \in Proc, Unlock(p) PROVE Quiet
    BY <2>0, <2>6 DEF Unlock, Return, TypeOK, file
  <2>7. ASSUME NEW p \in Proc, Fault(p) PROVE Quiet
    BY <2>0, <2>7 DEF Fault, Return, TypeOK, file
  <2>8. ASSUME NEW p \in Proc, LoseNewline(p) PROVE Sound'
    <3>1. \A q \in Proc : pc'[q] \notin {"linked", "writing"}
      BY <2>0, <2>8 DEF LoseNewline, Return, TypeOK, LockDiscipline, Holding
    <3> QED BY <2>8, <3>1 DEF LoseNewline, Sound, LinkIsTail, Linked
  <2>9. ASSUME NEW p \in Proc, AcquireSH(p) PROVE Quiet
    BY <2>0, <2>9 DEF AcquireSH, TypeOK, file
  <2>10. ASSUME NEW p \in Proc, ReadAll(p) PROVE Quiet
    BY <2>0, <2>10 DEF ReadAll, TypeOK, file
  <2>11. ASSUME NEW p \in Proc, Replay(p) PROVE Quiet
    BY <2>0, <2>11 DEF Replay, TypeOK, file
  <2>12. CASE UNCHANGED vars
    <3>1. Quiet
      BY <2>12 DEF vars
    <3> QED BY <2>0, <3>1, QuietStep
  <2> QED
    BY <2>0, <2>1, <2>2, <2>3, <2>4, <2>5, <2>6, <2>7, <2>8, <2>9, <2>10, <2>11,
       <2>12, QuietStep
    DEF Next
<1> QED BY <1>1, <1>2, Typing, Locking, PTL DEF Spec

(* The chain never forks: every row ever written links to the row before    *)
(* it, for any number of processes, under any interleaving and any fault.   *)
THEOREM ChainNeverForks == Spec => []Linked
<1>1. Sound => Linked
  BY DEF Sound
<1> QED BY <1>1, SoundChain, PTL

-----------------------------------------------------------------------------
(* What can be in the file.                                                  *)

(* A half-written row is never terminated, and the piece after the lines is  *)
(* one, or what a lost newline left.                                         *)
Shape ==
  /\ \A i \in DOMAIN lines : lines[i].kind # "torn"
  /\ partial \in Rows \cup {Torn, Joined, None}

LEMMA ShapeHolds == Spec => []Shape
<1>1. Init => Shape
  <2> SUFFICES ASSUME Init PROVE Shape
    OBVIOUS
  <2>1. PICK n \in 0 .. MaxOldLines : lines \in [1 .. n -> {Legacy, Blank}]
    BY DEF Init, OldLogs
  <2> QED BY <2>1 DEF Init, Shape, Legacy, Blank
<1>2. Typed /\ Shape /\ [Next]_vars => Shape'
  <2> SUFFICES ASSUME Typed, Shape, [Next]_vars PROVE Shape'
    OBVIOUS
  <2>0. TypeOK /\ EntriesWellFormed
    BY DEF Typed
  <2>1. ASSUME NEW p \in Proc, WriteHead(p) PROVE Shape'
    BY <2>1 DEF WriteHead, Shape
  <2>2. ASSUME NEW p \in Proc, Flush(p) PROVE Shape'
    <3>1. PICK x : lines' = Append(lines, x) /\ x.kind # "torn"
      BY <2>2 DEF Flush, RowOf, Joined
    <3>2. partial' = None /\ lines \in Seq(Lines)
      BY <2>0, <2>2 DEF Flush, TypeOK
    <3> QED BY <3>1, <3>2 DEF Shape
  <2>3. ASSUME NEW p \in Proc, LoseNewline(p) PROVE Shape'
    <3>1. entry[p] \in Entries
      BY <2>0, <2>3 DEF LoseNewline, TypeOK, EntriesWellFormed, Busy
    <3> QED BY <2>0, <2>3, <3>1, RowTyped DEF LoseNewline, Shape
  <2>4. ASSUME UNCHANGED <<lines, partial>> PROVE Shape'
    BY <2>4 DEF Shape
  <2> QED
    BY <2>1, <2>2, <2>3, <2>4
    DEF Next, vars, AppendCall, AcquireEX, ReadTail, Unlock, Fault, AcquireSH, ReadAll, Replay, file
<1> QED BY <1>1, <1>2, Typing, PTL DEF Spec

-----------------------------------------------------------------------------
(* Readers and damage.                                                       *)

(* A read under the shared lock fails only if the file is damaged: while it  *)
(* is held nobody writes.                                                    *)
THEOREM LockedReadsAreSound == Spec => []LockedReadsSucceed
<1>1. Init => LockedReadsSucceed
  BY DEF Init, LockedReadsSucceed
<1>2. Typed /\ LockDiscipline /\ LockedReadsSucceed /\ [Next]_vars => LockedReadsSucceed'
  <2> SUFFICES ASSUME Typed, LockDiscipline, LockedReadsSucceed, [Next]_vars
               PROVE  LockedReadsSucceed'
    OBVIOUS
  <2>1. ASSUME NEW p \in Proc, ReadAll(p) PROVE LockedReadsSucceed'
    <3>1. \A q \in Proc : pc[q] # "writing"
      BY <2>1, ChainAssumption DEF ReadAll, LockDiscipline, Holding
    <3>2. ASSUME ~Damaged PROVE \A i \in DOMAIN Contents : Parses(Contents[i])
      BY <3>1, <3>2 DEF Damaged, Contents
    <3>3. raised' = raised
      BY <2>1, <3>2 DEF ReadAll, Raises
    <3> QED BY <3>3 DEF LockedReadsSucceed
  <2>2. ASSUME NEW p \in Proc, Replay(p) PROVE LockedReadsSucceed'
    BY <2>2 DEF Replay, Raises, LockedReadsSucceed
  <2>3. ASSUME raised' = raised PROVE LockedReadsSucceed'
    BY <2>3 DEF LockedReadsSucceed
  <2> QED
    BY <2>1, <2>2, <2>3
    DEF Next, vars, AppendCall, AcquireEX, ReadTail, WriteHead, Flush, Unlock, Fault, LoseNewline,
        AcquireSH
<1> QED BY <1>1, <1>2, Typing, Locking, PTL DEF Spec

(* A piece that does not parse is the tail that is read back.                *)
LEMMA TornTail ==
  ASSUME NEW ls \in Seq(Lines), NEW x \in Lines, x.kind = "torn"
  PROVE  ~TailParses(Append(ls, x))
<1> DEFINE new == Append(ls, x)
           j == LastBefore(new, Len(new) + 1)
<1>1. new \in Seq(Lines) /\ Len(new) = Len(ls) + 1 /\ new[Len(new)] = x
  OBVIOUS
<1>2. /\ j \in 0 .. Len(new)
      /\ \A k \in (j + 1) .. Len(new) : new[k].kind = "blank"
  <2>1. Len(new) + 1 \in 1 .. (Len(new) + 1)
    BY <1>1
  <2> HIDE DEF new
  <2> QED BY <1>1, <2>1, LastBeforeProperties
<1> HIDE DEF j, new
<1>3. j = Len(new)
  BY <1>1, <1>2
<1> QED BY <1>1, <1>3 DEF TailParses, Parses, j, new

(* Once a writer has stopped half way, no append touches the file.           *)
THEOREM DamageIsFinal == Spec => DamageStopsAppends
<1>1. Typed /\ Sound /\ Shape /\ [Next]_vars
        => [Damaged /\ ~NewlineLost => UNCHANGED file]_vars
  <2> SUFFICES ASSUME Typed, Sound, Shape, Next, Damaged, ~NewlineLost PROVE UNCHANGED file
    OBVIOUS
  <2>1. \A i \in DOMAIN lines : Parses(lines[i])
    BY DEF Shape, NewlineLost, Parses
  <2>2. partial = Torn /\ \A q \in Proc : pc[q] # "writing"
    BY <2>1, NoneAssumption DEF Damaged, NewlineLost, Shape, Lines, Rows, Joined
  <2>3. ~TailParses(Contents)
    <3>1. lines \in Seq(Lines) /\ Torn \in Lines /\ Torn # None
      BY NoneAssumption DEF Typed, TypeOK, Lines
    <3> QED BY <2>2, <3>1, TornTail DEF Contents, Torn
  <2>4. \A q \in Proc : pc[q] # "linked"
    BY <2>3 DEF Sound, LinkIsTail
  <2> QED
    BY <2>2, <2>4
    DEF Next, AppendCall, AcquireEX, ReadTail, WriteHead, Flush, Unlock, Fault, LoseNewline,
        AcquireSH, ReadAll, Replay
<1> QED BY <1>1, Typing, SoundChain, ShapeHolds, PTL DEF Spec, DamageStopsAppends
-----------------------------------------------------------------------------
(* Events.                                                                   *)

LEMMA EventsOfAppend ==
  ASSUME NEW ls \in Seq(Lines), NEW x \in Lines
  PROVE  EventsOf(Append(ls, x)) = EventsOf(ls) \cup (IF x.kind = "row" THEN {x.id} ELSE {})
<1> DEFINE new == Append(ls, x)
<1>1. /\ DOMAIN new = DOMAIN ls \cup {Len(ls) + 1} /\ Len(ls) + 1 \notin DOMAIN ls
      /\ new[Len(ls) + 1] = x /\ \A i \in DOMAIN ls : new[i] = ls[i]
  OBVIOUS
<1> HIDE DEF new
<1>2. EventsOf(new) = EventsOf(ls) \cup (IF x.kind = "row" THEN {x.id} ELSE {})
  BY <1>1 DEF EventsOf
<1> QED BY <1>2 DEF new

(* Every event is on one line at most, and an append under way has an event  *)
(* of its own that is on none until it is flushed, newline lost or not.      *)
Distinct ==
  \A i, j \in DOMAIN lines :
    lines[i].kind = "row" /\ lines[j].kind = "row" /\ lines[i].id = lines[j].id => i = j

Single ==
  /\ Distinct
  /\ \A q \in Proc : Busy(q) /\ pc[q] # "flushed" => entry[q].id \notin EventsOf(lines)
  /\ \A q, r \in Proc : Busy(q) /\ Busy(r) /\ entry[q].id = entry[r].id => q = r

LEMMA SingleHolds == Spec => []Single
<1>1. Init => Single
  <2> SUFFICES ASSUME Init PROVE Single
    OBVIOUS
  <2>1. PICK n \in 0 .. MaxOldLines : lines \in [1 .. n -> {Legacy, Blank}]
    BY DEF Init, OldLogs
  <2>2. Distinct
    BY <2>1 DEF Distinct, Legacy, Blank
  <2> QED BY <2>2 DEF Init, Single, Busy
<1>2. Typed /\ Single /\ [Next]_vars => Single'
  <2> SUFFICES ASSUME Typed, Single, [Next]_vars PROVE Single'
    OBVIOUS
  <2>0. TypeOK /\ EntriesWellFormed
    BY DEF Typed
  <2> DEFINE Aside == /\ UNCHANGED lines
                      /\ \A q \in Proc : Busy(q)' => /\ Busy(q) /\ entry'[q] = entry[q]
                                                     /\ pc[q] = "flushed" => pc'[q] = "flushed"
  <2>1. ASSUME NEW p \in Proc, AppendCall(p) PROVE Single'
    <3>1. PICK d \in Payload \ Reserved, e \in EventId :
            /\ e \notin EventsOf(Contents) \cup acked
            /\ \A q \in Proc : Busy(q) => entry[q].id # e
            /\ entry' = [entry EXCEPT ![p] = [id |-> e, payload |-> d]]
      BY <2>1 DEF AppendCall
    <3>2. EventsOf(lines) \subseteq EventsOf(Contents)
      <4>1. CASE partial = None
        BY <4>1 DEF Contents
      <4>2. CASE partial # None
        BY <2>0, <4>2, EventsOfAppend DEF Contents, TypeOK
      <4> QED BY <4>1, <4>2
    <3>3. UNCHANGED lines /\ pc' = [pc EXCEPT ![p] = "waiting"]
      BY <2>1 DEF AppendCall, file
    <3>4. entry'[p].id = e /\ pc'[p] = "waiting"
      BY <2>0, <3>1, <3>3 DEF TypeOK
    <3>5. \A q \in Proc \ {p} : entry'[q] = entry[q] /\ pc'[q] = pc[q] /\ (Busy(q)' = Busy(q))
      BY <2>0, <3>1, <3>3 DEF TypeOK, Busy
    <3>6. \A q \in Proc : Busy(q)' /\ pc'[q] # "flushed" => entry'[q].id \notin EventsOf(lines)
      BY <3>1, <3>2, <3>4, <3>5 DEF Single
    <3>7. \A q, r \in Proc : Busy(q)' /\ Busy(r)' /\ entry'[q].id = entry'[r].id => q = r
      BY <3>1, <3>4, <3>5 DEF Single
    <3> QED BY <3>3, <3>6, <3>7 DEF Single, Distinct
  <2>2. ASSUME NEW p \in Proc, AcquireEX(p) \/ ReadTail(p) \/ WriteHead(p) PROVE Aside
    BY <2>0, <2>2 DEF AcquireEX, ReadTail, WriteHead, TypeOK, Busy, file
  <2>3. ASSUME NEW p \in Proc, Flush(p) PROVE Single'
    <3>1. entry[p] \in Entries /\ Busy(p) /\ pc[p] = "writing"
      BY <2>0, <2>3 DEF Flush, TypeOK, EntriesWellFormed, Busy
    <3>2. RowOf(p) \in Lines /\ Joined \in Lines /\ RowOf(p).id = entry[p].id
      BY <2>0, <3>1, RowTyped DEF Lines, RowOf
    <3>3. PICK x \in Lines : /\ lines' = Append(lines, x)
                             /\ x.kind = "row" => x.id = entry[p].id
      BY <2>3, <3>2 DEF Flush, Joined
    <3>4. /\ DOMAIN lines' = DOMAIN lines \cup {Len(lines) + 1}
          /\ \A i \in DOMAIN lines : lines'[i] = lines[i]
          /\ lines'[Len(lines) + 1] = x
      BY <2>0, <3>3 DEF TypeOK
    <3>5. entry[p].id \notin EventsOf(lines)
      BY <3>1 DEF Single
    <3>6. Distinct'
      <4>1. \A i \in DOMAIN lines : lines[i].kind = "row" => lines[i].id # entry[p].id
        BY <3>5 DEF EventsOf
      <4> QED BY <3>3, <3>4, <4>1 DEF Single, Distinct
    <3>7. EventsOf(lines') \subseteq EventsOf(lines) \cup {entry[p].id}
      BY <2>0, <3>3, EventsOfAppend DEF TypeOK
    <3>8. /\ pc'[p] = "flushed" /\ entry' = entry
          /\ \A q \in Proc \ {p} : pc'[q] = pc[q]
          /\ \A q \in Proc : Busy(q)' = Busy(q)
      BY <2>0, <2>3, <3>1 DEF Flush, TypeOK, Busy
    <3> QED BY <3>1, <3>6, <3>7, <3>8 DEF Single
  <2>4. ASSUME NEW p \in Proc, Unlock(p) \/ Fault(p) \/ LoseNewline(p) PROVE Aside
    BY <2>0, <2>4 DEF Unlock, Fault, LoseNewline, Return, TypeOK, Busy, file
  <2>5. ASSUME NEW p \in Proc, AcquireSH(p) \/ ReadAll(p) \/ Replay(p) PROVE Aside
    BY <2>0, <2>5 DEF AcquireSH, ReadAll, Replay, TypeOK, Busy, file
  <2>6. CASE UNCHANGED vars
    BY <2>6 DEF vars, Busy, Single, Distinct
  <2>7. ASSUME Aside PROVE Single'
    BY <2>7 DEF Single, Distinct
  <2> QED BY <2>1, <2>2, <2>3, <2>4, <2>5, <2>6, <2>7 DEF Next
<1> QED BY <1>1, <1>2, Typing, PTL DEF Spec

-----------------------------------------------------------------------------
(* Tampering shows.                                                          *)

(* After a chained row come chained rows, and what a lost newline joins.     *)
ChainedFromThere ==
  \A i, j \in DOMAIN lines :
    i < j /\ lines[i].kind \in {"row", "joined"} => lines[j].kind \in {"row", "joined"}

LEMMA ChainGoesOn == Spec => []ChainedFromThere
<1>1. Init => ChainedFromThere
  <2> SUFFICES ASSUME Init PROVE ChainedFromThere
    OBVIOUS
  <2>1. PICK n \in 0 .. MaxOldLines : lines \in [1 .. n -> {Legacy, Blank}]
    BY DEF Init, OldLogs
  <2> QED BY <2>1 DEF ChainedFromThere, Legacy, Blank
<1>2. Typed /\ ChainedFromThere /\ [Next]_vars => ChainedFromThere'
  <2> SUFFICES ASSUME Typed, ChainedFromThere, [Next]_vars PROVE ChainedFromThere'
    OBVIOUS
  <2>0. lines \in Seq(Lines)
    BY DEF Typed, TypeOK
  <2>1. ASSUME NEW p \in Proc, Flush(p) PROVE ChainedFromThere'
    <3>1. PICK x : lines' = Append(lines, x) /\ x.kind \in {"row", "joined"}
      BY <2>1 DEF Flush, RowOf, Joined
    <3>2. /\ DOMAIN lines' = DOMAIN lines \cup {Len(lines) + 1}
          /\ \A i \in DOMAIN lines : lines'[i] = lines[i] /\ i \in Nat /\ i <= Len(lines)
          /\ lines'[Len(lines) + 1] = x /\ Len(lines) \in Nat
      BY <2>0, <3>1
    <3> QED BY <3>1, <3>2 DEF ChainedFromThere
  <2>2. ASSUME UNCHANGED lines PROVE ChainedFromThere'
    BY <2>2 DEF ChainedFromThere
  <2> QED
    BY <2>1, <2>2
    DEF Next, vars, AppendCall, AcquireEX, ReadTail, WriteHead, Unlock, Fault, LoseNewline,
        AcquireSH, ReadAll, Replay, file
<1> QED BY <1>1, <1>2, Typing, PTL DEF Spec

(* The line before a position, when it is not blank.                         *)
LEMMA LastBeforeNext ==
  ASSUME NEW ls \in Seq(Lines), NEW i \in 1 .. Len(ls), ls[i].kind # "blank"
  PROVE  LastBefore(ls, i + 1) = i
<1> DEFINE j == LastBefore(ls, i + 1)
<1>1. /\ j \in 0 .. i
      /\ \A k \in (j + 1) .. i : ls[k].kind = "blank"
  <2>1. i + 1 \in 1 .. (Len(ls) + 1) /\ (i + 1) - 1 = i
    OBVIOUS
  <2>2. /\ j \in 0 .. ((i + 1) - 1)
        /\ \A k \in (j + 1) .. ((i + 1) - 1) : ls[k].kind = "blank"
    BY <2>1, LastBeforeProperties
  <2> QED BY <2>1, <2>2
<1> HIDE DEF j
<1>2. j = i
  BY <1>1
<1> QED BY <1>2 DEF j

(* What precedes a position is all that its link depends on.                 *)
LEMMA LinkOfPrefix ==
  ASSUME NEW ls \in Seq(Lines), NEW i \in 1 .. (Len(ls) + 1), NEW other,
         \A j \in 1 .. (i - 1) : other[j] = ls[j]
  PROVE  LinkAt(other, i) = LinkAt(ls, i)
<1>1. LastBefore(other, i) = LastBefore(ls, i)
  <2>1. \A j \in 1 .. (i - 1) : \A k \in (j + 1) .. (i - 1) : k \in 1 .. (i - 1)
    OBVIOUS
  <2>2. \A j \in 1 .. (i - 1) :
          (/\ other[j].kind # "blank"
           /\ \A k \in (j + 1) .. (i - 1) : other[k].kind = "blank")
          <=> (/\ ls[j].kind # "blank"
               /\ \A k \in (j + 1) .. (i - 1) : ls[k].kind = "blank")
    BY <2>1
  <2>3. (\E j \in 1 .. (i - 1) : other[j].kind # "blank")
          <=> (\E j \in 1 .. (i - 1) : ls[j].kind # "blank")
    OBVIOUS
  <2>4. (CHOOSE j \in 1 .. (i - 1) :
           /\ other[j].kind # "blank"
           /\ \A k \in (j + 1) .. (i - 1) : other[k].kind = "blank")
          = (CHOOSE j \in 1 .. (i - 1) :
               /\ ls[j].kind # "blank"
               /\ \A k \in (j + 1) .. (i - 1) : ls[k].kind = "blank")
    BY <2>2
  <2>5. CASE \E j \in 1 .. (i - 1) : ls[j].kind # "blank"
    <3>1. \E j \in 1 .. (i - 1) : other[j].kind # "blank"
      BY <2>3, <2>5
    <3>2. LastBefore(other, i) = CHOOSE j \in 1 .. (i - 1) :
            /\ other[j].kind # "blank"
            /\ \A k \in (j + 1) .. (i - 1) : other[k].kind = "blank"
      BY <3>1, Zenon DEF LastBefore
    <3>3. LastBefore(ls, i) = CHOOSE j \in 1 .. (i - 1) :
            /\ ls[j].kind # "blank"
            /\ \A k \in (j + 1) .. (i - 1) : ls[k].kind = "blank"
      BY <2>5, Zenon DEF LastBefore
    <3> QED BY <2>4, <3>2, <3>3, Zenon
  <2>6. CASE ~\E j \in 1 .. (i - 1) : ls[j].kind # "blank"
    BY <2>3, <2>6 DEF LastBefore
  <2> QED BY <2>5, <2>6
<1>2. LastBefore(ls, i) = 0 \/ LastBefore(ls, i) \in 1 .. (i - 1)
  <2>1. LastBefore(ls, i) \in 0 .. (i - 1)
    BY LastBeforeProperties
  <2> QED BY <2>1
<1> QED BY <1>1, <1>2 DEF LinkAt

(* While read_all can read every line the log verifies, and no longer once a *)
(* row has another payload, one before the last is rewritten or missing, or  *)
(* two have changed places, for any history, if digests do not collide       *)
(* (jsonl.py:88-94).                                                         *)
THEOREM TamperingShows == ASSUME CollisionFree PROVE Spec => []TamperEvident
<1> DEFINE Chained == {i \in DOMAIN lines : lines[i].kind = "row"}
           RowFast(i) == \A d \in Payload \ {lines[i].payload} :
                           ~verify([lines EXCEPT ![i].payload = d])
           NeighboursFast(i) ==
             i # Len(lines) =>
               /\ ~verify([j \in 1 .. (Len(lines) - 1) |-> lines[IF j < i THEN j ELSE j + 1]])
               /\ \A e \in EventId, d \in Payload :
                    <<e, d>> # <<lines[i].id, lines[i].payload>> =>
                      ~verify([lines EXCEPT ![i].id = e, ![i].payload = d,
                                 ![i].current_hash = Digest(e, d, lines[i].previous_hash)])
           PlaceFast(i) == \A j \in Chained : i < j =>
                             ~verify([lines EXCEPT ![i] = lines[j], ![j] = lines[i]])
<1>1. Typed /\ Linked /\ ChainedFromThere /\ Single => TamperEvident
  <2> SUFFICES ASSUME Typed, Linked, ChainedFromThere, Single,
                      \A i \in DOMAIN lines : Reads(lines[i])
               PROVE  /\ verify(lines)
                      /\ \A i \in Chained : RowFast(i) /\ NeighboursFast(i) /\ PlaceFast(i)
    BY Zenon DEF TamperEvident
  <2>1. lines \in Seq(Lines)
    BY DEF Typed, TypeOK
  <2>2. \A i \in DOMAIN lines : lines[i].kind # "joined"
    BY DEF Reads, Parses
  <2>3. verify(lines)
    <3>1. ASSUME NEW i \in DOMAIN lines, lines[i].kind = "row"
          PROVE  lines[i].previous_hash = LinkAt(lines, i) /\ Intact(lines[i])
      BY <3>1 DEF Linked, Intact
    <3>2. ASSUME NEW i \in DOMAIN lines, lines[i].kind \notin {"row", "blank"},
                 NEW j \in 1 .. (i - 1)
          PROVE  lines[j].kind # "row"
      <4>1. j \in DOMAIN lines /\ j < i
        BY <2>1
      <4> QED BY <2>2, <3>2, <4>1 DEF ChainedFromThere
    <3> QED BY <3>1, <3>2 DEF verify
  <2>4. ASSUME NEW i \in DOMAIN lines, lines[i].kind = "row"
        PROVE  /\ lines[i] \in Rows
               /\ lines[i].id \in EventId /\ lines[i].payload \in Payload
               /\ lines[i].previous_hash \in Hash
               /\ lines[i].previous_hash = LinkAt(lines, i)
               /\ lines[i].current_hash =
                    Digest(lines[i].id, lines[i].payload, lines[i].previous_hash)
               /\ lines[i].current_hash \notin {lines[i].previous_hash, Genesis}
    <3>1. lines[i] \in Rows
      BY <2>1, <2>4 DEF Lines, Legacy, Blank, Torn, Joined
    <3> QED BY <2>4, <3>1 DEF Rows, Linked, CollisionFree
  <2>5. ASSUME NEW e \in EventId, NEW f \in EventId, NEW c \in Payload, NEW d \in Payload,
               NEW h \in Hash, NEW k \in Hash, Digest(e, c, h) = Digest(f, d, k)
        PROVE  e = f /\ c = d
    <3>1. Digest(e, c, h) \in DigestsOf(e, c) /\ Digest(f, d, k) \in DigestsOf(f, d)
      BY DEF DigestsOf
    <3>2. <<e, c>> = <<f, d>>
      BY <2>5, <3>1 DEF CollisionFree
    <3> QED BY <3>2
  <2>6. ASSUME NEW i \in DOMAIN lines, lines[i].kind = "row", i # Len(lines)
        PROVE  /\ i + 1 \in DOMAIN lines /\ lines[i + 1].kind = "row"
               /\ lines[i + 1].previous_hash = lines[i].current_hash
    <3>1. i \in 1 .. Len(lines) /\ i + 1 \in DOMAIN lines /\ i < i + 1
      BY <2>1, <2>6
    <3>2. lines[i + 1].kind = "row"
      BY <2>2, <2>6, <3>1 DEF ChainedFromThere
    <3>3. LastBefore(lines, i + 1) = i
      BY <2>1, <2>6, <3>1, LastBeforeNext
    <3>4. LinkAt(lines, i + 1) = lines[i].current_hash
      BY <2>1, <2>6, <3>1, <3>3 DEF LinkAt
    <3> QED BY <3>1, <3>2, <3>4 DEF Linked
  <2>7. ASSUME NEW i \in DOMAIN lines, lines[i].kind = "row",
               NEW d \in Payload \ {lines[i].payload},
               verify([lines EXCEPT ![i].payload = d])
        PROVE  FALSE
    <3> DEFINE forged == [lines EXCEPT ![i].payload = d]
    <3>1. /\ DOMAIN forged = DOMAIN lines
          /\ forged[i] = [lines[i] EXCEPT !.payload = d]
      OBVIOUS
    <3>2. lines[i] \in Rows
      BY <2>4, <2>7
    <3>3. /\ forged[i].kind = "row" /\ forged[i].payload = d
          /\ forged[i].id = lines[i].id
          /\ forged[i].previous_hash = lines[i].previous_hash
          /\ forged[i].current_hash = lines[i].current_hash
      BY <2>7, <3>1, <3>2 DEF Rows
    <3>4. verify(forged)
      BY <2>7
    <3> HIDE DEF forged
    <3>5. Intact(forged[i])
      BY <3>1, <3>3, <3>4 DEF verify
    <3>6. Digest(lines[i].id, d, lines[i].previous_hash)
            = Digest(lines[i].id, lines[i].payload, lines[i].previous_hash)
      BY <2>4, <2>7, <3>3, <3>5 DEF Intact
    <3> QED BY <2>4, <2>5, <2>7, <3>6
  <2>8. ASSUME NEW i \in DOMAIN lines, lines[i].kind = "row", i # Len(lines),
               verify([j \in 1 .. (Len(lines) - 1) |-> lines[IF j < i THEN j ELSE j + 1]])
        PROVE  FALSE
    <3> DEFINE shorter == [j \in 1 .. (Len(lines) - 1) |-> lines[IF j < i THEN j ELSE j + 1]]
    <3>1. /\ i \in 1 .. (Len(lines) - 1) /\ i \in 1 .. (Len(lines) + 1)
          /\ DOMAIN shorter = 1 .. (Len(lines) - 1)
          /\ shorter[i] = lines[i + 1]
          /\ \A j \in 1 .. (i - 1) : shorter[j] = lines[j]
      BY <2>1, <2>8
    <3>2. verify(shorter)
      BY <2>8
    <3> HIDE DEF shorter
    <3>3. lines[i + 1].kind = "row" /\ lines[i + 1].previous_hash = lines[i].current_hash
      BY <2>6, <2>8
    <3>4. LinkAt(shorter, i) = lines[i].previous_hash
      BY <2>1, <2>4, <2>8, <3>1, LinkOfPrefix
    <3>5. lines[i + 1].previous_hash = LinkAt(shorter, i)
      BY <3>1, <3>2, <3>3 DEF verify
    <3> QED BY <2>4, <2>8, <3>3, <3>4, <3>5
  <2>9. ASSUME NEW i \in DOMAIN lines, lines[i].kind = "row", i # Len(lines),
               NEW e \in EventId, NEW d \in Payload,
               <<e, d>> # <<lines[i].id, lines[i].payload>>,
               verify([lines EXCEPT ![i].id = e, ![i].payload = d,
                         ![i].current_hash = Digest(e, d, lines[i].previous_hash)])
        PROVE  FALSE
    <3> DEFINE forged == [lines EXCEPT ![i].id = e, ![i].payload = d,
                            ![i].current_hash = Digest(e, d, lines[i].previous_hash)]
               row == [lines[i] EXCEPT !.id = e, !.payload = d,
                         !.current_hash = Digest(e, d, lines[i].previous_hash)]
    <3>1. /\ row \in Rows /\ row.kind = "row"
          /\ row.current_hash = Digest(e, d, lines[i].previous_hash)
      BY <2>4, <2>9, ChainAssumption DEF Rows
    <3>2. forged = [lines EXCEPT ![i] = row]
      BY <2>1
    <3>3. i + 1 \in DOMAIN lines /\ i # i + 1
      BY <2>1, <2>6, <2>9
    <3>4. verify(forged)
      BY <2>9
    <3> HIDE DEF row, forged
    <3>5. row \in Lines
      BY <3>1 DEF Lines
    <3>6. /\ forged \in Seq(Lines) /\ DOMAIN forged = DOMAIN lines /\ forged[i] = row
          /\ forged[i + 1] = lines[i + 1] /\ Len(forged) = Len(lines)
      BY <2>1, <2>9, <3>2, <3>3, <3>5
    <3>7. i \in 1 .. Len(forged) /\ i + 1 \in DOMAIN forged
      BY <2>1, <2>9, <3>3, <3>6
    <3>8. LinkAt(forged, i + 1) = row.current_hash
      <4>1. LastBefore(forged, i + 1) = i
        BY <3>1, <3>6, <3>7, LastBeforeNext
      <4> QED BY <3>1, <3>6, <3>7, <4>1 DEF LinkAt
    <3>9. lines[i + 1].previous_hash = row.current_hash
      BY <2>6, <2>9, <3>4, <3>6, <3>7, <3>8 DEF verify
    <3>10. Digest(e, d, lines[i].previous_hash)
            = Digest(lines[i].id, lines[i].payload, lines[i].previous_hash)
      BY <2>4, <2>6, <2>9, <3>1, <3>9
    <3> QED BY <2>4, <2>5, <2>9, <3>10
  <2>10. ASSUME NEW i \in DOMAIN lines, lines[i].kind = "row",
                NEW j \in DOMAIN lines, lines[j].kind = "row", i < j,
                verify([lines EXCEPT ![i] = lines[j], ![j] = lines[i]])
         PROVE  FALSE
    <3> DEFINE forged == [lines EXCEPT ![i] = lines[j], ![j] = lines[i]]
               before == j - 1
               b == LastBefore(lines, i)
    <3>1. /\ i \in DOMAIN forged /\ forged[i] = lines[j]
          /\ i \in 1 .. (Len(lines) + 1)
          /\ \A k \in 1 .. (i - 1) : forged[k] = lines[k]
      BY <2>1, <2>10
    <3>2. verify(forged)
      BY <2>10
    <3> HIDE DEF forged
    <3>3. LinkAt(forged, i) = LinkAt(lines, i)
      BY <2>1, <3>1, LinkOfPrefix
    <3>4. lines[j].previous_hash = LinkAt(lines, i)
      BY <2>10, <3>1, <3>2, <3>3 DEF verify
    <3>5. before \in DOMAIN lines /\ before # Len(lines) /\ before + 1 = j /\ i <= before
      BY <2>1, <2>10
    <3>6. lines[before].kind = "row"
      <4>1. CASE before = i
        BY <2>10, <4>1
      <4>2. CASE before # i
        <5>1. i < before
          BY <2>1, <2>10, <3>5, <4>2
        <5> QED BY <2>2, <2>10, <3>5, <5>1 DEF ChainedFromThere
      <4> QED BY <4>1, <4>2
    <3> HIDE DEF before
    <3>7. lines[before].current_hash = LinkAt(lines, i)
      BY <2>6, <3>4, <3>5, <3>6
    <3>8. b \in 0 .. (i - 1)
      BY <2>1, <3>1, LastBeforeProperties
    <3>9. b # 0 /\ lines[b].kind = "row" /\ lines[b].current_hash = LinkAt(lines, i)
      BY <2>4, <3>5, <3>6, <3>7 DEF LinkAt
    <3> HIDE DEF b
    <3>10. b \in DOMAIN lines /\ b < before
      BY <2>1, <2>10, <3>5, <3>8, <3>9
    <3>11. lines[b].id = lines[before].id
      BY <2>4, <2>5, <3>5, <3>6, <3>7, <3>9, <3>10
    <3>12. b = before
      BY <3>5, <3>6, <3>9, <3>10, <3>11 DEF Single, Distinct
    <3> QED BY <2>1, <3>5, <3>10, <3>12
  <2>11. ASSUME NEW i \in Chained PROVE RowFast(i)
    BY <2>7, Zenon
  <2>12. ASSUME NEW i \in Chained PROVE NeighboursFast(i)
    BY <2>8, <2>9, Zenon
  <2>13. ASSUME NEW i \in Chained PROVE PlaceFast(i)
    BY <2>10, Zenon
  <2> HIDE DEF Chained, RowFast, NeighboursFast, PlaceFast
  <2> QED BY <2>3, <2>11, <2>12, <2>13
<1> QED BY <1>1, Typing, ChainNeverForks, ChainGoesOn, SingleHolds, PTL

-----------------------------------------------------------------------------
(* The log implements AppendOnlyLog.                                         *)

(* A newline that is lost stays lost.                                        *)
LEMMA LostStaysLost ==
  ASSUME Typed, NewlineLost, [Next]_vars
  PROVE  NewlineLost'
<1>0. lines \in Seq(Lines) /\ Joined # None /\ Joined.kind = "joined" /\ Torn.kind = "torn"
  BY NoneAssumption DEF Typed, TypeOK, Lines, Joined, Torn
<1>1. ASSUME NEW p \in Proc, WriteHead(p) PROVE NewlineLost'
  BY <1>0, <1>1 DEF WriteHead, NewlineLost
<1>2. ASSUME NEW p \in Proc, Flush(p) PROVE NewlineLost'
  <2>1. CASE \E i \in DOMAIN lines : lines[i].kind = "joined"
    <3>1. PICK i \in DOMAIN lines : lines[i].kind = "joined"
      BY <2>1
    <3>2. i \in DOMAIN lines' /\ lines'[i] = lines[i]
      BY <1>0, <1>2 DEF Flush
    <3> QED BY <3>1, <3>2 DEF NewlineLost
  <2>2. CASE partial # None /\ partial.kind \in {"row", "joined"}
    <3>1. lines' = Append(lines, Joined)
      BY <1>0, <1>2, <2>2 DEF Flush
    <3>2. Len(lines) + 1 \in DOMAIN lines' /\ lines'[Len(lines) + 1] = Joined
      BY <1>0, <3>1
    <3> QED BY <1>0, <3>2 DEF NewlineLost
  <2> QED BY <2>1, <2>2 DEF NewlineLost
<1>3. ASSUME NEW p \in Proc, LoseNewline(p) PROVE NewlineLost'
  <2>1. partial' = RowOf(p) /\ RowOf(p) \in Rows
    <3>1. TypeOK /\ entry[p] \in Entries
      BY <1>3 DEF LoseNewline, Typed, TypeOK, EntriesWellFormed, Busy
    <3> QED BY <1>3, <3>1, RowTyped DEF LoseNewline
  <2>2. RowOf(p) # None /\ RowOf(p).kind = "row"
    BY <2>1, NoneAssumption DEF Lines, RowOf
  <2> QED BY <2>1, <2>2 DEF NewlineLost
<1>4. ASSUME UNCHANGED <<lines, partial>> PROVE NewlineLost'
  BY <1>4 DEF NewlineLost
<1> QED
  BY <1>1, <1>2, <1>3, <1>4
  DEF Next, vars, AppendCall, AcquireEX, ReadTail, Unlock, Fault, AcquireSH, ReadAll, Replay, file

(* Until a newline is lost, an append under way has an event that is in the  *)
(* file once it is flushed and not before, and what is acknowledged is there. *)
Fresh(q) ==
  IF pc[q] = "flushed" THEN entry[q].id \in EventsOf(lines)
  ELSE entry[q].id \notin EventsOf(lines) \cup acked

Kept ==
  /\ Single
  /\ \A q \in Proc : Busy(q) => Fresh(q)
  /\ acked \subseteq EventsOf(lines)

(* Appends that go on without writing or returning, and those that end       *)
(* without a row, keep it.                                                   *)
LEMMA KeptAside ==
  ASSUME TypeOK, Kept, Single', UNCHANGED <<lines, acked>>,
         \A q \in Proc : Busy(q)' => /\ Busy(q) /\ entry'[q] = entry[q]
                                     /\ (pc'[q] = "flushed") = (pc[q] = "flushed")
  PROVE  Kept'
BY DEF Kept, Fresh

(* What a flush and the call that precedes it, and the return, do.           *)
LEMMA KeptStep ==
  ASSUME Typed, Typed', LockDiscipline, Shape, Kept, Single', ~NewlineLost', Next
  PROVE  Kept'
<1>0. TypeOK /\ TypeOK' /\ EntriesWellFormed /\ EntriesWellFormed'
  BY DEF Typed
<1> DEFINE Aside == /\ UNCHANGED <<lines, acked>>
                    /\ \A q \in Proc : Busy(q)' => /\ Busy(q) /\ entry'[q] = entry[q]
                                                   /\ (pc'[q] = "flushed") = (pc[q] = "flushed")
<1>1. ASSUME NEW p \in Proc, AppendCall(p) PROVE Kept'
  <2>1. PICK d \in Payload \ Reserved, e \in EventId :
          /\ e \notin EventsOf(Contents) \cup acked
          /\ \A q \in Proc : Busy(q) => entry[q].id # e
          /\ entry' = [entry EXCEPT ![p] = [id |-> e, payload |-> d]]
    BY <1>1 DEF AppendCall
  <2>2. EventsOf(lines) \subseteq EventsOf(Contents)
    <3>1. CASE partial = None
      BY <3>1 DEF Contents
    <3>2. CASE partial # None
      BY <1>0, <3>2, EventsOfAppend DEF Contents, TypeOK
    <3> QED BY <3>1, <3>2
  <2>3. /\ UNCHANGED <<lines, acked>>
        /\ pc' = [pc EXCEPT ![p] = "waiting"]
    BY <1>1 DEF AppendCall, file
  <2>4. entry'[p].id = e /\ pc'[p] = "waiting"
    BY <1>0, <2>1, <2>3 DEF TypeOK
  <2>5. \A q \in Proc \ {p} : entry'[q] = entry[q] /\ pc'[q] = pc[q] /\ (Busy(q)' = Busy(q))
    BY <1>0, <2>1, <2>3 DEF TypeOK, Busy
  <2>6. \A q \in Proc : Busy(q)' => Fresh(q)'
    BY <2>1, <2>2, <2>3, <2>4, <2>5 DEF Kept, Fresh
  <2> QED BY <2>3, <2>6 DEF Kept
<1>2. ASSUME NEW p \in Proc, AcquireEX(p) \/ ReadTail(p) \/ WriteHead(p) PROVE Aside
  BY <1>0, <1>2 DEF AcquireEX, ReadTail, WriteHead, TypeOK, Busy, file
<1>3. ASSUME NEW p \in Proc, Flush(p) PROVE Kept'
  <2>1. entry[p] \in Entries /\ Busy(p) /\ pc[p] = "writing"
    BY <1>0, <1>3 DEF Flush, TypeOK, EntriesWellFormed, Busy
  <2>2. RowOf(p) \in Lines /\ Joined \in Lines /\ RowOf(p).kind = "row" /\ RowOf(p).id = entry[p].id
    BY <1>0, <2>1, RowTyped DEF Lines, RowOf
  <2>3. partial = Torn
    <3>1. ASSUME partial # Torn PROVE FALSE
      <4>1. lines' = Append(lines, Joined)
        BY <1>3, <3>1 DEF Flush
      <4>2. Len(lines) + 1 \in DOMAIN lines' /\ lines'[Len(lines) + 1] = Joined
        BY <1>0, <2>2, <4>1 DEF TypeOK
      <4> QED BY <4>2 DEF NewlineLost, Joined
    <3> QED BY <3>1
  <2>4. /\ lines' = Append(lines, RowOf(p)) /\ pc' = [pc EXCEPT ![p] = "flushed"]
        /\ UNCHANGED <<entry, acked>>
    BY <1>3, <2>3 DEF Flush
  <2>5. EventsOf(lines') = EventsOf(lines) \cup {entry[p].id}
    BY <1>0, <2>2, <2>4, EventsOfAppend DEF TypeOK
  <2>6. /\ pc'[p] = "flushed"
        /\ \A q \in Proc \ {p} : pc'[q] = pc[q]
        /\ \A q \in Proc : Busy(q)' = Busy(q)
    BY <1>0, <2>1, <2>4 DEF TypeOK, Busy
  <2>7. \A q \in Proc : Busy(q)' => Fresh(q)'
    BY <2>1, <2>4, <2>5, <2>6 DEF Kept, Single, Fresh
  <2> QED BY <2>4, <2>5, <2>6, <2>7 DEF Kept
<1>4. ASSUME NEW p \in Proc, Unlock(p) PROVE Kept'
  <2>1. /\ UNCHANGED lines /\ pc' = [pc EXCEPT ![p] = "idle"]
        /\ entry' = [entry EXCEPT ![p] = None]
        /\ acked' = IF pc[p] = "flushed" THEN acked \cup {entry[p].id} ELSE acked
        /\ Busy(p)
    BY <1>4 DEF Unlock, Return, file, Busy
  <2>2. /\ ~Busy(p)'
        /\ \A q \in Proc \ {p} : pc'[q] = pc[q] /\ entry'[q] = entry[q] /\ (Busy(q)' = Busy(q))
    BY <1>0, <2>1 DEF TypeOK, Busy
  <2>3. \A q \in Proc : Busy(q)' => Fresh(q)'
    BY <2>1, <2>2 DEF Kept, Fresh
  <2>4. acked' \subseteq EventsOf(lines')
    BY <2>1 DEF Kept, Fresh
  <2> QED BY <2>1, <2>2, <2>3, <2>4 DEF Kept
<1>5. ASSUME NEW p \in Proc, Fault(p) \/ LoseNewline(p) PROVE Aside
  BY <1>0, <1>5 DEF Fault, LoseNewline, Return, TypeOK, Busy, file
<1>6. ASSUME NEW p \in Proc, AcquireSH(p) \/ ReadAll(p) \/ Replay(p) PROVE Aside
  BY <1>0, <1>6 DEF AcquireSH, ReadAll, Replay, TypeOK, Busy, file
<1> QED BY <1>0, <1>1, <1>2, <1>3, <1>4, <1>5, <1>6, KeptAside DEF Next

KeptUntilLost == NewlineLost \/ Kept

LEMMA KeptHolds == Spec => []KeptUntilLost
<1>1. Init /\ Single => KeptUntilLost
  <2> SUFFICES ASSUME Init, Single PROVE Kept
    BY DEF KeptUntilLost
  <2> QED BY DEF Init, Kept, Busy
<1>2. Typed /\ Typed' /\ LockDiscipline /\ Shape /\ Single' /\ KeptUntilLost /\ [Next]_vars
        => KeptUntilLost'
  <2>1. CASE UNCHANGED vars
    BY <2>1 DEF vars, KeptUntilLost, NewlineLost, Kept, Fresh, Busy
  <2> QED BY <2>1, LostStaysLost, KeptStep DEF KeptUntilLost
<1> QED BY <1>1, <1>2, Typing, Locking, ShapeHolds, SingleHolds, PTL DEF Spec

(* An append that returned has its row in the log, as one line, whatever     *)
(* stops or runs beside it, until a newline is lost.                         *)
THEOREM AcknowledgedRowsStay == Spec => []AckedRowsSurvive
<1>1. KeptUntilLost => AckedRowsSurvive
  <2> SUFFICES ASSUME Kept, NEW e \in acked
               PROVE  \E i \in DOMAIN lines :
                        /\ lines[i].kind = "row" /\ lines[i].id = e
                        /\ \A j \in DOMAIN lines \ {i} : lines[j].kind = "row" => lines[j].id # e
    BY DEF KeptUntilLost, AckedRowsSurvive
  <2>1. PICK i \in DOMAIN lines : lines[i].kind = "row" /\ lines[i].id = e
    BY DEF Kept, EventsOf
  <2> QED BY <2>1 DEF Kept, Single, Distinct
<1> QED BY <1>1, KeptHolds, PTL

(* Every step of the log is a step of the abstract one or changes neither    *)
(* its rows nor what is acknowledged, until a newline is lost.               *)
LEMMA StepImplements ==
  ASSUME Typed, Typed', Sound, Shape, Kept, ~NewlineLost', Next
  PROVE  Abstract!Next \/ UNCHANGED <<lines, acked>>
<1>0. TypeOK /\ EntriesWellFormed
  BY DEF Typed
<1>1. ASSUME NEW p \in Proc, Flush(p) PROVE Abstract!Next
  <2>1. entry[p] \in Entries /\ entry[p].payload \notin Reserved /\ pc[p] = "writing" /\ Busy(p)
    BY <1>0, <1>1 DEF Flush, TypeOK, EntriesWellFormed, Busy
  <2>2. RowOf(p) \in Lines /\ Joined \in Lines
    BY <1>0, <2>1, RowTyped DEF Lines
  <2>3. partial = Torn
    <3>1. ASSUME partial # Torn PROVE FALSE
      <4>1. lines' = Append(lines, Joined)
        BY <1>1, <3>1 DEF Flush
      <4>2. Len(lines) + 1 \in DOMAIN lines' /\ lines'[Len(lines) + 1] = Joined
        BY <1>0, <2>2, <4>1 DEF TypeOK
      <4> QED BY <4>2 DEF NewlineLost, Joined
    <3> QED BY <3>1
  <2>4. lines' = Append(lines, RowOf(p)) /\ acked' = acked
    BY <1>1, <2>3 DEF Flush
  <2>5. lines'[Len(lines')] = RowOf(p) /\ lines' # lines
    BY <1>0, <2>2, <2>4 DEF TypeOK
  <2>6. entry[p].id \in EventId /\ entry[p].id # None
    BY <2>1, ChainAssumption DEF Entries
  <2>7. EventOf(RowOf(p)) = entry[p].id
    BY DEF EventOf, RowOf
  <2>8. \A i \in DOMAIN lines : EventOf(lines[i]) # entry[p].id
    BY <2>1, <2>6 DEF Kept, Single, Fresh, EventsOf, EventOf
  <2>9. LinksTo(RowOf(p), lines)
    <3>1. link[p] = LinkAt(lines, Len(lines) + 1)
      BY <2>1, <2>3 DEF Sound, LinkIsTail, _tail_hash, Torn, Joined
    <3>2. Strip(entry[p].payload) = entry[p].payload
      BY <2>1, ChainAssumption DEF Entries
    <3> QED BY <3>1, <3>2 DEF LinksTo, RowOf
  <2>10. Abstract!Commit(entry[p].id, lines'[Len(lines')])
    BY <2>4, <2>5, <2>7, <2>8, <2>9 DEF Abstract!Commit, Abstract!Recorded
  <2> QED BY <2>5, <2>6, <2>10 DEF Abstract!Next
<1>2. ASSUME NEW p \in Proc, Unlock(p) PROVE Abstract!Next \/ UNCHANGED <<lines, acked>>
  <2>1. CASE pc[p] = "flushed"
    <3>1. entry[p].id \in EventsOf(lines) /\ entry[p].id \in EventId
      BY <1>0, <2>1 DEF TypeOK, EntriesWellFormed, Busy, Kept, Fresh, Entries
    <3>2. PICK i \in DOMAIN lines : EventOf(lines[i]) = entry[p].id
      BY <3>1 DEF EventsOf, EventOf
    <3>3. Abstract!Acknowledge(entry[p].id)
      BY <1>2, <2>1, <3>2 DEF Unlock, file, Abstract!Acknowledge, Abstract!Recorded
    <3> QED BY <3>1, <3>3 DEF Abstract!Next
  <2>2. CASE pc[p] # "flushed"
    BY <1>2, <2>2 DEF Unlock, file
  <2> QED BY <2>1, <2>2
<1> QED
  BY <1>1, <1>2
  DEF Next, AppendCall, AcquireEX, ReadTail, WriteHead, Fault, LoseNewline, AcquireSH, ReadAll,
      Replay, file

(* The file, the lock, the tail read and the several writes implement the    *)
(* abstract log, for any number of processes and any faults, until a newline *)
(* is lost.                                                                  *)
THEOREM Implementation == Spec => ImplementsAppendOnlyLog
<1>1. Init => Abstract!Init
  BY DEF Init, Abstract!Init, OldLog
<1>2. Typed /\ Typed' /\ Sound /\ Shape /\ KeptUntilLost /\ [Next]_vars
        => [NewlineLost' \/ Abstract!Next]_<<lines, acked>>
  <2>1. CASE UNCHANGED vars
    BY <2>1 DEF vars
  <2> QED BY <2>1, LostStaysLost, StepImplements DEF KeptUntilLost
<1> QED BY <1>1, <1>2, Typing, SoundChain, ShapeHolds, KeptHolds, PTL
        DEF Spec, ImplementsAppendOnlyLog
=============================================================================
