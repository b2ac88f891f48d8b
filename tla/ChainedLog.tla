----------------------------- MODULE ChainedLog -----------------------------
(***************************************************************************)
(* HashChainedJsonlStore (storage/jsonl.py): one file that several         *)
(* processes append to and read.  An append takes the exclusive flock,     *)
(* reads the last row back to find the hash it must link to, writes its    *)
(* row, flushes and unlocks; read_all holds the shared flock;              *)
(* ReplayEngine._rows (replay.py) reads the same file with no lock at all. *)
(*                                                                         *)
(* A file is a sequence of terminated lines plus at most one unterminated  *)
(* trailing piece.  A large row reaches the file in more than one write    *)
(* call, and a process may stop (killed, disk full) between any two steps. *)
(* Lines end at a newline, where append and the tail read cut the file.    *)
(* The readers cut it with str.splitlines, at other separators as well.    *)
(***************************************************************************)
EXTENDS Naturals, Sequences, FiniteSets

CONSTANTS
  Proc,             \* processes (or threads) that use the log
  Payload,          \* the records callers pass to append
  Reserved,         \* payloads that carry the "_chain" key themselves
  Strip(_),         \* a payload without its "_chain" key
  Splitting,        \* payloads with a separator (U+0085, U+2028, U+2029) in a string
  EventId,          \* the uuid4 identities of rows
  Hash,             \* digests
  Genesis,          \* GENESIS_HASH
  Digest(_, _, _),  \* SHA-256 of (event_id, payload, previous_hash)
  MaxOldLines,      \* bound: lines the file already holds when the model starts
  Tears,            \* where a short write may end: "row" and/or "newline"
  None              \* no lock holder, no unterminated piece, no append under way

ASSUME ChainAssumption ==
  /\ Genesis \in Hash
  /\ \A e \in EventId, d \in Payload, h \in Hash : Digest(e, d, h) \in Hash
  /\ Reserved \subseteq Payload
  /\ \A d \in Payload : Strip(d) \in Payload
  /\ \A d \in Payload \ Reserved : Strip(d) = d
  /\ Splitting \subseteq Payload
  /\ None \notin Proc /\ None \notin EventId
  /\ MaxOldLines \in Nat
  /\ Tears \subseteq {"row", "newline"}

(* What SHA-256 is trusted for: a digest tells the event and the payload it  *)
(* was computed from, and is neither its own link nor the genesis hash.  Only *)
(* the proof that tampering shows supposes it.                               *)
DigestsOf(e, d) == {Digest(e, d, h) : h \in Hash}

CollisionFree ==
  /\ \A e, f \in EventId, c, d \in Payload :
       <<e, c>> # <<f, d>> => DigestsOf(e, c) \cap DigestsOf(f, d) = {}
  /\ \A e \in EventId, d \in Payload, h \in Hash : Digest(e, d, h) \notin {h, Genesis}

(* Lines: a chained row, a row written before chaining existed, a blank    *)
(* line, a piece of a row, and two rows run together.  The last two do not *)
(* parse.                                                                  *)
Rows == [kind : {"row"}, id : EventId, payload : Payload,
         previous_hash : Hash, current_hash : Hash]
Legacy  == [kind |-> "legacy"]
Blank   == [kind |-> "blank"]
Torn    == [kind |-> "torn"]
Joined  == [kind |-> "joined"]
Lines   == Rows \cup {Legacy, Blank, Torn, Joined}

Entries == [id : EventId, payload : Payload]

ASSUME NoneAssumption == None \notin Lines /\ None \notin Entries

VARIABLES
  lines,       \* the terminated lines of the file
  partial,     \* the unterminated piece after them, or None
  writer,      \* holder of LOCK_EX, or None
  readers,     \* holders of LOCK_SH
  pc,          \* where each process is
  entry,       \* the event and payload each process is appending
  link,        \* the tail hash each process read
  acked,       \* events whose append returned without raising
  raised       \* the kinds of read that met a half-written row of a running append

file  == <<lines, partial>>
locks == <<writer, readers>>
vars  == <<lines, partial, writer, readers, pc, entry, link, acked, raised>>

-----------------------------------------------------------------------------
(* Reading the file. *)

(* json.loads of the whole line, as the tail read has it. *)
Parses(line) == line.kind \notin {"torn", "joined"}

(* append leaves a separator in a string as it is (ensure_ascii=False), and  *)
(* str.splitlines cuts the row there into pieces none of which parses.       *)
Splits(line) == line.kind = "row" /\ line.payload \in Splitting

(* json.loads of every piece a reader makes of the line. *)
Reads(line) == Parses(line) /\ ~Splits(line)

(* The file cut at its newlines: a trailing piece counts as a line. *)
Contents == IF partial = None THEN lines ELSE Append(lines, partial)

(* The position of the last line before position i that is not blank, or 0. *)
LastBefore(ls, i) ==
  IF \E j \in 1 .. (i - 1) : ls[j].kind # "blank"
  THEN CHOOSE j \in 1 .. (i - 1) :
         /\ ls[j].kind # "blank"
         /\ \A k \in (j + 1) .. (i - 1) : ls[k].kind = "blank"
  ELSE 0

(* The hash a row at position i must link to, given what precedes it:      *)
(* genesis for an empty or blank file and after an unchained row.          *)
LinkAt(ls, i) ==
  LET j == LastBefore(ls, i)
  IN  IF j = 0 \/ ls[j].kind # "row" THEN Genesis ELSE ls[j].current_hash

_tail_hash(ls) == LinkAt(ls, Len(ls) + 1)

(* Mutant: a tail that does not parse counts as a row without a hash. *)
TailParses_always(ls) == TRUE

TailParses(ls) ==
  LET j == LastBefore(ls, Len(ls) + 1)
  IN  j = 0 \/ Parses(ls[j])

(* Mutant: verify follows the links and does not compute the digests. *)
Intact_unchecked(row) == TRUE

(* The stored digest is the one of the row's own content. *)
Intact(row) == row.current_hash = Digest(row.id, row.payload, row.previous_hash)

(* Does verify() accept the file?  read_all raises on a line it cannot read  *)
(* and drops the blank ones; every chained row links to the row before it    *)
(* and is intact, and once one row is chained all are.                       *)
verify(ls) ==
  \A i \in DOMAIN ls :
    /\ Reads(ls[i])
    /\ ls[i].kind = "row" => ls[i].previous_hash = LinkAt(ls, i) /\ Intact(ls[i])
    /\ ls[i].kind \notin {"row", "blank"} => \A j \in 1 .. (i - 1) : ls[j].kind # "row"

-----------------------------------------------------------------------------
(* Appending. *)

(* A log from before chaining, which an editor may have left blank lines in. *)
OldLogs == UNION {[1 .. n -> {Legacy, Blank}] : n \in 0 .. MaxOldLines}

Init ==
  /\ lines \in OldLogs
  /\ partial = None
  /\ writer = None /\ readers = {}
  /\ pc = [p \in Proc |-> "idle"]
  /\ entry = [p \in Proc |-> None]
  /\ link = [p \in Proc |-> Genesis]
  /\ acked = {}
  /\ raised = {}

EventsOf(ls) == {ls[i].id : i \in {j \in DOMAIN ls : ls[j].kind = "row"}}

Busy(p) == pc[p] \notin {"idle", "reading"}

(* append() is called.  A payload with the reserved key raises here, before *)
(* the file is touched; uuid4 never repeats an identity.                    *)
AppendCall(p) ==
  /\ pc[p] = "idle"
  /\ \E d \in Payload \ Reserved, e \in EventId :
       /\ e \notin EventsOf(Contents) \cup acked
       /\ \A q \in Proc : Busy(q) => entry[q].id # e
       /\ entry' = [entry EXCEPT ![p] = [id |-> e, payload |-> d]]
  /\ pc' = [pc EXCEPT ![p] = "waiting"]
  /\ UNCHANGED <<file, locks, link, acked, raised>>

(* Mutant: no lock around the tail read and the write. *)
AcquireEX_unlocked(p) ==
  /\ pc[p] = "waiting"
  /\ writer' = p
  /\ pc' = [pc EXCEPT ![p] = "locked"]
  /\ UNCHANGED <<file, readers, entry, link, acked, raised>>

(* flock(LOCK_EX) is granted. *)
AcquireEX(p) ==
  /\ pc[p] = "waiting"
  /\ writer = None /\ readers = {}
  /\ writer' = p
  /\ pc' = [pc EXCEPT ![p] = "locked"]
  /\ UNCHANGED <<file, readers, entry, link, acked, raised>>

(* The tail is read back; a tail that does not parse raises ValueError. *)
ReadTail(p) ==
  /\ pc[p] = "locked"
  /\ IF TailParses(Contents)
     THEN /\ link' = [link EXCEPT ![p] = _tail_hash(Contents)]
          /\ pc' = [pc EXCEPT ![p] = "linked"]
     ELSE /\ pc' = [pc EXCEPT ![p] = "raising"]
          /\ UNCHANGED link
  /\ UNCHANGED <<file, locks, entry, acked, raised>>

(* The row this process writes. *)
RowOf(p) ==
  [kind |-> "row", id |-> entry[p].id, payload |-> Strip(entry[p].payload),
   previous_hash |-> link[p],
   current_hash |-> Digest(entry[p].id, entry[p].payload, link[p])]

(* The first write call of the row lands; the bytes follow whatever ends   *)
(* the file, even a row that lacks only its newline.                       *)
WriteHead(p) ==
  /\ pc[p] = "linked"
  /\ partial' = IF partial = None THEN Torn ELSE Joined
  /\ pc' = [pc EXCEPT ![p] = "writing"]
  /\ UNCHANGED <<lines, locks, entry, link, acked, raised>>

(* handle.flush(): the rest of the row and its newline land. *)
Flush(p) ==
  /\ pc[p] = "writing"
  /\ lines' = Append(lines, IF partial = Torn THEN RowOf(p) ELSE Joined)
  /\ partial' = None
  /\ pc' = [pc EXCEPT ![p] = "flushed"]
  /\ UNCHANGED <<locks, entry, link, acked, raised>>

(* The locals of append go out of scope. *)
Return(p) ==
  /\ pc' = [pc EXCEPT ![p] = "idle"]
  /\ entry' = [entry EXCEPT ![p] = None]
  /\ link' = [link EXCEPT ![p] = Genesis]

(* Mutant: the ValueError of a damaged tail is swallowed. *)
Unlock_swallows(p) ==
  /\ pc[p] \in {"flushed", "raising"}
  /\ writer' = None
  /\ acked' = acked \cup {entry[p].id}
  /\ Return(p)
  /\ UNCHANGED <<file, readers, raised>>

(* Mutant: no "finally": the ValueError leaves the lock held. *)
Unlock_leaks(p) ==
  /\ pc[p] \in {"flushed", "raising"}
  /\ writer' = IF pc[p] = "flushed" THEN None ELSE writer
  /\ acked' = IF pc[p] = "flushed" THEN acked \cup {entry[p].id} ELSE acked
  /\ Return(p)
  /\ UNCHANGED <<file, readers, raised>>

(* flock(LOCK_UN), then append returns or the ValueError propagates. *)
Unlock(p) ==
  /\ pc[p] \in {"flushed", "raising"}
  /\ writer' = None
  /\ acked' = IF pc[p] = "flushed" THEN acked \cup {entry[p].id} ELSE acked
  /\ Return(p)
  /\ UNCHANGED <<file, readers, raised>>

(* The process stops, or its write comes up short, before append returns:  *)
(* what it wrote stays, what it buffered is gone, closing the file         *)
(* releases the lock.                                                      *)
Fault(p) ==
  /\ Busy(p)
  /\ pc[p] = "writing" => "row" \in Tears
  /\ writer' = IF writer = p THEN None ELSE writer
  /\ Return(p)
  /\ UNCHANGED <<file, readers, acked, raised>>

(* The short write that lacks only the newline. *)
LoseNewline(p) ==
  /\ "newline" \in Tears
  /\ pc[p] = "writing" /\ partial = Torn
  /\ partial' = RowOf(p)
  /\ writer' = None
  /\ Return(p)
  /\ UNCHANGED <<lines, readers, acked, raised>>

-----------------------------------------------------------------------------
(* Reading. *)

(* A write that stopped half way left this behind, and no writer is at it. *)
Damaged ==
  \/ \E i \in DOMAIN lines : ~Parses(lines[i])
  \/ partial = Joined
  \/ partial # None /\ \A p \in Proc : pc[p] # "writing"

(* json.loads raises on a line that does not parse.  (It raises on a row that *)
(* splits as well, at every read from then on: see SeparatorsReadBack.)      *)
Raises(kind) ==
  IF (\E i \in DOMAIN Contents : ~Parses(Contents[i])) /\ ~Damaged
  THEN raised \cup {kind}
  ELSE raised

(* Mutant: read_all takes no lock. *)
AcquireSH_unlocked(p) ==
  /\ pc[p] = "idle"
  /\ readers' = readers \cup {p}
  /\ pc' = [pc EXCEPT ![p] = "reading"]
  /\ UNCHANGED <<file, writer, entry, link, acked, raised>>

(* read_all: flock(LOCK_SH), read, parse, unlock. *)
AcquireSH(p) ==
  /\ pc[p] = "idle"
  /\ writer = None
  /\ readers' = readers \cup {p}
  /\ pc' = [pc EXCEPT ![p] = "reading"]
  /\ UNCHANGED <<file, writer, entry, link, acked, raised>>

ReadAll(p) ==
  /\ pc[p] = "reading"
  /\ raised' = Raises("read_all")
  /\ readers' = readers \ {p}
  /\ pc' = [pc EXCEPT ![p] = "idle"]
  /\ UNCHANGED <<file, writer, entry, link, acked>>

(* ReplayEngine._rows: the same bytes, no lock. *)
Replay(p) ==
  /\ pc[p] = "idle"
  /\ raised' = Raises("replay")
  /\ UNCHANGED <<file, locks, pc, entry, link, acked>>

-----------------------------------------------------------------------------
(* A write has lost only its newline: its row, which parses, is the         *)
(* unterminated piece, or another row has landed on the same line.          *)
NewlineLost ==
  \/ partial # None /\ partial.kind \in {"row", "joined"}
  \/ \E i \in DOMAIN lines : lines[i].kind = "joined"

(* What a process does without being asked again: everything but the calls *)
(* and the faults.                                                         *)
Step(p) ==
  AcquireEX(p) \/ ReadTail(p) \/ WriteHead(p) \/ Flush(p) \/ Unlock(p) \/ ReadAll(p)

Next ==
  \E p \in Proc :
    \/ AppendCall(p) \/ AcquireEX(p) \/ ReadTail(p) \/ WriteHead(p) \/ Flush(p)
    \/ Unlock(p) \/ Fault(p) \/ LoseNewline(p)
    \/ AcquireSH(p) \/ ReadAll(p) \/ Replay(p)

Spec == Init /\ [][Next]_vars

(* A call, once made, keeps running, as the operating system schedules its  *)
(* process.  Nothing is assumed of flock but that it is granted when it is  *)
(* free for good: it prefers no waiter, and readers that overlap for ever   *)
(* can keep a writer out for ever.                                          *)
Fairness == \A p \in Proc : WF_vars(Step(p))

FairSpec == Spec /\ Fairness

-----------------------------------------------------------------------------
(* Properties *)

TypeOK ==
  /\ lines \in Seq(Lines)
  /\ partial \in Lines \cup {None}
  /\ writer \in Proc \cup {None}
  /\ readers \subseteq Proc
  /\ pc \in [Proc -> {"idle", "waiting", "locked", "linked", "writing",
                       "flushed", "raising", "reading"}]
  /\ entry \in [Proc -> Entries \cup {None}]
  /\ link \in [Proc -> Hash]
  /\ acked \subseteq EventId
  /\ raised \subseteq {"read_all", "replay"}

(* Every chained row links to the row before it and carries its own digest, *)
(* whatever the interleaving of the processes that append: the chain never  *)
(* forks (jsonl.py:102-114).                                                *)
Linked ==
  \A i \in DOMAIN lines :
    lines[i].kind = "row" =>
      /\ lines[i].previous_hash = LinkAt(lines, i)
      /\ lines[i].current_hash =
           Digest(lines[i].id, lines[i].payload, lines[i].previous_hash)

(* Who holds the lock: a writer excludes everyone else, from the grant of   *)
(* LOCK_EX until it is released.                                            *)
Holding(p) == pc[p] \in {"locked", "linked", "writing", "flushed", "raising"}

LockDiscipline ==
  /\ \A p \in Proc : Holding(p) <=> writer = p
  /\ \A p \in Proc : pc[p] = "reading" <=> p \in readers
  /\ writer # None => readers = {}

(* The hash a writer read stays the hash of the tail until its row is       *)
(* written: no other row comes in between (jsonl.py:110-114, 189-190).      *)
LinkIsTail ==
  \A p \in Proc :
    /\ pc[p] = "linked" => TailParses(Contents) /\ link[p] = _tail_hash(Contents)
    /\ pc[p] = "writing" =>
         \/ partial = Torn /\ TailParses(lines) /\ link[p] = _tail_hash(lines)
         \/ partial = Joined

(* What an append under way holds. *)
EntriesWellFormed ==
  \A p \in Proc :
    /\ Busy(p) <=> entry[p] # None
    /\ Busy(p) => entry[p].payload \notin Reserved

(* The strengthening of Linked that every step preserves. *)
ChainInv == TypeOK /\ LockDiscipline /\ LinkIsTail /\ EntriesWellFormed /\ Linked

(* While read_all can read every line, verify() accepts the log.  It rejects *)
(* the log after any chained row is given another payload; after any but the *)
(* last is rewritten, even with its hash computed anew, or is removed; and   *)
(* after two rows change places (jsonl.py:88-94, SECURITY.md:50).            *)
TamperEvident ==
  LET Chained == {i \in DOMAIN lines : lines[i].kind = "row"}
      Without(i) == [j \in 1 .. (Len(lines) - 1) |-> lines[IF j < i THEN j ELSE j + 1]]
      Rewritten(i, e, d) ==
        [lines EXCEPT ![i].id = e, ![i].payload = d,
                      ![i].current_hash = Digest(e, d, lines[i].previous_hash)]
      Swapped(i, j) == [lines EXCEPT ![i] = lines[j], ![j] = lines[i]]
  IN  (\A i \in DOMAIN lines : Reads(lines[i])) =>
        /\ verify(lines)
        /\ \A i \in Chained :
             /\ \A d \in Payload \ {lines[i].payload} :
                  ~verify([lines EXCEPT ![i].payload = d])
             /\ i # Len(lines) =>
                  /\ ~verify(Without(i))
                  /\ \A e \in EventId, d \in Payload :
                       <<e, d>> # <<lines[i].id, lines[i].payload>> =>
                         ~verify(Rewritten(i, e, d))
             /\ \A j \in Chained : i < j => ~verify(Swapped(i, j))

(* An append that returned has its row in the file, as one line, exactly     *)
(* once: no crash, torn row or concurrent append loses or repeats it         *)
(* (jsonl.py:254-288).  A lost newline does: see Departures in README.md.    *)
(* That the line is there is what the next append sees (_tail_hash); whether *)
(* a reader can read it back is SeparatorsReadBack.                          *)
AckedRowsSurvive ==
  NewlineLost \/ \A e \in acked :
    \E i \in DOMAIN lines :
      /\ lines[i].kind = "row" /\ lines[i].id = e
      /\ \A j \in DOMAIN lines \ {i} : lines[j].kind = "row" => lines[j].id # e

(* Rows hold their text as it is rather than escaped, "so both forms verify  *)
(* identically and json.loads reads either" (jsonl.py:284-286): a file that  *)
(* no write left damaged, and nobody is writing, can be read and verified.   *)
(* Not kept by the code: a row with a separator is acknowledged, later       *)
(* appends link to it, and no reader gets past it (see Departures in         *)
(* README.md).                                                               *)
SeparatorsReadBack ==
  Damaged \/ NewlineLost \/ (\E p \in Proc : Busy(p)) \/ verify(lines)

(* read_all never meets a half-written row of a running append              *)
(* (jsonl.py:155-184).                                                      *)
LockedReadsSucceed == "read_all" \notin raised

(* Replay never meets a half-written row of a running append: what the      *)
(* comment at jsonl.py:159-168 asks of every reader of this file.           *)
(* Not kept by the code: see Departures in README.md.                       *)
ReplayReadsSucceed == "replay" \notin raised

(* Once a writer has stopped half way, no append touches the file: the      *)
(* damage is reported, never buried under rows that look sound              *)
(* (jsonl.py:236-247).  A lost newline is not seen as damage.               *)
DamageStopsAppends == [][Damaged /\ ~NewlineLost => UNCHANGED file]_vars

(* Nobody keeps the lock for ever: once callers pause, and readers with them, *)
(* every append under way comes back, with the row written, with the         *)
(* ValueError or because its process stopped, however many processes wait    *)
(* and whatever was damaged before.                                          *)
Called == \E p \in Proc : AppendCall(p) \/ AcquireSH(p)

AppendsDrain ==
  <>[][~Called]_vars => \A p \in Proc : pc[p] = "waiting" ~> pc[p] = "idle"

(* The log implements AppendOnlyLog: rows are added at the end only, once,  *)
(* linked to their predecessor, and stay, until a newline is lost.          *)
EventOf(line) == IF line.kind = "row" THEN line.id ELSE None

LinksTo(line, ls) ==
  /\ line.previous_hash = LinkAt(ls, Len(ls) + 1)
  /\ line.current_hash = Digest(line.id, line.payload, line.previous_hash)

OldLog(ls) == ls \in OldLogs

Abstract == INSTANCE AppendOnlyLog WITH
  log <- lines, acked <- acked, Event <- EventId,
  OldLog <- OldLog, EventOf <- EventOf, LinksTo <- LinksTo

ImplementsAppendOnlyLog ==
  Abstract!Init /\ [][NewlineLost' \/ Abstract!Next]_<<lines, acked>>
=============================================================================
