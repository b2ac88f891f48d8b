---------------------------- MODULE AppendOnlyLog ----------------------------
(***************************************************************************)
(* What the decision log promises its callers, whatever the processes that *)
(* share the file do: rows are only added, and only at the end; an event   *)
(* is added at most once; every row carries the hash of its predecessor;   *)
(* and an append that returned stays in the log.  ChainedLog implements it *)
(* with a file, a lock, a tail read and several write calls.               *)
(***************************************************************************)
EXTENDS Naturals, Sequences

CONSTANTS
  Event,               \* identities of events
  OldLog(_),           \* is this sequence of lines a log this class may inherit?
  EventOf(_),          \* the event a line records
  LinksTo(_, _)        \* is this line a correct successor of this sequence?

VARIABLES
  log,                 \* the lines of the log, oldest first
  acked                \* the events whose append has returned

Init ==
  /\ OldLog(log)
  /\ acked = {}

Recorded(event) ==
  \E i \in DOMAIN log : EventOf(log[i]) = event

Commit(event, line) ==
  /\ EventOf(line) = event
  /\ ~Recorded(event)
  /\ LinksTo(line, log)
  /\ log' = Append(log, line)
  /\ UNCHANGED acked

Acknowledge(event) ==
  /\ Recorded(event)
  /\ acked' = acked \cup {event}
  /\ UNCHANGED log

(* The new line is the last one of the next log: stated so, a checker needs *)
(* no set of all lines to enumerate.                                        *)
Next ==
  \E event \in Event :
    \/ log' # log /\ Commit(event, log'[Len(log')])
    \/ Acknowledge(event)

Spec == Init /\ [][Next]_<<log, acked>>
=============================================================================
