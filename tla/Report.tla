------------------------------- MODULE Report --------------------------------
(***************************************************************************)
(* The command around a session (main, write_session, write_report of       *)
(* run_session.py): a finished session leaves its trace in a file of its    *)
(* own, then a row, keyed by task and model, in mst_report.json, and        *)
(* mst_report.md is rendered from all rows.                                 *)
(*                                                                          *)
(* Both reports are read whole and rewritten in place, with no lock and no  *)
(* rename.  Another command writes the same two files at any time, and      *)
(* either command may be stopped between any two file operations.  The      *)
(* other command acts once this session is over: while a session runs it    *)
(* touches neither file, so what another does meanwhile is a different Init. *)
(***************************************************************************)
EXTENDS RefinementSession

VARIABLES
  trace,   \* the session's own file: "absent", "blank" or "whole"
  json,    \* mst_report.json
  md,      \* mst_report.md
  writer,  \* what each command is doing
  met      \* history: have the two commands' updates overlapped?

files == <<trace, json, md>>
report_vars == <<trace, json, md, writer, met>>
all_vars == <<vars, report_vars>>

(* A command is named for the row it writes. *)
Command == {"mine", "other"}

-----------------------------------------------------------------------------
(* Files.  A row of an older report may lack turns_blocked and              *)
(* score_is_meaningful; "none" stands for no row at all.                    *)

Row == {"none", "older", "scored", "unverified"}

File(state, rows) == [state |-> state, rows |-> rows]
NoRows == [k \in Command |-> "none"]
Blank == File("blank", NoRows)

(* What write_text leaves over what the file held when the text arrived. *)
Written(rows, over) ==
  IF over.state = "blank" THEN {File("whole", rows)}
  ELSE {File("whole", rows), File("garbled", NoRows)}

Idle == [at |-> "idle", row |-> "none", merged |-> NoRows]

Ongoing(c) == writer[c].at \notin {"idle", "stopped", "refused", "exit_0", "exit_1"}

Goes(c, place) == writer' = [writer EXCEPT ![c].at = place]

Ends(c, how) == writer' = [writer EXCEPT ![c] = [@ EXCEPT !.at = how, !.merged = NoRows]]

Noted == met' = (met \/ \A c \in Command : Ongoing(c)')

-----------------------------------------------------------------------------
(* main: the session returned, write_session opens the file of its trace *)
Begin ==
  /\ phase = "finished" /\ writer["mine"] = Idle
  /\ writer' = [writer EXCEPT !["mine"].at = "trace",
       !["mine"].row = IF result.score_is_meaningful THEN "scored" ELSE "unverified"]
  /\ trace' = "blank"
  /\ UNCHANGED <<vars, json, md>>
  /\ Noted

(* and writes it. *)
WriteTrace ==
  /\ writer["mine"].at = "trace"
  /\ trace' = "whole"
  /\ Goes("mine", "read")
  /\ UNCHANGED <<vars, json, md>>
  /\ Noted

(* The other command, its session written, reaches write_report. *)
Arrive ==
  /\ ~Going /\ writer["other"] = Idle
  /\ writer' = [writer EXCEPT !["other"].at = "read", !["other"].row = "scored"]
  /\ UNCHANGED <<vars, files>>
  /\ Noted

(* Mutant: the rows of this run replace the report. *)
Merged_alone(row, c, rows) == [NoRows EXCEPT ![c] = row]

Merged(row, c, rows) == [rows EXCEPT ![c] = row]

(* json.loads of a blank or a garbled report raises. *)
ReadReport(c) ==
  /\ writer[c].at = "read"
  /\ IF json.state \in {"absent", "whole"}
     THEN writer' = [writer EXCEPT ![c].at = "open",
                                   ![c].merged = Merged(writer[c].row, c, json.rows)]
     ELSE Ends(c, "refused")
  /\ UNCHANGED <<vars, files>>
  /\ Noted

OpenJson(c) ==
  /\ writer[c].at = "open"
  /\ json' = Blank
  /\ Goes(c, "json")
  /\ UNCHANGED <<vars, trace, md>>
  /\ Noted

WriteJson(c) ==
  /\ writer[c].at = "json"
  /\ json' \in Written(writer[c].merged, json)
  /\ Goes(c, "render")
  /\ UNCHANGED <<vars, trace, md>>
  /\ Noted

OpenMd(c) ==
  /\ writer[c].at = "render"
  /\ md' = Blank
  /\ Goes(c, "md")
  /\ UNCHANGED <<vars, trace, json>>
  /\ Noted

(* Mutant: the report before turns_blocked and score_is_meaningful reached it. *)
Shown_unmarked(row) == IF row = "none" THEN "none" ELSE "score"

(* How a row's score is shown; a missing key counts as meaningful. *)
Shown(row) ==
  CASE row = "none"       -> "none"
    [] row = "unverified" -> "INVALID"
    [] OTHER              -> "score"

Rendered(rows) == [k \in Command |-> Shown(rows[k])]

(* The last file; main returns 1 for a score that means nothing. *)
WriteMd(c) ==
  /\ writer[c].at = "md"
  /\ md' \in Written(Rendered(writer[c].merged), md)
  /\ Ends(c, IF writer[c].row = "unverified" THEN "exit_1" ELSE "exit_0")
  /\ UNCHANGED <<vars, trace, json>>
  /\ Noted

(* The process ends, or a file operation raises. *)
Stop(c) ==
  /\ Ongoing(c)
  /\ Ends(c, "stopped")
  /\ UNCHANGED <<vars, files>>
  /\ Noted

-----------------------------------------------------------------------------
(* What earlier commands left: nothing, or rows of the same keys. *)
ReportInit ==
  /\ Init
  /\ trace = "absent"
  /\ json \in {File("absent", NoRows)} \cup
       {File("whole", rows) : rows \in 
          {r \in [Command -> Row] : r["mine"] \in {"none", "unverified"}
                                     /\ r["other"] \in {"none", "older"}}}
  /\ md = File(json.state, Rendered(json.rows))
  /\ writer = [c \in Command |-> Idle]
  /\ met = FALSE

ReportNext ==
  \/ Next /\ UNCHANGED report_vars
  \/ Begin \/ WriteTrace \/ Arrive
  \/ \E c \in Command :
       ReadReport(c) \/ OpenJson(c) \/ WriteJson(c)
         \/ OpenMd(c) \/ WriteMd(c) \/ Stop(c)

ReportSpec == ReportInit /\ [][ReportNext]_all_vars

-----------------------------------------------------------------------------
(* Properties *)

Stopped == \E c \in Command : writer[c].at = "stopped"
Exited(c) == writer[c].at \in {"exit_0", "exit_1"}

(* A row, once its command has exited, stays: unless two commands met or one *)
(* was stopped, the report can be read, holds the row of every command that  *)
(* exited, in whatever order, and the two files agree                        *)
(* (run_session.py:219-228, 258-261).                                        *)
ReportKeepsRows ==
  (~met /\ ~Stopped /\ ~(\E c \in Command : Ongoing(c))) =>
    /\ json.state \in {"absent", "whole"}
    /\ \A c \in Command : writer[c].at # "refused"
    /\ \A c \in Command : Exited(c) => json.rows[c] = writer[c].row
    /\ md = File(json.state, Rendered(json.rows))

(* A session of which every turn was blocked, or which had no turns,        *)
(* verified nothing: its exit status and the readable report say so, and of *)
(* no other session's, and whatever row they show has its whole trace on    *)
(* disk (run_session.py:174-179, 240-246, 291-303).                         *)
BlockedScoresAreMarked ==
  LET unverified == BlockedTurns(events) = DOMAIN events
  IN  Exited("mine") =>
        /\ trace = "whole"
        /\ (writer["mine"].at = "exit_1") = unverified
        /\ (~met /\ md.state = "whole") =>
             (md.rows["mine"] = "INVALID") = unverified
=============================================================================
