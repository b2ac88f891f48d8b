------------------------ MODULE MCRefinementSession -------------------------
(* Instances of Report for TLC: a candidate that passes, one that fails, one *)
(* that does not come to an end.                                             *)
EXTENDS Report

MCCode == {"correct", "broken", "loops"}

MCSandbox(c) ==
  CASE c = "correct" -> "passed"
    [] c = "broken"  -> "failed"
    [] c = "loops"   -> "error"
=============================================================================
