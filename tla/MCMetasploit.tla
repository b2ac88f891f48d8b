---------------------------- MODULE MCMetasploit ----------------------------
(* Instances of Metasploit for TLC: a read-only capability, a consequential  *)
(* one, a severe one in an odd spelling, one nobody knows.                   *)
EXTENDS Metasploit

MCCapability == {"module.info", "module.execute", "Session.Create", "shell.upload"}
MCSpelling == [c \in {"Session.Create"} |-> "session.create"]
MCTarget == {"lab", "other"}
MCScope == {"lab-1"}
MCParams == {"plain", "assertion"}
MCLifetimes == {0, 2}
=============================================================================
