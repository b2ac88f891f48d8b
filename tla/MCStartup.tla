------------------------------ MODULE MCStartup ------------------------------
(* Instances of Startup for TLC: two environments, of which "production" is *)
(* the name the fallback profile takes, and two configuration directories.  *)
EXTENDS Startup

TwoNames == {"production", "RIF_CI"}

TwoDirs == {"config", "etc"}
==============================================================================
