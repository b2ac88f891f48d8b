-------------------------------- MODULE MCApi --------------------------------
(* Instances of Api for TLC: two calls side by side, one API key. *)
EXTENDS Api

CONSTANTS c1, c2, k

TwoCalls == {c1, c2}
OneKey   == {k}
=============================================================================
