--------------------------- MODULE MCCapabilities ---------------------------
(* Instances of Capabilities for TLC. *)
EXTENDS Capabilities, TLC

CONSTANTS a1, a2, m1, m2

MCAdapter  == {a1, a2}
MCManifest == {m1, m2}

Symmetry == Permutations(MCAdapter) \cup Permutations(MCManifest)
=============================================================================
