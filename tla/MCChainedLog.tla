---------------------------- MODULE MCChainedLog ----------------------------
(* Instances of ChainedLog for TLC: digests are the tuples they are computed *)
(* from, so they are injective, and a chain is as deep as there are events.  *)
EXTENDS ChainedLog

CONSTANTS p1, p2, p3, e1, e2, e3, d1, ds, dk, g, m1, m2

MCProc      == {p1, p2, p3}
MCPayload   == {d1, ds, dk}
MCReserved  == {dk}
MCSplitting == {ds}
MCStrip(d)  == IF d = dk THEN d1 ELSE d
MCEventId   == {e1, e2, e3}

(* The digests of chains of at most n rows. *)
HashesUpTo(n) ==
  LET upTo[i \in 0 .. n] ==
        IF i = 0 THEN {g} ELSE upTo[i - 1] \cup (EventId \X Payload \X upTo[i - 1])
  IN  upTo[n]

(* A chain that has used every event cannot grow, so the digest after its    *)
(* last row is never taken; two marks by turns keep it free of collisions.   *)
Marked(m) == EventId \X Payload \X {m}
MCHash    == HashesUpTo(Cardinality(EventId)) \cup Marked(m1) \cup Marked(m2)

ShortHashes == HashesUpTo(Cardinality(EventId) - 1)
MCDigest(e, d, h) ==
  <<e, d, IF h \in ShortHashes THEN h ELSE IF h \in Marked(m1) THEN m2 ELSE m1>>

(* What TamperingShows supposes of digests holds of these. *)
ASSUME CollisionFreeAssumption == CollisionFree
=============================================================================
