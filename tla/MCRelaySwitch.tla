---------------------------- MODULE MCRelaySwitch ----------------------------
(* Instances of RelaySwitch for TLC: p1 is made for c1, p2 for p1.          *)
EXTENDS RelaySwitch

CONSTANTS m1, m2, c1, c2, p1, p2, k1, k2

Lineage == [p \in Peers |-> IF p = p1 THEN c1 ELSE p1]
==============================================================================
