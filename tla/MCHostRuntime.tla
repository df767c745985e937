---------------------------- MODULE MCHostRuntime ----------------------------
(* Instances of HostRuntime for TLC.                                         *)
EXTENDS HostRuntime, TLC
CONSTANTS a, b, c1, c2, p1

Both == <<a, b>>
OnlyOne == <<a>>
\* The calls are for the first install, their peer requests for the second.
OfFirst == [p \in Peers |-> c1]
FirstThenSecond == [r \in Served |-> IF r \in Calls THEN a ELSE b]

\* What the proof about waiting peers assumes holds of the instance with peers.
ASSUME PeersAreSteady == SteadyPeers
=============================================================================
