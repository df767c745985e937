-------------------------- MODULE MCCartridgeRequest --------------------------
(* Instances of CartridgeRequest for TLC.                                    *)
EXTENDS CartridgeRequest, TLC
CONSTANTS r1, r2, r3, all

\* Everybody needs the one pool there is.
OnePool == [r \in Requests |-> {all}]
\* The second request, which streams, meets one that came before it and one
\* that comes after it.
InOrder == [r \in Requests |-> IF r = r2 THEN {r1} ELSE IF r = r3 THEN {r2} ELSE {}]
=============================================================================
