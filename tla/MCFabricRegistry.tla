-------------------------- MODULE MCFabricRegistry --------------------------
(* Instances of FabricRegistry for TLC: caps over one medium and one dim,   *)
(* and two manifests between which the medium and the dim were revised.     *)
EXTENDS FabricRegistry, TLC

Shared == [c \in Caps |-> Media]
AllDims == [d \in Queueable |-> Dims]
Revisions == [p \in Pins |-> [d \in Definitions |-> IF d \in Caps THEN 1 ELSE p]]
=============================================================================
