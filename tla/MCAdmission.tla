----------------------------- MODULE MCAdmission -----------------------------
(* An instance of Admission for TLC: two requests over two pools.           *)
EXTENDS Admission, TLC
CONSTANTS r1, r3, cap, all

\* r1 needs the cap's own pool and "all", r3 only "all".
OverlappingChains == (r1 :> {cap, all}) @@ (r3 :> {all})
=============================================================================
