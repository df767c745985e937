--------------------------- MODULE MCCreditStream ---------------------------
(* Instances of CreditStream for TLC, and plausible bugs to try it with.   *)
EXTENDS CreditStream
CONSTANTS t1, t2, b1
=============================================================================
