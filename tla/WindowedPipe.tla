---------------------------- MODULE WindowedPipe ----------------------------
(***************************************************************************)
(* What one credited stream promises, whatever the mechanism behind it:    *)
(* items go in at one end and come out at the other, never more come out   *)
(* than went in, and at no moment are more than Window of them on the way. *)
(* CreditStream implements this with gates, windows and CREDIT frames.     *)
(***************************************************************************)
EXTENDS Naturals

CONSTANT Window    \* items that may be under way at once

VARIABLES begun,   \* items whose first frame the sender has put on the wire
          taken    \* items the receiving handler has taken

pipeVars == <<begun, taken>>

Init == begun = 0 /\ taken = 0

\* The sender begins another item; only while fewer than Window are under way.
Begin == /\ begun - taken < Window
         /\ begun' = begun + 1
         /\ taken' = taken

\* The receiver takes an item that was begun.
Take == /\ taken < begun
        /\ taken' = taken + 1
        /\ begun' = begun

Next == Begin \/ Take

Spec == Init /\ [][Next]_pipeVars
=============================================================================
