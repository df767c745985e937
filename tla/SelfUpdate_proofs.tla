------------------------- MODULE SelfUpdate_proofs -------------------------
(***************************************************************************)
(* For any number of releases and both systems: a new executable never     *)
(* stands beside older cartridges, and cartridges are never lost but in    *)
(* undoing an install.  The inductive invariant says what the update       *)
(* relies on at each of its operations: what is in the staging directory,  *)
(* that the previous cartridges may come back as long as the executable is *)
(* the old one, and where a whole set of cartridges is.                    *)
(***************************************************************************)
EXTENDS SelfUpdate, TLAPS

\* The operations that follow the first rename, up to the executable's.
Swapped == {"dispose", "retire", "replace", "reinstate"}
\* What was moved aside could come back beside an executable of release r.
FitsBack(r) == previous # Nothing => previous.release >= r

\* The release on its way in is newer, and where it is.
Staged ==
  /\ pc \in {"unpack", "aside", "place", "undo"} \cup Swapped => staging
  /\ pc \in {"stage", "unpack", "aside", "place"} \cup Swapped => target >= exe
  /\ pc \in {"aside", "place"} => fresh = Whole(target)
  /\ pc \in Swapped => cart = Whole(target)

\* The cartridges that were moved aside belong to the executable while it has
\* not been replaced.
Paired ==
  /\ PairPublished
  /\ cart = Nothing => FitsBack(exe)
  /\ pc \in {"place", "undo"} \cup Swapped => FitsBack(exe)
  /\ pc = "reinstate" \/ (pc = "replace" /\ os # "unix") => target >= old /\ FitsBack(old)

\* Where a whole set of cartridges is.
Kept ==
  \/ marred
  \/ pc \in {"idle", "recover"} /\ (cart.whole \/ Recoverable)
  \/ pc \in {"sweep", "registry", "stage", "unpack", "aside", "clear"} /\ cart.whole
  \/ pc = "place" /\ previous.whole /\ cart = Nothing
  \/ pc \in {"undo"} \cup Swapped /\ previous.whole

Inv == TypeOK /\ Staged /\ Paired /\ Kept

-----------------------------------------------------------------------------
\* What is removed piece by piece stays a directory of its release until it is
\* gone.
LEMMA Shrinking ==
  ASSUME NEW dir \in Directories
  PROVE  /\ Shrunk(dir) \in Directories
         /\ Shrunk(dir) # Nothing => Shrunk(dir).release = dir.release
         /\ ~Shrunk(dir).whole
BY DEF Shrunk, Directories, Nothing, Absent

\* A directory of a release is there, whole.
LEMMA Wholes ==
  ASSUME NEW r \in Nat
  PROVE  /\ Whole(r) \in Directories /\ Nothing \in Directories
         /\ Whole(r) # Nothing /\ Whole(r).release = r /\ Whole(r).whole
         /\ ~Nothing.whole
BY DEF Whole, Directories, Nothing, Absent

LEMMA InvInit == Init => Inv
<1> SUFFICES ASSUME Init PROVE Inv
  OBVIOUS
<1> USE DEF Init
<1>1. /\ cart \in Directories /\ cart.release = 1 /\ cart.whole
      /\ cart # Nothing /\ Nothing \in Directories
  <2>1. 1 \in Nat
    OBVIOUS
  <2> QED BY <2>1, Wholes
<1>2. TypeOK
  <2>1. {latest, exe, old, target} \subseteq Nat
    BY DEF Absent
  <2>2. {cart, previous, fresh} \subseteq Directories
    BY <1>1
  <2> QED BY <2>1, <2>2 DEF TypeOK, Operations
<1>3. Staged /\ Kept
  BY <1>1 DEF Staged, Kept, Swapped
<1>4. Paired
  BY <1>1 DEF Paired, PairPublished, FitsBack, Swapped
<1> QED BY <1>2, <1>3, <1>4 DEF Inv

LEMMA InvStep == Inv /\ [Next]_vars => Inv'
<1> SUFFICES ASSUME Inv, [Next]_vars PROVE Inv'
  OBVIOUS
<1> USE DEF Inv, Operations, Swapped
<1>1. CASE Publish
  BY <1>1 DEF Publish, TypeOK, Staged, Paired, Kept, PairPublished, FitsBack, Recoverable
<1>2. CASE Start
  BY <1>2 DEF Start, TypeOK, Staged, Paired, Kept, PairPublished, FitsBack, Recoverable
<1>3. CASE Recover
  <2>1. TypeOK' /\ Staged'
    BY <1>3, Wholes DEF Recover, TypeOK, Staged, Leftover
  <2>2. Paired'
    BY <1>3 DEF Recover, TypeOK, Paired, PairPublished, FitsBack, Stranded, Leftover
  <2>3. Kept'
    BY <1>3, Wholes DEF Recover, TypeOK, Kept, Recoverable, Stranded, Leftover, Nothing
  <2> QED BY <2>1, <2>2, <2>3
<1>4. CASE Sweep
  <2>1. TypeOK' /\ Staged'
    BY <1>4, Shrinking DEF Sweep, TypeOK, Staged
  <2>2. Paired'
    BY <1>4, Shrinking DEF Sweep, TypeOK, Paired, PairPublished, FitsBack
  <2>3. Kept'
    BY <1>4 DEF Sweep, TypeOK, Kept
  <2> QED BY <2>1, <2>2, <2>3
<1>5. CASE Fetch
  BY <1>5 DEF Fetch, TypeOK, Staged, Paired, Kept, PairPublished, FitsBack, Recoverable
<1>6. CASE Stage
  BY <1>6 DEF Stage, TypeOK, Staged, Paired, Kept, PairPublished, FitsBack, Recoverable
<1>7. CASE Unpack
  <2>1. TypeOK' /\ Staged'
    BY <1>7, Wholes DEF Unpack, TypeOK, Staged
  <2>2. Paired' /\ Kept'
    BY <1>7 DEF Unpack, Paired, Kept, PairPublished, FitsBack
  <2> QED BY <2>1, <2>2
<1>8. CASE Aside
  <2>1. TypeOK' /\ Staged'
    BY <1>8, Wholes DEF Aside, TypeOK, Staged
  <2>2. Paired' /\ Kept'
    BY <1>8 DEF Aside, Paired, Kept, PairPublished, FitsBack
  <2> QED BY <2>1, <2>2
<1>9. CASE Place
  <2>1. TypeOK' /\ Staged'
    BY <1>9, Wholes, SystemsAssumption DEF Place, TypeOK, Staged
  <2>2. Paired'
    BY <1>9, Wholes DEF Place, TypeOK, Staged, Paired, PairPublished, FitsBack
  <2>3. Kept'
    BY <1>9 DEF Place, Kept
  <2> QED BY <2>1, <2>2, <2>3
<1>10. CASE Replace
  <2>1. TypeOK' /\ Staged'
    BY <1>10 DEF Replace, TypeOK, Staged
  <2>2. Paired' /\ Kept'
    BY <1>10, Wholes DEF Replace, TypeOK, Staged, Paired, Kept, PairPublished, FitsBack
  <2> QED BY <2>1, <2>2
<1>11. CASE Dispose
  BY <1>11 DEF Dispose, TypeOK, Staged, Paired, Kept, PairPublished, FitsBack, Absent
<1>12. CASE Retire
  <2>1. TypeOK' /\ Staged'
    BY <1>12 DEF Retire, TypeOK, Staged, Absent
  <2>2. Paired' /\ Kept'
    BY <1>12, Wholes
       DEF Retire, TypeOK, Staged, Paired, Kept, PairPublished, FitsBack, Absent,
           Directories
  <2> QED BY <2>1, <2>2
<1>13. CASE Reinstate
  <2>1. TypeOK' /\ Staged'
    BY <1>13 DEF Reinstate, TypeOK, Staged, Absent
  <2>2. Paired' /\ Kept'
    BY <1>13, Wholes DEF Reinstate, TypeOK, Staged, Paired, Kept, PairPublished, FitsBack
  <2> QED BY <2>1, <2>2
<1>14. CASE Undo
  <2>1. TypeOK' /\ Staged'
    BY <1>14, Shrinking, Wholes DEF Undo, TypeOK, Staged
  <2>2. Paired'
    BY <1>14, Shrinking DEF Undo, TypeOK, Paired, PairPublished, FitsBack
  <2>3. Kept'
    BY <1>14 DEF Undo, TypeOK, Kept
  <2> QED BY <2>1, <2>2, <2>3
<1>15. CASE Fail
  <2>1. TypeOK' /\ Staged' /\ Paired'
    BY <1>15 DEF Fail, OnError, TypeOK, Staged, Paired, PairPublished, FitsBack
  <2>2. Kept'
    BY <1>15, Wholes DEF Fail, OnError, TypeOK, Staged, Kept, Recoverable
  <2> QED BY <2>1, <2>2
<1>16. CASE Crash
  <2>1. TypeOK' /\ Staged' /\ Paired'
    BY <1>16 DEF Crash, TypeOK, Staged, Paired, PairPublished, FitsBack
  <2>2. Kept'
    BY <1>16, Wholes DEF Crash, TypeOK, Staged, Kept, Recoverable
  <2> QED BY <2>1, <2>2
<1>17. CASE Calm
  BY <1>17 DEF Calm, TypeOK, Staged, Paired, Kept, PairPublished, FitsBack, Recoverable
<1>18. CASE UNCHANGED vars
  BY <1>18 DEF vars, TypeOK, Staged, Paired, Kept, PairPublished, FitsBack, Recoverable
<1> QED
  BY <1>1, <1>2, <1>3, <1>4, <1>5, <1>6, <1>7, <1>8, <1>9, <1>10, <1>11, <1>12, <1>13,
     <1>14, <1>15, <1>16, <1>17, <1>18
     DEF Next, Work

LEMMA InvHolds == Spec => []Inv
BY InvInit, InvStep, PTL DEF Spec

-----------------------------------------------------------------------------
\* The installation and the staging directory are always of the kinds the
\* update's operations expect.
THEOREM TypeCorrect == Spec => []TypeOK
BY InvHolds, PTL DEF Inv

\* Whatever fails and wherever an update stops, the executable never stands
\* beside cartridges older than itself: the renames of install and recover keep
\* the pair.
THEOREM PairsPublished == Spec => []PairPublished
<1>1. Inv => PairPublished
  BY DEF Inv, Paired
<1> QED
  BY <1>1, InvHolds, PTL

\* When no update runs, a whole set of cartridges is in place or where recover
\* puts it back from, unless undoing an install has lost it.
THEOREM CartridgesSafe == Spec => []CartridgesKept
<1>1. Inv => CartridgesKept
  BY DEF Inv, Kept, CartridgesKept, Swapped
<1> QED
  BY <1>1, InvHolds, PTL
=============================================================================
