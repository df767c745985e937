---------------------------- MODULE SelfUpdate ----------------------------
(***************************************************************************)
(* `capdag self update`: the installed bundle is an executable and, beside *)
(* it, the directory of cartridges it was published with.  An update puts  *)
(* back what an earlier one left (recover), asks the registry for a newer  *)
(* release, unpacks it in a staging directory beside the executable and    *)
(* swaps it in by renames, the cartridges first and the executable last    *)
(* (install, replace).  The process may be killed between any two of its   *)
(* file operations and each of them may fail; a directory is removed piece *)
(* by piece (remove_dir_all).                                              *)
(*                                                                         *)
(* One update runs at a time.  The trust of what is downloaded (charter,   *)
(* manifest, digest) is one step that succeeds or fails.                   *)
(***************************************************************************)
EXTENDS Naturals

CONSTANTS
  Systems,     \* the operating systems: a subset of {"unix", "windows"}
  MaxRelease   \* bound: the newest release that is ever published

ASSUME SystemsAssumption == Systems \subseteq {"unix", "windows"}
ASSUME MaxReleaseAssumption == MaxRelease \in Nat \ {0}

VARIABLES
  os,        \* which replace() was built
  latest,    \* the release the registry offers
  exe,       \* release of the installed executable, Absent when there is none
  old,       \* release of capdag.exe.old
  cart,      \* the directory bundled-cartridges
  staging,   \* the directory .capdag-update exists
  previous,  \* in it, previous-cartridges
  fresh,     \* in it, the cartridges of the unpacked bundle
  pc,        \* the file operation the update does next
  target,    \* the release it installs
  marred,    \* cartridges were lost in undoing an install, and none has
             \* succeeded since
  calm       \* from now on nothing fails (what Converges is about)

vars == <<os, latest, exe, old, cart, staging, previous, fresh, pc, target, marred, calm>>

Absent == 0
\* A directory of cartridges: of which release, and whether all of it is there.
Whole(r) == [release |-> r, whole |-> TRUE]
Nothing == [release |-> Absent, whole |-> FALSE]
\* remove_dir_all, a piece and then the rest.
Shrunk(dir) == IF dir.whole THEN [dir EXCEPT !.whole = FALSE] ELSE Nothing

Init ==
  /\ os \in Systems
  /\ latest = 1 /\ exe = 1 /\ old = Absent
  /\ cart = Whole(1)
  /\ staging = FALSE /\ previous = Nothing /\ fresh = Nothing
  /\ pc = "idle" /\ target = 1 /\ marred = FALSE /\ calm = FALSE

-----------------------------------------------------------------------------
(* The registry and the user                                               *)

Publish ==
  /\ latest < MaxRelease
  /\ latest' = latest + 1
  /\ UNCHANGED <<os, exe, old, cart, staging, previous, fresh, pc, target, marred, calm>>

Start ==
  /\ pc = "idle" /\ exe # Absent
  /\ pc' = "recover"
  /\ UNCHANGED <<os, latest, exe, old, cart, staging, previous, fresh, target, marred, calm>>

-----------------------------------------------------------------------------
(* recover                                                                 *)

\* MUTANT of Leftover: a staging directory without cartridges is overlooked.
Leftover_Previous == staging /\ previous # Nothing

\* There is something an earlier update left.
Leftover == staging

\* MUTANT of Stranded: leftovers are only ever cleared.
Stranded_Never == FALSE

\* The installed cartridges are aside with nothing in their place.
Stranded == previous # Nothing /\ cart = Nothing

Recover ==
  /\ pc = "recover"
  /\ IF Stranded THEN cart' = previous /\ previous' = Nothing
                 ELSE UNCHANGED <<cart, previous>>
  /\ pc' = IF Leftover THEN "sweep" ELSE "registry"
  /\ UNCHANGED <<os, latest, exe, old, staging, fresh, target, marred, calm>>

\* remove_dir_all of the staging directory, in any order of what it holds: by
\* recover before an update, and by the update whatever its outcome.
Sweep ==
  /\ pc \in {"sweep", "clear"}
  /\ \/ /\ previous # Nothing
        /\ previous' = Shrunk(previous)
        /\ UNCHANGED <<fresh, staging, pc>>
     \/ /\ fresh # Nothing
        /\ fresh' = Shrunk(fresh)
        /\ UNCHANGED <<previous, staging, pc>>
     \/ /\ previous = Nothing /\ fresh = Nothing
        /\ staging' = FALSE
        /\ pc' = IF pc = "sweep" THEN "registry" ELSE "idle"
        /\ UNCHANGED <<previous, fresh>>
  /\ UNCHANGED <<os, latest, exe, old, cart, target, marred, calm>>

-----------------------------------------------------------------------------
(* update_from                                                             *)

\* The registry's newest release, verified and downloaded when it is newer.
Fetch ==
  /\ pc = "registry"
  /\ IF latest <= exe
       THEN pc' = "idle" /\ UNCHANGED target
       ELSE pc' = "stage" /\ target' = latest
  /\ UNCHANGED <<os, latest, exe, old, cart, staging, previous, fresh, marred, calm>>

\* create_dir: only where there is none.
Stage ==
  /\ pc = "stage"
  /\ IF staging THEN pc' = "idle" /\ UNCHANGED staging
                ELSE pc' = "unpack" /\ staging' = TRUE
  /\ UNCHANGED <<os, latest, exe, old, cart, previous, fresh, target, marred, calm>>

\* The archive is written, unpacked and its command asked for its version.
Unpack ==
  /\ pc = "unpack"
  /\ fresh' = Whole(target)
  /\ pc' = "aside"
  /\ UNCHANGED <<os, latest, exe, old, cart, staging, previous, target, marred, calm>>

Aside ==
  /\ pc = "aside"
  /\ previous' = cart /\ cart' = Nothing
  /\ pc' = "place"
  /\ UNCHANGED <<os, latest, exe, old, staging, fresh, target, marred, calm>>

Place ==
  /\ pc = "place"
  /\ cart' = fresh /\ fresh' = Nothing
  /\ pc' = IF os = "unix" THEN "replace" ELSE "dispose"
  /\ UNCHANGED <<os, latest, exe, old, staging, previous, target, marred, calm>>

\* The new executable takes its place: over the old one on Unix, where that
\* one was on Windows.  With it the install has succeeded.
Replace ==
  /\ pc = "replace"
  /\ exe' = target
  /\ pc' = "clear" /\ marred' = FALSE
  /\ UNCHANGED <<os, latest, old, cart, staging, previous, fresh, target, calm>>

\* Windows: the executable an earlier update moved aside is removed, then the
\* running one is moved aside.
Dispose ==
  /\ pc = "dispose"
  /\ old' = Absent
  /\ pc' = "retire"
  /\ UNCHANGED <<os, latest, exe, cart, staging, previous, fresh, target, marred, calm>>

Retire ==
  /\ pc = "retire"
  /\ old' = exe /\ exe' = Absent
  /\ pc' = "replace"
  /\ UNCHANGED <<os, latest, cart, staging, previous, fresh, target, marred, calm>>

\* Windows: back where it was, when the new one could not take its place.
Reinstate ==
  /\ pc = "reinstate"
  /\ exe' = old /\ old' = Absent
  /\ pc' = "undo"
  /\ UNCHANGED <<os, latest, cart, staging, previous, fresh, target, marred, calm>>

\* put_back: what is in place of the cartridges is removed, and what was there
\* returns.  (had_cartridges is that there is a previous.)
Undo ==
  /\ pc = "undo"
  /\ \/ /\ cart # Nothing
        /\ cart' = Shrunk(cart)
        /\ UNCHANGED <<previous, pc>>
     \/ /\ cart = Nothing
        /\ cart' = previous /\ previous' = Nothing
        /\ pc' = "clear"
  /\ UNCHANGED <<os, latest, exe, old, staging, fresh, target, marred, calm>>

-----------------------------------------------------------------------------
(* Faults                                                                  *)

\* MUTANT of OnError: an update that cannot clear up is rolled back.
OnError_Rollback(p) ==
  CASE p \in {"place", "dispose", "retire", "clear"} -> "undo"
    [] p = "replace" -> IF os = "unix" THEN "undo" ELSE "reinstate"
    [] p = "reinstate" -> "undo"
    [] p \in {"unpack", "aside", "undo"} -> "clear"
    [] OTHER -> "idle"

\* Where a failed operation leads.
OnError(p) ==
  CASE p \in {"place", "dispose", "retire"} -> "undo"
    [] p = "replace" -> IF os = "unix" THEN "undo" ELSE "reinstate"
    [] p = "reinstate" -> "undo"
    [] p \in {"unpack", "aside", "undo"} -> "clear"
    [] OTHER -> "idle"

\* The operation at pc fails, leaving what it had done.
Fail ==
  /\ pc # "idle" /\ ~calm
  /\ pc' = OnError(pc)
  /\ marred' = (marred \/ (pc = "undo" /\ ~cart.whole))
  /\ UNCHANGED <<os, latest, exe, old, cart, staging, previous, fresh, target, calm>>

\* The process is killed, or the machine stops.
Crash ==
  /\ pc # "idle" /\ ~calm
  /\ pc' = "idle"
  /\ marred' = (marred \/ (pc = "undo" /\ cart # Nothing /\ ~cart.whole))
  /\ UNCHANGED <<os, latest, exe, old, cart, staging, previous, fresh, target, calm>>

Calm ==
  /\ ~calm /\ calm' = TRUE
  /\ UNCHANGED <<os, latest, exe, old, cart, staging, previous, fresh, pc, target, marred>>

-----------------------------------------------------------------------------
Work == \/ Start \/ Recover \/ Sweep \/ Fetch \/ Stage \/ Unpack \/ Aside \/ Place
        \/ Replace \/ Dispose \/ Retire \/ Reinstate \/ Undo

Next == Publish \/ Work \/ Fail \/ Crash \/ Calm

Spec == Init /\ [][Next]_vars

\* Someone runs the update again, and a process that runs goes on.
FairSpec == Spec /\ WF_vars(Work)

-----------------------------------------------------------------------------
(* Properties                                                              *)

\* Every variable has its type.
Directories == [release : Nat, whole : BOOLEAN]
Operations == {"idle", "recover", "sweep", "registry", "stage", "unpack", "aside", "place",
               "replace", "dispose", "retire", "reinstate", "undo", "clear"}
TypeOK ==
  /\ os \in Systems
  /\ {latest, exe, old, target} \subseteq Nat
  /\ {cart, previous, fresh} \subseteq Directories
  /\ pc \in Operations
  /\ {staging, marred, calm} \subseteq BOOLEAN

\* "The new executable beside the old ones is the pair that was never
\* published together, and is never made" (install): whatever fails, and
\* wherever an update stops.
PairPublished == cart # Nothing => cart.release >= exe

\* When no update runs a whole set of cartridges, this release's or an earlier
\* one's, is in place, or is where the next update puts it back from: an update
\* that stopped or failed loses none unless undoing the install is itself what
\* stopped or failed.  (Of updates one after another; two at once are not here.)
Recoverable == staging /\ previous.whole /\ cart = Nothing
CartridgesKept == pc = "idle" => cart.whole \/ Recoverable \/ marred

\* Whatever updates that stopped or failed have left, updates that meet no
\* fault any more bring the newest release, whole: no leftover is in the way
\* for good.  Only an executable that is gone cannot update itself.
UpToDate == exe = latest /\ cart = Whole(latest)
Converges == <>calm => <>[](UpToDate \/ exe = Absent)
=============================================================================
