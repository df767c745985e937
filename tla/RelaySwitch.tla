----------------------------- MODULE RelaySwitch -----------------------------
(***************************************************************************)
(* The relay switch: requests between callers of the engine, peers and     *)
(* master connections that are lost and attached again.  A call of the     *)
(* engine is routed by the cap table, registered and written to its        *)
(* master; a peer request arrives from the host that serves its parent     *)
(* and goes the same way.  Pumps take one frame at a time out of the queue *)
(* all readers share; whoever finds a connection dead cleans up after it;  *)
(* a driver probes masters whose caps are new; a canceller cancels calls.  *)
(*                                                                         *)
(* Any cap can be served by any master, so the cap table is the set of     *)
(* masters in it.  Of the frames a host sends only those that change the   *)
(* switch's state are here: peer REQs, terminals and RelayNotify.  Between *)
(* a lookup and the registration a request may wait for admission.         *)
(*                                                                         *)
(* Reading and writing fail separately.  A socket that closes ends the     *)
(* reader and every write to it; a write may also fail on a socket that    *)
(* stays open (a frame above the limits, a host that no longer reads), and *)
(* that too counts as the death of the master.                             *)
(***************************************************************************)
EXTENDS Naturals, Sequences, FiniteSets

CONSTANTS
  Masters,       \* slots, each with its stable id
  Calls,         \* requests of the engine (execute_cap)
  Peers,         \* peer requests of the hosts
  Parent,        \* the request a peer request was made for
  Unwanted,      \* calls somebody may want cancelled
  Pumps,         \* tasks in read_from_masters_timeout
  NoOne,
  Returning,     \* masters whose host comes back after its connection is lost
  ProbesFail,    \* identity probes may fail
  BadInventories, \* hosts may advertise what cannot be admitted
  MaxLosses,     \* bound: connections lost, and writes that fail on an open one
  MaxNotices     \* bound: RelayNotify frames after the first

Requests == Calls \cup Peers
Agents   == Calls \cup Pumps \cup {"canceller", "driver", "attacher"}

ASSUME FiniteAssumption  == IsFiniteSet(Masters) /\ IsFiniteSet(Requests)
ASSUME ParentAssumption  == Parent \in [Peers -> Requests] /\ Calls \cap Peers = {}
ASSUME CancelAssumption  == Unwanted \subseteq Calls
ASSUME ReturnAssumption  == Returning \subseteq Masters
ASSUME BoundAssumption   == MaxLosses \in Nat /\ MaxNotices \in Nat
ASSUME ChoiceAssumption  == ProbesFail \in BOOLEAN /\ BadInventories \in BOOLEAN
ASSUME NoOneAssumption   == NoOne \notin Masters \cup Requests

VARIABLES
  \* MasterConnection, one per slot
  healthy, caps, reader,  \* health flag, caps not empty, reader task alive
  link,                   \* the socket in the slot is open
  newcomer,               \* the connection add_master is putting into a slot
  capTable,               \* masters whose caps are in the cap table
  \* RequestTable
  entries, dest, children,
  \* the requests
  pc,          \* how far a request is
  home,        \* the master a peer request came from
  onHost,      \* requests a host is working on
  told,        \* terminals delivered to whoever made the request
  forsaken,    \* history: requests the switch itself left to nobody
  \* the agents
  inbox,       \* frame_rx: what the readers read
  pump, job,   \* what a pump does, and with what
  canceller, cascade, cancelled,  \* the call being cancelled, its children to go
  probes, driver, target,         \* pending_identity_probes, the driver's state
  task,        \* an agent's death handling or table rebuild
  losses, notices

masterVars  == <<healthy, caps, reader>>
tableVars   == <<entries, dest, children>>
requestVars == <<pc, home, onHost, told, forsaken>>
pumpVars    == <<inbox, pump, job>>
cancelVars  == <<canceller, cascade, cancelled>>
probeVars   == <<probes, driver, target>>
linkVars    == <<link, newcomer>>
boundVars   == <<losses, notices>>
vars == <<masterVars, linkVars, capTable, tableVars, requestVars, pumpVars, cancelVars,
          probeVars, task, boundVars>>

Nobody == [master |-> NoOne, up |-> FALSE]
Idle   == [at |-> "none", master |-> NoOne, keys |-> {}, unread |-> {}, seen |-> {}]

\* What an agent can be in the middle of.
Dying == {"declared", "inspected", "handled", "retired", "condemned"}
Task  == [at : Dying \cup {"none", "rebuilding"}, master : Masters \cup {NoOne},
          keys : SUBSET Requests, unread : SUBSET Masters, seen : SUBSET Masters]

\* What a reader can read, and what it is about.
Frame == [type : {"REQ"},    from : Masters, about : Peers] \cup
         [type : {"END"},    from : Masters, about : Requests] \cup
         [type : {"EOF"},    from : Masters, about : {NoOne}] \cup
         [type : {"NOTIFY"}, from : Masters, about : BOOLEAN]

TypeOK ==
  /\ healthy \in [Masters -> BOOLEAN] /\ caps \in [Masters -> BOOLEAN]
  /\ reader \in [Masters -> BOOLEAN] /\ link \in [Masters -> BOOLEAN]
  /\ newcomer \in [master : Masters \cup {NoOne}, up : BOOLEAN]
  /\ capTable \subseteq Masters
  /\ entries \subseteq Requests
  /\ dest \in [Requests -> Masters \cup {NoOne}]
  /\ children \in [Requests -> SUBSET Peers]
  /\ pc \in [Requests -> {"new", "sent", "routed", "registered", "open", "failing",
                          "failed", "refused"}]
  /\ home \in [Peers -> Masters \cup {NoOne}]
  /\ onHost \subseteq Requests /\ forsaken \subseteq Requests
  /\ told \in [Requests -> Nat]
  /\ inbox \in Seq(Frame)
  /\ pump \in [Pumps -> {"idle", "peer", "reply", "stuck", "notify", "hold", "probe"}]
  /\ job \in [Pumps -> Requests \cup Masters \cup {NoOne}]
  /\ canceller \in Calls \cup {NoOne}
  /\ cascade \subseteq Peers /\ cancelled \subseteq Requests
  /\ probes \in Seq(Masters)
  /\ driver \in {"idle", "asking", "lost", "passed", "failed"}
  /\ target \in Masters \cup {NoOne}
  /\ task \in [Agents -> Task]
  /\ losses \in Nat /\ notices \in Nat
  /\ \A r \in entries : dest[r] \in Masters

Init ==
  /\ healthy = [m \in Masters |-> TRUE] /\ caps = [m \in Masters |-> TRUE]
  /\ reader = [m \in Masters |-> TRUE] /\ link = [m \in Masters |-> TRUE]
  /\ newcomer = Nobody /\ capTable = Masters
  /\ entries = {} /\ dest = [r \in Requests |-> NoOne]
  /\ children = [r \in Requests |-> {}]
  /\ pc = [r \in Requests |-> "new"] /\ home = [p \in Peers |-> NoOne]
  /\ onHost = {} /\ forsaken = {} /\ told = [r \in Requests |-> 0]
  /\ inbox = <<>>
  /\ pump = [k \in Pumps |-> "idle"] /\ job = [k \in Pumps |-> NoOne]
  /\ canceller = NoOne /\ cascade = {} /\ cancelled = {}
  /\ probes = <<>> /\ driver = "idle" /\ target = NoOne
  /\ task = [a \in Agents |-> Idle]
  /\ losses = 0 /\ notices = 0

-----------------------------------------------------------------------------
(* Writing to a master, and the death of one: handle_master_death, which   *)
(* ends in a rebuild of the cap table, or a rebuild alone.                 *)

Quiet(a) == task[a].at = "none"

\* A frame is written to m, or it is not: because the socket is closed, or for
\* any other CborError, with the socket and the reader as they were.
Write(m, ok) == IF ok THEN link[m] /\ UNCHANGED losses
                ELSE \/ ~link[m] /\ UNCHANGED losses
                     \/ link[m] /\ losses < MaxLosses /\ losses' = losses + 1

\* The agent calls handle_master_death for m.
DeclareDead(a, m) ==
  /\ Quiet(a)
  /\ task' = [task EXCEPT ![a] = [Idle EXCEPT !.at = "declared", !.master = m]]

\* The agent calls rebuild_cap_table.
Rebuild(a) ==
  /\ Quiet(a)
  /\ task' = [task EXCEPT ![a] = [Idle EXCEPT !.at = "rebuilding", !.unread = Masters]]

\* MUTANT of DeadKeys: those that came from the master, not those that went to it.
DeadKeys_BySource(m) == {p \in entries \cap Peers : home[p] = m}

\* keys_where: the live requests whose destination is m.
DeadKeys(m) == {r \in entries : dest[r] = m}

\* Requests some agent is about to sweep.
Listed == UNION {task[a].keys : a \in Agents}

Eof(m)    == [type |-> "EOF", from |-> m, about |-> NoOne]
Queued(f) == \E i \in DOMAIN inbox : inbox[i] = f

\* The death of m is known, and its requests have not been looked up yet.
DeathPending(m) ==
  Queued(Eof(m)) \/ \E a \in Agents : task[a].at \in Dying /\ task[a].master = m

\* The probe of m that waits for its answer will not have one.
CutOff(m) == IF driver = "asking" /\ target = m THEN "lost" ELSE driver

\* Whether the death has been handled already is read from the health flag first.
Inspect(a) ==
  /\ task[a].at = "declared"
  /\ task' = [task EXCEPT ![a].at = IF healthy[task[a].master] THEN "inspected" ELSE "handled"]
  /\ UNCHANGED <<masterVars, linkVars, capTable, tableVars, requestVars, pumpVars, cancelVars,
                 probeVars, boundVars>>

\* MUTANT of Retire: a master that counts as handled keeps its reader.
Retire_Handled(a) ==
  \E m \in Masters :
    /\ m = task[a].master
    /\ \/ /\ task[a].at = "inspected"
          /\ reader' = [reader EXCEPT ![m] = FALSE]
          /\ driver' = CutOff(m)
          /\ task' = [task EXCEPT ![a].at = "retired"]
       \/ /\ task[a].at = "handled"
          /\ task' = [task EXCEPT ![a] = Idle]
          /\ UNCHANGED <<reader, driver>>
    /\ UNCHANGED <<healthy, caps, linkVars, capTable, tableVars, requestVars, pumpVars,
                   cancelVars, probes, target, boundVars>>

\* Either way the reader is retired, whoever is attached to the slot by now.
\* When the death counts as handled, what nobody has listed or will list of
\* the master's requests stays.
Retire(a) ==
  \E m \in Masters :
    /\ m = task[a].master
    /\ reader' = [reader EXCEPT ![m] = FALSE]
    /\ driver' = CutOff(m)
    /\ UNCHANGED <<healthy, caps, linkVars, capTable, tableVars, pc, home, onHost, told,
                   pumpVars, cancelVars, probes, target, boundVars>>
    /\ \/ /\ task[a].at = "inspected"
          /\ task' = [task EXCEPT ![a].at = "retired"]
          /\ UNCHANGED forsaken
       \/ /\ task[a].at = "handled"
          /\ task' = [task EXCEPT ![a] = Idle]
          /\ forsaken' = IF DeathPending(m)' THEN forsaken
                         ELSE forsaken \cup (DeadKeys(m) \ Listed)

\* The master is marked unhealthy ...
Condemn(a) ==
  /\ task[a].at = "retired"
  /\ healthy' = [healthy EXCEPT ![task[a].master] = FALSE]
  /\ task' = [task EXCEPT ![a].at = "condemned"]
  /\ UNCHANGED <<caps, reader, linkVars, capTable, tableVars, requestVars, pumpVars,
                 cancelVars, probeVars, boundVars>>

\* ... and its requests are looked up.
LookUp(a) ==
  /\ task[a].at = "condemned"
  /\ task' = [task EXCEPT ![a] = [Idle EXCEPT !.at = "rebuilding", !.unread = Masters,
                                              !.keys = DeadKeys(task[a].master)]]
  /\ UNCHANGED <<masterVars, linkVars, capTable, tableVars, requestVars, pumpVars,
                 cancelVars, probeVars, boundVars>>

\* A terminal for r is delivered: to the response channel, or written to the
\* source master, where an error is ignored (write_to_master_idx_raw).
Deliver(r) == IF r \in Calls
                THEN told' = [told EXCEPT ![r] = @ + 1] /\ UNCHANGED losses
                ELSE \E ok \in BOOLEAN :
                       /\ Write(home[r], ok)
                       /\ told' = IF ok THEN [told EXCEPT ![r] = @ + 1] ELSE told

\* MUTANTS of Sweep: ERR to all the keys of the snapshot; terminated without ERR.
Sweep_Snapshot(a) ==
  /\ task[a].at = "rebuilding"
  /\ \E r \in task[a].keys :
       /\ task' = [task EXCEPT ![a].keys = @ \ {r}]
       /\ entries' = entries \ {r}
       /\ Deliver(r)
  /\ UNCHANGED <<masterVars, linkVars, capTable, dest, children, pc, home, onHost, forsaken,
                 pumpVars, cancelVars, probeVars, notices>>
Sweep_Silent(a) ==
  /\ task[a].at = "rebuilding"
  /\ \E r \in task[a].keys :
       /\ task' = [task EXCEPT ![a].keys = @ \ {r}]
       /\ entries' = entries \ {r}
  /\ UNCHANGED <<masterVars, linkVars, capTable, dest, children, requestVars, pumpVars,
                 cancelVars, probeVars, boundVars>>

\* Each request of the snapshot that is still live is terminated with an ERR,
\* which goes to a source master only if that is healthy.
Sweep(a) ==
  /\ task[a].at = "rebuilding"
  /\ \E r \in task[a].keys :
       /\ task' = [task EXCEPT ![a].keys = @ \ {r}]
       /\ entries' = entries \ {r}
       /\ IF r \in entries /\ (r \in Calls \/ healthy[home[r]])
            THEN Deliver(r) ELSE UNCHANGED <<told, losses>>
  /\ UNCHANGED <<masterVars, linkVars, capTable, dest, children, pc, home, onHost, forsaken,
                 pumpVars, cancelVars, probeVars, notices>>

\* rebuild_cap_table reads the slots in order, waiting for a lock at each ...
ReadMaster(a) ==
  /\ task[a].at = "rebuilding" /\ task[a].keys = {} /\ task[a].unread # {}
  /\ LET m == CHOOSE m \in task[a].unread : TRUE IN
     task' = [task EXCEPT ![a].unread = @ \ {m},
                          ![a].seen = IF healthy[m] /\ caps[m] THEN @ \cup {m} ELSE @]
  /\ UNCHANGED <<masterVars, linkVars, capTable, tableVars, requestVars, pumpVars, cancelVars,
                 probeVars, boundVars>>

\* ... and writes what it saw under a lock of its own.
WriteTable(a) ==
  /\ task[a].at = "rebuilding" /\ task[a].keys = {} /\ task[a].unread = {}
  /\ capTable' = task[a].seen
  /\ task' = [task EXCEPT ![a] = Idle]
  /\ UNCHANGED <<masterVars, linkVars, tableVars, requestVars, pumpVars, cancelVars,
                 probeVars, boundVars>>

TaskStep(a) == \/ Inspect(a) \/ Retire(a) \/ Condemn(a) \/ LookUp(a)
               \/ Sweep(a) \/ ReadMaster(a) \/ WriteTable(a)

-----------------------------------------------------------------------------
(* A request on its way to a master: run by its caller's task, or by the   *)
(* pump that took the peer REQ.                                            *)

\* find_route_for_cap for a call; without a route the call is refused.
Route(c) ==
  /\ pc[c] = "new"
  /\ \E m \in capTable : dest' = [dest EXCEPT ![c] = m]
  /\ pc' = [pc EXCEPT ![c] = "routed"]
  /\ UNCHANGED <<masterVars, linkVars, capTable, entries, children, home, onHost, told,
                 forsaken, pumpVars, cancelVars, probeVars, task, boundVars>>

\* link_child: a peer request whose parent is live is remembered with it.
Linked(r) == r \in Peers /\ Parent[r] \in entries

\* RequestTable::register.
Register(r) ==
  /\ pc[r] = "routed"
  /\ entries' = entries \cup {r}
  /\ children' = IF Linked(r) THEN [children EXCEPT ![Parent[r]] = @ \cup {r}]
                              ELSE children
  /\ pc' = [pc EXCEPT ![r] = "registered"]
  /\ UNCHANGED <<masterVars, linkVars, capTable, dest, home, onHost, told, forsaken,
                 pumpVars, cancelVars, probeVars, task, boundVars>>

\* write_initial_request: written, or the destination is declared dead.  A
\* master that died since the lookup may still take the frame: nobody reads what
\* it will answer, and its requests may have been looked up before.
WriteRequest(a, r) ==
  /\ pc[r] = "registered"
  /\ \/ /\ Write(dest[r], TRUE)
        /\ onHost' = onHost \cup {r}
        /\ forsaken' = IF reader[dest[r]] \/ DeathPending(dest[r])
                         THEN forsaken ELSE forsaken \cup {r}
        /\ pc' = [pc EXCEPT ![r] = "open"]
        /\ UNCHANGED task
     \/ /\ Write(dest[r], FALSE)
        /\ DeclareDead(a, dest[r])
        /\ pc' = [pc EXCEPT ![r] = "failing"]
        /\ UNCHANGED <<onHost, forsaken>>
  /\ UNCHANGED <<masterVars, linkVars, capTable, tableVars, home, told, pumpVars, cancelVars,
                 probeVars, notices>>

\* After a failed write the request is terminated, and a call's error returned.
GiveUp(a, r) ==
  /\ pc[r] = "failing" /\ Quiet(a)
  /\ entries' = entries \ {r}
  /\ pc' = [pc EXCEPT ![r] = "failed"]
  /\ UNCHANGED <<masterVars, linkVars, capTable, dest, children, home, onHost, told, forsaken,
                 pumpVars, cancelVars, probeVars, task, boundVars>>

CallStep(c) == Register(c) \/ WriteRequest(c, c) \/ GiveUp(c, c)

-----------------------------------------------------------------------------
(* The pumps.  A pump holds the queue's lock while it handles a frame, but *)
(* not while it handles an EOF.                                            *)

QueueFree == \A k \in Pumps : pump[k] = "idle"

\* The next frame is of this type; a pump that is not cleaning up takes it.
Takes(k, type) ==
  /\ QueueFree /\ Quiet(k)
  /\ inbox # <<>> /\ Head(inbox).type = type
  /\ inbox' = Tail(inbox)

Turn(k, what, on) == /\ pump' = [pump EXCEPT ![k] = what]
                     /\ job' = [job EXCEPT ![k] = on]

\* handle_master_frame, REQ: routed like a call, or refused with an ERR.
TakeRequest(k) ==
  /\ Takes(k, "REQ")
  /\ LET p == Head(inbox).about IN
       \/ /\ capTable = {}
          /\ pc' = [pc EXCEPT ![p] = "refused"]
          /\ Deliver(p)
          /\ UNCHANGED <<dest, pump, job>>
       \/ /\ \E m \in capTable : dest' = [dest EXCEPT ![p] = m]
          /\ pc' = [pc EXCEPT ![p] = "routed"]
          /\ Turn(k, "peer", p)
          /\ UNCHANGED <<told, losses>>
  /\ UNCHANGED <<masterVars, linkVars, capTable, entries, children, home, onHost, forsaken,
                 cancelVars, probeVars, task, notices>>

PeerStep(k) == /\ pump[k] = "peer"
               /\ \E p \in Peers : /\ p = job[k]
                                   /\ Register(p) \/ WriteRequest(k, p) \/ GiveUp(k, p)

\* The peer REQ is written, or given up.
PeerDone(k) ==
  /\ pump[k] = "peer" /\ pc[job[k]] \in {"open", "failed"}
  /\ Turn(k, "idle", NoOne)
  /\ UNCHANGED <<masterVars, linkVars, capTable, tableVars, requestVars, inbox, cancelVars,
                 probeVars, task, boundVars>>

\* handle_master_frame, END or ERR with an XID: the first terminal removes the
\* request and is delivered with the state it had; any other is a straggler.
TakeTerminal(k) ==
  /\ Takes(k, "END")
  /\ LET r == Head(inbox).about IN
       /\ entries' = entries \ {r}
       /\ told' = IF r \in entries \cap Calls THEN [told EXCEPT ![r] = @ + 1] ELSE told
       /\ IF r \in entries \cap Peers THEN Turn(k, "reply", r) ELSE UNCHANGED <<pump, job>>
  /\ UNCHANGED <<masterVars, linkVars, capTable, dest, children, pc, home, onHost, forsaken,
                 cancelVars, probeVars, task, boundVars>>

\* A peer's terminal is written back to its source master; a failed write is
\* blamed on that one, not on the one that answered.
Reply(k) ==
  /\ pump[k] = "reply"
  /\ \/ /\ Write(home[job[k]], TRUE)
        /\ told' = [told EXCEPT ![job[k]] = @ + 1]
        /\ Turn(k, "idle", NoOne)
        /\ UNCHANGED task
     \/ /\ Write(home[job[k]], FALSE)
        /\ Turn(k, "stuck", NoOne)
        /\ DeclareDead(k, home[job[k]])
        /\ UNCHANGED told
  /\ UNCHANGED <<masterVars, linkVars, capTable, tableVars, pc, home, onHost, forsaken, inbox,
                 cancelVars, probeVars, notices>>

\* The cleanup after a failed write back is over.
Unstick(k) ==
  /\ pump[k] = "stuck" /\ Quiet(k)
  /\ Turn(k, "idle", NoOne)
  /\ UNCHANGED <<masterVars, linkVars, capTable, tableVars, requestVars, inbox, cancelVars,
                 probeVars, task, boundVars>>

\* MUTANT of TakeEof: an EOF is stale once the slot has a reader again.
TakeEof_Stale(k) ==
  /\ Takes(k, "EOF")
  /\ IF reader[Head(inbox).from] THEN UNCHANGED task ELSE DeclareDead(k, Head(inbox).from)
  /\ UNCHANGED <<masterVars, linkVars, capTable, tableVars, requestVars, pump, job,
                 cancelVars, probeVars, boundVars>>

\* handle_master_death, called with the lock dropped.
TakeEof(k) ==
  /\ Takes(k, "EOF")
  /\ DeclareDead(k, Head(inbox).from)
  /\ UNCHANGED <<masterVars, linkVars, capTable, tableVars, requestVars, pump, job,
                 cancelVars, probeVars, boundVars>>

\* handle_master_frame, RelayNotify: caps that come out of nowhere are to be
\* held back; an inventory that cannot be admitted is dropped.
TakeNotify(k) ==
  /\ Takes(k, "NOTIFY")
  /\ LET m == Head(inbox).from
         probeRequired == ~caps[m] /\ Head(inbox).about
     IN \/ /\ caps' = [caps EXCEPT ![m] = Head(inbox).about]
           /\ IF probeRequired THEN Turn(k, "hold", m) /\ UNCHANGED task
                               ELSE Turn(k, "notify", m) /\ Rebuild(k)
        \/ BadInventories /\ UNCHANGED <<caps, pump, job, task>>
  /\ UNCHANGED <<healthy, reader, linkVars, capTable, tableVars, requestVars, cancelVars,
                 probeVars, boundVars>>

\* The caps are in the slot already when the master is marked unhealthy.
HoldBack(k) ==
  /\ pump[k] = "hold"
  /\ healthy' = [healthy EXCEPT ![job[k]] = FALSE]
  /\ Turn(k, "probe", job[k])
  /\ Rebuild(k)
  /\ UNCHANGED <<caps, reader, linkVars, capTable, tableVars, requestVars, inbox, cancelVars,
                 probeVars, boundVars>>

\* After the rebuild the probe is queued.
NotifyDone(k) ==
  /\ pump[k] \in {"notify", "probe"} /\ Quiet(k)
  /\ probes' = IF pump[k] = "probe" THEN Append(probes, job[k]) ELSE probes
  /\ Turn(k, "idle", NoOne)
  /\ UNCHANGED <<masterVars, linkVars, capTable, tableVars, requestVars, inbox, cancelVars,
                 driver, target, task, boundVars>>

PumpStep(k) == \/ TakeRequest(k) \/ PeerStep(k) \/ PeerDone(k)
               \/ TakeTerminal(k) \/ Reply(k) \/ Unstick(k)
               \/ TakeEof(k) \/ TakeNotify(k) \/ HoldBack(k) \/ NotifyDone(k)

-----------------------------------------------------------------------------
(* cancel_request                                                          *)

\* A Cancel frame is written, or the destination is declared dead.
SendCancel(r) == \/ Write(dest[r], TRUE) /\ UNCHANGED task
                 \/ Write(dest[r], FALSE) /\ DeclareDead("canceller", dest[r])

\* The call is terminated FIRST: that yields its children, atomically.
Cancel(c) ==
  /\ canceller = NoOne /\ Quiet("canceller")
  /\ c \in Unwanted \cap entries
  /\ entries' = entries \ {c}
  /\ canceller' = c
  /\ cascade' = children[c]
  /\ cancelled' = cancelled \cup {c}
  /\ SendCancel(c)
  /\ UNCHANGED <<masterVars, linkVars, capTable, dest, children, requestVars, pumpVars,
                 probeVars, notices>>

\* MUTANT of Descend: the cascade stops at the children.
Descend_Not(p) == {}

\* cancel_request for a child cancels the child's children in turn.
Descend(p) == children[p]

\* Each child that is still live is cancelled the same way.
CancelChild ==
  /\ canceller # NoOne /\ Quiet("canceller")
  /\ \E p \in cascade :
       IF p \in entries
         THEN /\ cascade' = (cascade \ {p}) \cup Descend(p)
              /\ entries' = entries \ {p}
              /\ cancelled' = cancelled \cup {p}
              /\ SendCancel(p)
         ELSE /\ cascade' = cascade \ {p}
              /\ UNCHANGED <<entries, cancelled, task, losses>>
  /\ UNCHANGED <<masterVars, linkVars, capTable, dest, children, requestVars, pumpVars,
                 canceller, probeVars, notices>>

\* Last the caller gets its ERR.
CancelDone ==
  /\ canceller # NoOne /\ Quiet("canceller") /\ cascade = {}
  /\ told' = [told EXCEPT ![canceller] = @ + 1]
  /\ canceller' = NoOne
  /\ UNCHANGED <<masterVars, linkVars, capTable, tableVars, pc, home, onHost, forsaken,
                 pumpVars, cascade, cancelled, probeVars, task, boundVars>>

-----------------------------------------------------------------------------
(* The identity probe driver.  Its own request may be answered, swept like *)
(* any other, or time out.                                                 *)

ProbeStart ==
  /\ driver = "idle" /\ Quiet("driver") /\ probes # <<>>
  /\ target' = Head(probes)
  /\ probes' = Tail(probes)
  /\ \/ /\ Write(Head(probes), TRUE)
        /\ driver' = IF reader[Head(probes)] THEN "asking" ELSE "lost"
        /\ UNCHANGED task
     \/ /\ Write(Head(probes), FALSE)
        /\ driver' = "failed"
        /\ DeclareDead("driver", Head(probes))
  /\ UNCHANGED <<masterVars, linkVars, capTable, tableVars, requestVars, pumpVars, cancelVars,
                 notices>>

ProbeAnswered ==
  /\ driver = "asking"
  /\ driver' = "passed"
  /\ UNCHANGED <<masterVars, linkVars, capTable, tableVars, requestVars, pumpVars, cancelVars,
                 probes, target, task, boundVars>>

ProbeFails ==
  /\ (driver = "asking" /\ ProbesFail) \/ driver = "lost"
  /\ driver' = "failed"
  /\ UNCHANGED <<masterVars, linkVars, capTable, tableVars, requestVars, pumpVars, cancelVars,
                 probes, target, task, boundVars>>

\* The verdict is written into the slot, whoever is attached to it by now.
ProbeVerdict ==
  /\ driver \in {"passed", "failed"} /\ Quiet("driver")
  /\ healthy' = [healthy EXCEPT ![target] = (driver = "passed")]
  /\ driver' = "idle"
  /\ target' = NoOne
  /\ Rebuild("driver")
  /\ UNCHANGED <<caps, reader, linkVars, capTable, tableVars, requestVars, pumpVars,
                 cancelVars, probes, boundVars>>

DriverStep == ProbeStart \/ ProbeAnswered \/ ProbeFails \/ ProbeVerdict

-----------------------------------------------------------------------------
(* The hosts and their connections                                         *)

\* The host of a request makes a peer request.
MakePeerRequest(p) ==
  LET m == dest[Parent[p]] IN
  /\ pc[p] = "new" /\ Parent[p] \in onHost /\ reader[m]
  /\ pc' = [pc EXCEPT ![p] = "sent"]
  /\ home' = [home EXCEPT ![p] = m]
  /\ inbox' = Append(inbox, [type |-> "REQ", from |-> m, about |-> p])
  /\ UNCHANGED <<masterVars, linkVars, capTable, tableVars, onHost, told, forsaken, pump, job,
                 cancelVars, probeVars, task, boundVars>>

\* A host answers; if nobody reads the connection the answer is lost.
Answer(r) ==
  /\ r \in onHost
  /\ onHost' = onHost \ {r}
  /\ inbox' = IF reader[dest[r]]
                THEN Append(inbox, [type |-> "END", from |-> dest[r], about |-> r])
                ELSE inbox
  /\ UNCHANGED <<masterVars, linkVars, capTable, tableVars, pc, home, told, forsaken, pump, job,
                 cancelVars, probeVars, task, boundVars>>

\* The reader of the connection that is being attached runs.
Arriving(m) == newcomer = [master |-> m, up |-> TRUE]

\* The host advertises other caps.
Notify(m) ==
  /\ reader[m] \/ Arriving(m)
  /\ notices < MaxNotices
  /\ notices' = notices + 1
  /\ \E some \in BOOLEAN :
       inbox' = Append(inbox, [type |-> "NOTIFY", from |-> m, about |-> some])
  /\ UNCHANGED <<masterVars, linkVars, capTable, tableVars, requestVars, pump, job, cancelVars,
                 probeVars, task, losses>>

\* What a host worked on goes with its connection.
Abandoned(m) == {r \in onHost : dest[r] = m}

\* A connection is lost.  A reader that still runs puts the EOF into the queue
\* and exits.
Lose(m) ==
  /\ link[m] /\ losses < MaxLosses
  /\ losses' = losses + 1
  /\ link' = [link EXCEPT ![m] = FALSE]
  /\ reader' = [reader EXCEPT ![m] = FALSE]
  /\ inbox' = IF reader[m] THEN Append(inbox, Eof(m)) ELSE inbox
  /\ onHost' = onHost \ Abandoned(m)
  /\ driver' = CutOff(m)
  /\ UNCHANGED <<healthy, caps, newcomer, capTable, tableVars, pc, home, told, forsaken, pump,
                 job, cancelVars, probes, target, task, notices>>

\* add_master into a slot without a live reader: the handshake is over and the
\* connection's own reader runs, while the slot is still the old one's.
Arrive(m) ==
  /\ Quiet("attacher") /\ newcomer = Nobody
  /\ m \in Returning /\ ~reader[m]
  /\ newcomer' = [master |-> m, up |-> TRUE]
  /\ UNCHANGED <<masterVars, link, capTable, tableVars, requestVars, pumpVars, cancelVars,
                 probeVars, task, boundVars>>

\* The new connection is lost before the slot is its own.
LoseArriving(m) ==
  /\ Arriving(m) /\ losses < MaxLosses
  /\ losses' = losses + 1
  /\ newcomer' = [newcomer EXCEPT !.up = FALSE]
  /\ inbox' = Append(inbox, Eof(m))
  /\ UNCHANGED <<masterVars, link, capTable, tableVars, requestVars, pump, job, cancelVars,
                 probeVars, task, notices>>

\* The slot is committed.  With caps the identity was probed in the handshake.
\* An inventory that cannot be admitted leaves the slot without a rebuild.
Attach(m) ==
  /\ newcomer.master = m
  /\ newcomer' = Nobody
  /\ link' = [link EXCEPT ![m] = newcomer.up]
  /\ reader' = [reader EXCEPT ![m] = newcomer.up]
  /\ onHost' = onHost \ Abandoned(m)
  /\ \E some \in BOOLEAN, ok \in BOOLEAN :
       /\ ~ok => some /\ ProbesFail
       /\ some \/ MaxNotices > 0
       /\ caps' = [caps EXCEPT ![m] = some]
       /\ healthy' = [healthy EXCEPT ![m] = ok]
  /\ Rebuild("attacher") \/ (BadInventories /\ UNCHANGED task)
  /\ UNCHANGED <<capTable, tableVars, pc, home, told, forsaken, pumpVars, cancelVars, probeVars,
                 boundVars>>

-----------------------------------------------------------------------------

Next == \/ \E a \in Agents : TaskStep(a)
        \/ \E c \in Calls : Route(c) \/ CallStep(c) \/ Cancel(c)
        \/ \E k \in Pumps : PumpStep(k)
        \/ CancelChild \/ CancelDone \/ DriverStep
        \/ \E p \in Peers : MakePeerRequest(p)
        \/ \E r \in Requests : Answer(r)
        \/ \E m \in Masters : Notify(m) \/ Lose(m) \/ Arrive(m) \/ LoseArriving(m) \/ Attach(m)

Spec == Init /\ [][Next]_vars

(* Every agent that can go on does: the tasks are spawned, the pumps loop.   *)
(* A host answers what it was given unless its connection is lost.  Nobody   *)
(* has to come back.                                                         *)
Fairness == /\ \A c \in Calls : WF_vars(CallStep(c) \/ TaskStep(c))
            /\ \A k \in Pumps : WF_vars(PumpStep(k) \/ TaskStep(k))
            /\ WF_vars(CancelChild \/ CancelDone \/ TaskStep("canceller"))
            /\ WF_vars(DriverStep \/ TaskStep("driver"))
            /\ WF_vars(TaskStep("attacher"))
            /\ \A r \in Requests : WF_vars(Answer(r))

FairSpec == Spec /\ Fairness

-----------------------------------------------------------------------------
(* Properties                                                              *)

\* Whoever made a request gets at most one terminal, whatever races END,
\* master death, cancel and failed writes run (RequestTable::terminate).
OneTerminal == \A r \in Requests : told[r] <= 1

\* No call is forgotten: one that is no longer in the table has its terminal,
\* or its canceller has yet to send it, or its caller gets the write's error.
NoSilentEnd ==
  \A c \in Calls : (pc[c] \in {"registered", "open"} /\ c \notin entries)
                     => told[c] = 1 \/ canceller = c

\* When a cancel is through, no peer request linked to what it cancelled is
\* live, at any depth.
CascadeComplete ==
  \A r \in cancelled : canceller = NoOne => children[r] \cap entries = {}

\* A request that was written and is in the table has somebody who will end it:
\* a host that is read, an answer in the queue, the death of its master or the
\* sweep after it.  What the switch itself leaves to nobody is excepted: a
\* request written to a master already declared dead whose socket is open, and
\* those of a master that dies while it is unhealthy.
InHand ==
  \A r \in entries : pc[r] = "open" =>
    \/ r \in onHost /\ reader[dest[r]]
    \/ Queued([type |-> "END", from |-> dest[r], about |-> r])
    \/ DeathPending(dest[r])
    \/ r \in Listed
    \/ r \in forsaken

\* A master that was declared dead can be attached again, also when its caps
\* were held back for a probe and it counted as handled (relay_switch.rs:4294).
DeadDetached ==
  \A m \in Masters : (\E a \in Agents : task[a].at = "declared" /\ task[a].master = m)
                       ~> ~reader[m]

\* Every call that is registered ends: it is told, or its caller gets an error.
\* Excepted are those InHand excepts.
CallsEnd == \A c \in Calls : pc[c] = "registered" ~> \/ told[c] > 0 \/ pc[c] = "failed"
                                                     \/ c \in forsaken
=============================================================================
