------------------------------ MODULE Admission ------------------------------
(***************************************************************************)
(* Admission of requests to ONE installed cartridge: the switch's          *)
(* AdmissionController over the cartridge's pools.  A request routed to    *)
(* the cartridge looks its pools up, joins the line, parks until it is its *)
(* turn, and holds one slot in every pool of its chain until it ends.      *)
(* Meanwhile the cartridge's master may die and come back, and the pools'  *)
(* capacities change.                                                      *)
(*                                                                         *)
(* The chain of a request belongs to one install (chain_of_one_install),   *)
(* so installs do not interact but for spurious wakeups.  Pool names are   *)
(* known when a request joins: the lookup that gave it its chain has just  *)
(* configured them.  Time is counted in ticks, only while someone measures *)
(* it.                                                                     *)
(***************************************************************************)
EXTENDS Naturals, FiniteSets

CONSTANTS
  Requests,    \* the requests, each admitted at most once
  Pools,       \* the cartridge's pools
  Chain,       \* the pools a request needs a slot in
  Capacities,  \* capacities the cartridge may advertise; 0 is unlimited
  Grace,       \* ADMISSION_UNAVAILABLE_GRACE in ticks
  MaxOutages   \* bound: how often the master dies

ASSUME RequestAssumption  == IsFiniteSet(Requests)
ASSUME ChainAssumption    == Chain \in [Requests -> (SUBSET Pools) \ {{}}]
ASSUME CapacityAssumption == Capacities \subseteq Nat
ASSUME GraceAssumption    == Grace \in Nat \ {0} /\ MaxOutages \in Nat

VARIABLES
  capacity, active,     \* Pool.capacity, Pool.active
  queued, ticket, nextTicket,  \* State.queue as the set of waiters and their tickets
  unavailable, age,     \* InstallState.unavailable_since, and for how long
  pc,                   \* where each request's task is
  timer,                \* ticks left of a bounded wait
  woken,                \* requests whose Notified future has been notified
  notifyDue,            \* somebody changed the state and has yet to notify
  present,              \* the master is connected
  routable,             \* the cap table has the master's caps
  outages

poolVars   == <<capacity, active>>
lineVars   == <<queued, ticket, nextTicket>>
outageVars == <<unavailable, age>>
taskVars   == <<pc, timer, woken>>
masterVars == <<present, routable, outages>>
vars == <<poolVars, lineVars, outageVars, taskVars, notifyDue, masterVars>>

TypeOK ==
  /\ capacity \in [Pools -> Nat] /\ active \in [Pools -> Nat]
  /\ queued \in SUBSET Requests
  /\ ticket \in [Requests -> Nat] /\ nextTicket \in Nat
  /\ unavailable \in BOOLEAN /\ age \in Nat
  /\ pc \in [Requests -> {"new", "routed", "ready", "armed", "waiting", "timed",
                          "failing", "cancelling", "admitted",
                          "failed", "cancelled", "ended"}]
  /\ timer \in [Requests -> Nat]
  /\ woken \in SUBSET Requests
  /\ notifyDue \in BOOLEAN
  /\ present \in BOOLEAN /\ routable \in BOOLEAN /\ outages \in Nat

Init ==
  /\ capacity \in [Pools -> Capacities]
  /\ active = [p \in Pools |-> 0]
  /\ queued = {} /\ ticket = [r \in Requests |-> 0] /\ nextTicket = 0
  /\ unavailable = FALSE /\ age = 0
  /\ pc = [r \in Requests |-> "new"]
  /\ timer = [r \in Requests |-> 0]
  /\ woken = {} /\ notifyDue = FALSE
  /\ present = TRUE /\ routable = TRUE /\ outages = 0

-----------------------------------------------------------------------------
(* The decisions of the proved model                                       *)

\* State.hasRoom: every pool of the chain has.
HasRoom(r) == \A p \in Chain[r] : capacity[p] = 0 \/ active[p] < capacity[p]

\* MUTANT of NextUp: anybody who fits.
NextUp_Any(r) == r \in queued /\ HasRoom(r)

\* State.admit: the first waiter, in order of arrival, whose chain has room.
NextUp(r) == /\ r \in queued /\ HasRoom(r)
             /\ \A q \in queued : HasRoom(q) => ticket[r] <= ticket[q]

\* State.admitted and State.release: one slot in every pool of the chain.
Take(r) == active' = [p \in Pools |-> IF p \in Chain[r] THEN active[p] + 1 ELSE active[p]]
Give_One(r) ==    \* MUTANT of Give: only one pool of the chain is released
  LET own == CHOOSE p \in Chain[r] : TRUE
  IN active' = [active EXCEPT ![own] = @ - 1]
Give(r) == active' = [p \in Pools |-> IF p \in Chain[r] /\ active[p] > 0
                                        THEN active[p] - 1 ELSE active[p]]

-----------------------------------------------------------------------------
(* One request                                                             *)

Goto(r, to) == pc' = [pc EXCEPT ![r] = to]

\* find_route_for_cap: the cap table names the cartridge's master.
Route(r) ==
  /\ pc[r] = "new" /\ routable
  /\ Goto(r, "routed")
  /\ UNCHANGED <<poolVars, lineVars, outageVars, timer, woken, notifyDue, masterVars>>

\* configure_pools: the capacities are set and any outage is over.
ConfigurePools(cap) ==
  /\ capacity' = cap
  /\ unavailable' = FALSE
  /\ age' = 0
  /\ notifyDue' = TRUE

\* cap_admission_target: the pools of the install's RECORDED stats are configured
\* again; the record of a dead master's cartridge is still there.
LookUp(r) ==
  /\ pc[r] = "routed"
  /\ Goto(r, "ready")
  /\ ConfigurePools(capacity)
  /\ UNCHANGED <<active, lineVars, timer, woken, masterVars>>

\* acquire, first half: the request joins the line, outage or not, and makes
\* its first Notified.
Join(r) ==
  /\ pc[r] = "ready"
  /\ Goto(r, "armed")
  /\ queued' = queued \cup {r}
  /\ ticket' = [ticket EXCEPT ![r] = nextTicket]
  /\ nextTicket' = nextTicket + 1
  /\ woken' = woken \ {r}
  /\ UNCHANGED <<poolVars, outageVars, timer, notifyDue, masterVars>>

\* MUTANT of TurnTaken: the others are not told that the line moved.
TurnTaken_Silent == notifyDue' = notifyDue

\* After its turn a request notifies the others: the next may fit as well.
TurnTaken == notifyDue' = TRUE

\* acquire, the loop's critical section, when it is the request's turn.
Admit(r) ==
  /\ pc[r] = "armed" /\ ~unavailable
  /\ NextUp(r)
  /\ Take(r)
  /\ queued' = queued \ {r}
  /\ Goto(r, "admitted")
  /\ TurnTaken
  /\ woken' = woken \ {r}
  /\ UNCHANGED <<capacity, ticket, nextTicket, outageVars, timer, masterVars>>

\* MUTANT of Patience: the grace is measured from each waiter's own arrival.
Patience_Fresh == Grace

\* Patience.AtMost: what is left of the grace, measured from the outage's start.
Patience == Grace - age

\* The same when it is not: it waits for its turn, or for what is left of the
\* grace, or fails because the outage outlived it.
Wait(r) ==
  /\ pc[r] = "armed"
  /\ ~(~unavailable /\ NextUp(r))
  /\ \/ ~unavailable /\ Goto(r, "waiting") /\ UNCHANGED timer
     \/ unavailable /\ age < Grace /\ Goto(r, "timed")
        /\ timer' = [timer EXCEPT ![r] = Patience]
     \/ unavailable /\ age >= Grace /\ Goto(r, "failing") /\ UNCHANGED timer
  /\ UNCHANGED <<poolVars, lineVars, outageVars, woken, notifyDue, masterVars>>

\* The await returns, notified or timed out; the loop makes a new Notified.
Wake(r) ==
  /\ \/ pc[r] \in {"waiting", "timed"} /\ r \in woken
     \/ pc[r] = "timed" /\ timer[r] = 0
  /\ Goto(r, "armed")
  /\ woken' = woken \ {r}
  /\ timer' = [timer EXCEPT ![r] = 0]
  /\ UNCHANGED <<poolVars, lineVars, outageVars, notifyDue, masterVars>>

\* The caller drops the waiting future.
CancelWait(r) ==
  /\ pc[r] \in {"waiting", "timed"}
  /\ Goto(r, "cancelling")
  /\ timer' = [timer EXCEPT ![r] = 0]
  /\ UNCHANGED <<poolVars, lineVars, outageVars, woken, notifyDue, masterVars>>

\* AdmissionWaiter::drop -> cancel_waiter: the request leaves the line.
Leave(r) ==
  /\ pc[r] \in {"failing", "cancelling"}
  /\ Goto(r, IF pc[r] = "failing" THEN "failed" ELSE "cancelled")
  /\ queued' = queued \ {r}
  /\ TurnTaken
  /\ woken' = woken \ {r}
  /\ UNCHANGED <<poolVars, ticket, nextTicket, outageVars, timer, masterVars>>

\* AdmissionPermit::drop -> release: the request ended.
Release(r) ==
  /\ pc[r] = "admitted"
  /\ Goto(r, "ended")
  /\ Give(r)
  /\ notifyDue' = TRUE
  /\ UNCHANGED <<capacity, lineVars, outageVars, timer, woken, masterVars>>

\* notify_waiters, after the unlock: it reaches every Notified made by then.
NotifyWaiters ==
  /\ notifyDue
  /\ notifyDue' = FALSE
  /\ woken' = woken \cup {r \in Requests : pc[r] \in {"armed", "waiting", "timed"}}
  /\ UNCHANGED <<poolVars, lineVars, outageVars, pc, timer, masterVars>>

-----------------------------------------------------------------------------
(* The master                                                              *)

\* The connection is lost; disable_master starts the outage if none is on.
MasterDies ==
  /\ present /\ outages < MaxOutages
  /\ present' = FALSE
  /\ outages' = outages + 1
  /\ unavailable' = TRUE
  /\ age' = IF unavailable THEN age ELSE 0
  /\ notifyDue' = TRUE
  /\ UNCHANGED <<poolVars, lineVars, taskVars, routable>>

\* The last step of handle_master_death: the cap table is rebuilt.
RebuildCapTable ==
  /\ routable # present
  /\ routable' = present
  /\ UNCHANGED <<poolVars, lineVars, outageVars, taskVars, notifyDue, present, outages>>

\* The master attaches again, or a RelayNotify brings new stats.
Advertise ==
  /\ present' = TRUE
  /\ \E cap \in [Pools -> Capacities] : ConfigurePools(cap)
  /\ UNCHANGED <<active, lineVars, taskVars, routable, outages>>

\* A tick of the clock: the outage grows older, bounded waits grow shorter.
Tick ==
  /\ \/ unavailable /\ age < Grace
     \/ \E r \in Requests : pc[r] = "timed" /\ timer[r] > 0
  /\ age' = IF unavailable /\ age < Grace THEN age + 1 ELSE age
  /\ timer' = [r \in Requests |-> IF timer[r] > 0 THEN timer[r] - 1 ELSE 0]
  /\ UNCHANGED <<poolVars, lineVars, unavailable, pc, woken, notifyDue, masterVars>>

RequestStep(r) == LookUp(r) \/ Join(r) \/ Admit(r) \/ Wait(r) \/ Wake(r)
                    \/ Leave(r) \/ Release(r)

Next == \/ \E r \in Requests : RequestStep(r) \/ Route(r) \/ CancelWait(r)
        \/ NotifyWaiters
        \/ MasterDies \/ RebuildCapTable \/ Advertise \/ Tick

Spec == Init /\ [][Next]_vars

(* Tasks run, notifiers notify, time passes, and an admitted request ends.  *)
(* Nobody has to come back, to cancel or to route.                          *)
Fairness == /\ \A r \in Requests : WF_vars(RequestStep(r))
            /\ WF_vars(NotifyWaiters)
            /\ WF_vars(Tick)

FairSpec == Spec /\ Fairness

-----------------------------------------------------------------------------
(* Properties                                                              *)

Admitted == {r \in Requests : pc[r] = "admitted"}

\* The books balance: a pool's active count is the number of permits whose
\* chain names it, whatever was cancelled, failed or released in between.
SlotsMatchPermits ==
  \A p \in Pools : active[p] = Cardinality({r \in Admitted : p \in Chain[r]})

\* The line holds exactly the requests that wait, each under its own ticket.
LineIsWaiters ==
  /\ queued = {r \in Requests :
                 pc[r] \in {"armed", "waiting", "timed", "failing", "cancelling"}}
  /\ \A r, q \in queued : ticket[r] = ticket[q] => r = q
  /\ \A r \in queued : ticket[r] < nextTicket

\* No turn is lost: whoever is next, when the cartridge is there, is awake,
\* or about to be told (notify_waiters after every change, acquire's included).
NoLostTurn ==
  \A r \in queued : (~unavailable /\ NextUp(r) /\ pc[r] \in {"waiting", "timed"})
                      => r \in woken \/ notifyDue

\* A slot is given only within the capacity of every pool of the chain, also
\* when capacities shrink below what is in use.
WithinCapacity ==
  [][\A p \in Pools : active'[p] > active[p] =>
        capacity[p] = 0 \/ active'[p] <= capacity[p]]_vars

\* Nobody is overtaken by a later request that needs all it needs.
NotOvertaken ==
  [][\A r \in Admitted' \ Admitted : \A q \in queued :
        Chain[q] \subseteq Chain[r] => ticket[r] <= ticket[q]]_vars

\* Waiting ends: every request in the line is admitted, fails or is cancelled,
\* as long as admitted requests end and outages are finitely many.
WaitingEnds == \A r \in Requests : r \in queued ~> r \notin queued

\* No bounded wait outlasts what is left of the grace of its outage: a request
\* that queues late does not get a fresh window.
WaitWithinGrace ==
  \A r \in Requests :
    (pc[r] = "timed" /\ unavailable /\ r \notin woken /\ ~notifyDue)
      => timer[r] + age <= Grace
=============================================================================
