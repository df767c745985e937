# capdag-rs in TLA+

capdag runs pipelines of *caps* (typed operations) served by *cartridges*
(separate processes). This directory models the part of it that runs
concurrently, or over several runs of it: how requests, credit and permits move
between the engine, its relay switch, the hosts and the cartridges, how a
pipeline is driven over them, how definitions are cached, and how an
installation replaces itself. Paths below are relative to
`src/src/`.

Contents: [the system](#the-system) · [the modules](#the-modules) ·
[the runs](#the-runs) · [the proofs](#the-proofs) · [what the code does
otherwise than it says](#disagreements) · [not modelled](#not-modelled) ·
[the plan](#the-plan)

## The system

```
 engine (executor)                        one process per cartridge
   | execute_cap                                 | handlers
 RelaySwitch ==socket== RelaySlave == host runtime ==pipes== cartridge runtime
   | n masters                       (spawns, routes)
   | AdmissionController, RequestTable
```

A request (REQ, STREAM_START, CHUNK.., STREAM_END, END or ERR) goes down this
line and its response comes back up. A cartridge may make *peer requests*, which
travel up to the switch and down to the cartridge that serves them.

| component | state | operations | what is hard | what makes it correct |
|---|---|---|---|---|
| credit (`bifaci/credit.rs`, decisions in `generated/.../CapDAG-Bifaci-Credit.rs`) | per outgoing stream a gate: balance, closed, `Notify`; a router of gates; per incoming stream a window: granted, received, consumed, pending | acquire (async, blocking), grant, close, consume, continued, flush, register, close_request, remove_request | the await between attempt and wait; batching against another party's window; cancel while blocked | no lost wakeup, no lost credit, no false violation, everything arrives, cancel releases |
| cartridge runtime (`cartridge_runtime.rs`) | running handlers, per-request channels, gates, pool queue, pending peer calls, deferred errors | dispatch, demux, streams, cancel, handler done, peer call, heartbeat, shutdown | END races cancel; batched grants versus blocking; streams opened late | one terminal per request, nobody hangs after a cancel |
| admission (`request_state.rs` AdmissionController, decisions in `CapDAG-Bifaci-Pools.rs`) | per install: pools (capacity, active), line of tickets, `unavailable_since` | acquire, release, cancel_waiter, configure_pools, disable_master | all-or-nothing over several pools; futures dropped while waiting; outage clock | books balance, fair order, no lost turn, capacity respected, bounded waits |
| request table (`request_state.rs`) | live entries by (xid, rid), parent/child links, ring of 64 terminated summaries | register, terminate, link_child, classify | who terminates first; evicted summaries | first terminal wins, later ones are stragglers |
| relay switch (`relay_switch.rs`) | master slots (health, caps, reader, writer, limits), cap table, queue of frames, probes pending | add_master, pump, execute_cap, peer routing, cancel, master death, RelayNotify, identity probe, set_policy | every agent drops its locks between steps; connections die and come back in place | at most one terminal, nothing written is forgotten, cancel cascades, a dead slot is detached |
| host runtime (`host_runtime.rs`) | cartridge processes, routing by (xid, rid), heartbeats, roster, retirement | route, spawn, death, retire, roster sync, OOM kill | death with frames queued; roster flap while draining | pending requests of a dead cartridge get ERR once, no live one killed |
| in-process host, relay, router | channel maps; the slave's forwarding | dispatch to handlers, forward frames | order preserved across tasks | same promises as the above over a local pipe |
| frames and I/O (`frame.rs`, `io.rs`) | limits of the handshake; sequence assigner; reorder buffer | encode, decode, assign, accept | sequence assigned and written under different locks | in-order delivery per flow |
| executor (`orchestrator/executor.rs`) | chains of steps, pumps, forwarders, upstream credit, first-failure token | run_dag, run_step_chain, forward_frames | hold-and-wait on pools; sibling failure; activity timeout | chain always ends, first failure is the cause |
| plan execution (`execute_plan.rs`, `stream_io.rs`, `run_arguments.rs`, `transient.rs`) | segments, map bodies, spooled data, argument journal | dispatch segments, spool, reclaim | bodies fail and retry independently | outputs match the plan |
| planner, machine notation, URNs, definitions | none across calls | pure functions | recursion, ordering | results satisfy their declarative definitions |
| fabric registry (`fabric/registry.rs`) and the switch's graph of caps (`live_cap_fab.rs`) | caches of caps, media, dims; fetch queue and its keys; revision; graph | lookups that wait and lookups with a deadline, background fetch, prefetch, rebuild | fetches that overlap and fail, a disk shared with processes of other pins | what is cached is whole and of the pin; what is asked for gets there |
| self update (`self_update.rs`) | executable, cartridges, staging directory | recover, unpack, install, put back, replace | a stop between renames, an undo that fails | an executable never beside older cartridges; cartridges in place or recoverable |
| net_retry | attempts, deadline | retry | — | bounded retries |
| trust, charters, verdicts, manifests, CLI, media, capture, prompts | files | parse, verify, print | — | their own tests |

`PROJECT.json` lists every component with its status, and under `hazards` what
of this code a test hardly reaches.

## The modules

**`CreditStream`** — one outgoing stream of a handler and its receiver.
Async writers (`Tasks`) run `CreditGate::acquire` in its three steps: arm the
`Notified` future (`Arm`), try (`Acquire`), await it (`Await`, `Wake`); blocking writers
(`Threads`) use the condition variable (`BlockingAcquire`). `Send` puts the chunk
on the wire, `Arrive` is the demux: the window consumes (or reports a violation),
a frame that only continues an item is granted back at once, the last frame of
an item makes it readable. `TakeItem` is `InputStream::recv`, which batches its
grants, and `Block` is the flush before it blocks. `Cancel` and `HandlerDone` are
the runtime's close of all gates *registered so far*. The window arithmetic (`Consume`, `Flush`, `Continued`, `Exhausted`,
`Granted`, `Batch`) is translated from the generated decision functions
`credit.rs` calls. `ConsumerCall = "recv_data"` is the reader that goes past the
grants. The wire is ordered and loses
nothing, so it is a count; so are the credits under way, of which a delivery
hands over any part, which covers every way of framing them.

**`WindowedPipe`** — what a stream promises: a pipe that accepts a chunk while
fewer than `Window` are unacknowledged, and hands items over in order. `PipeSpec`
in `CreditStream` is `WindowedPipe` under a refinement mapping; the runs check it.

**`CartridgeRequest`** — a cartridge process serving the host's requests. The main
loop (`CartridgeRuntime::run_cbor_mode`'s) alternates: it drains the line
(`AdmitNext`, then `Drained`), and takes one event of its select: a finished
handler (`Reap`), `pools_changed` (`PoolsChanged`), or the next frame of the
reader's channel (`Take...`, `CancelQueued`, `CancelRunning`, `CancelIgnored`).
The reader thread appends to `inbox` what the host sends, and applies the
capacities of a probe by itself before it passes the heartbeat on (`Probe`,
`PassHeartbeat`); any code of the cartridge may call `PoolHandle::set`
(`SetAvailable`, then `NotifyOne`). `owed` is who changed a limit and has not yet
woken the loop. A handler (`HandlerStep`, `Fail`) reads its input, registers and
makes a peer call, writes its argument, waits for the response, starts and writes
its output, and then the two compare-and-swaps decide: whoever moves `claim` sends
the terminal. A handler that finds the cancel's claim says nothing; the ERR is sent
by the loop when it reaps it (`cancelled`). A blocked writer is `gate` or
`argGate` being `open`; how credit is counted is `CreditStream`'s.

**`Admission`** — one install's `AdmissionController`. A request is `Route`d, looks
up its chain (`LookUp`, which configures the pools from the recorded stats
again; the code reads the record and configures just after, in the model in one step), takes a ticket and its first `Notified` (`Join`), and runs the loop of
`acquire`: `Admit` when it is next, otherwise `Wait`, then `Wake`. `CancelWait` and
`Leave` are the drop of the waiting future (`AdmissionWaiter::drop`), `Release` the
permit's. Notification is a step of its own (`NotifyWaiters`), as in the code,
which notifies after the unlock; several calls merge into one, which only makes
wakeups later. `MasterDies`, `RebuildCapTable` and `Advertise` are the switch's
calls. Chains belong to one install, so several installs do not interact.

**`RelaySwitch`** — calls, peer requests, masters. An *agent* (a caller, a pump, the
canceller, the probe driver, the attaching task) holds at most one `task`: the steps of
`handle_master_death` (`DeclareDead`, `Inspect` of the health flag, `Retire` of the reader, `Condemn`,
`LookUp` of the requests, `Sweep` of each), which ends in a rebuild of the cap table, or a
rebuild alone; it reads the slots one by one (`ReadMaster`) and writes what it saw later
(`WriteTable`). Actions are the stretches of code between awaits that drop a lock: find_route,
register, write, take a frame from the shared queue, terminate, reply, each on its own.
Reading and writing fail separately: `Lose` closes the socket, its reader queues an EOF and
exits; a `Write` may also fail on an open socket whose reader is alive, for any `CborError`, and
is taken for the master's death too (3706-3714), for a master of a call, of a peer request, of
a cancel, of a probe, or the one an answer goes back to. A connection that comes back has
its reader before it has its slot: `Arrive` is `add_master` up to the spawn, `Attach` the commit; it may
be lost in between (`LoseArriving`), or bring an inventory that cannot be admitted. Caps that come
out of nowhere are put into the slot (`TakeNotify`) before it is marked unhealthy for the
probe (`HoldBack`). A cancel goes down the children to any depth (`Descend`). `forsaken` records what
the switch leaves to nobody (below). Admission sits between lookup and registration and is
not repeated here. The rebuild of the capability graph that goes with that of the cap
table (4440-4448) is `FabricRegistry`'s.

**`HostRuntime`** — a host and its cartridge processes. One loop
(`CartridgeHostRuntime::run`) takes relay frames (`RelayStep`), events of its cartridges
(`EventStep`) and timers (`HeartbeatTick`, `ReapDrained`). Its tables are the code's:
`incoming`, `outgoing`, `bodyDone`, `responseDone`, `links`. Of a request's frames only
those that change a table are kept: REQ, the end of the body, the end of the
response, a cancel. `Serve` finds the first slot with the cap and spawns it;
`ServeFails` is the spawn error that ends `run`. `Deliver`, `Undeliverable` and `Unrouted`
are the three fates of a body or a response. A process (`TakeFrame`, `Respond`,
`MakePeer`, `EndArgument`, `Crash`, `Hang`) lies behind its pipe; its events carry the
generation of its slot, and `OldEvent` drops those of a process gone before.
`HearDeath` is `handle_cartridge_death`: `Buried` (the slot and the reason), `Lost` (requests
it served), `Orphaned` (requests it made). `SyncRoster` is the roster with its
retirements, returns and additions. The switch is external: it gives a peer
request back to this host or to another (`Local`, `Away`). Its select prefers events,
but what a cartridge said may still be in the pipe, so the model takes no order. A process that
lives on but whose output ends or cannot be decoded is `Crash`: nothing more is heard of it, what it is
given is lost, and its death is handled. One whose *input* fails finds it ended, and ends: what
it still says is taken to be said before `Crash`, and its `WriterFails` comes after. That puts
its last words before what others say meanwhile, and nothing else in another order.

**`ChainRun`** — a scope of a plan (`run_scope`), the chains in it (`run_chain`'s attempts)
and the segments of a chain (`run_step_chain`). `Segments` is the split of a chain's
positions at shared pools and at streaming boundaries. A segment opens its requests in order, each
against its pools (`Open`, `Refuse`), spawns the input sender and the forwarders
(`Spawn`, `Feed`), races its faults, a failure elsewhere and the last terminal
(`Decide`, where a consequence of a failure may win over the failure), and then ends in the code's
order: cancels and closes of gates (`Teardown`, `CloseGates`), then the `Join` that waits for every
task. A sender without credit waits, until there is some or the gate is closed. Caps are external (`Read`, `Write`, `End`,
`Err`). A hop is the bounded pipe that `CreditStream` is shown to be; admission is what
`Admission` shows of it, all slots or none.

**`SelfUpdate`** — `pc` is the file operation an update does next; `cart`, `previous` and
`fresh` are directories with a release and a flag for "all of it", since
`remove_dir_all` may stop in between. `Fail` follows the code's error paths
(`OnError`), `Crash` leaves the disk as it is. `Start` begins the next update, which
`Recover`s. `marred` records that undoing an install lost cartridges (below).

**`FabricRegistry`** — one process' caches as a function from definitions to versions.
`Start` keeps of what the disk holds what `retain_pinned` keeps; the disk is any
published version or none of each definition, because processes of other pins write
it, clear it and remove its half-written files. A fetcher's stack is what it
awaits: a cap, on it the medium it names, on that a dim. `Fetch` goes one deeper or,
when nothing named is missing, caches and announces a revision. Lookups either
wait (`get_cap`, prefetch) or give up at their deadline and `Enqueue` (`get_cached_cap`);
the consumer serves the queue (`Serve`, `Served`). `Advertise`, `ReadCurrent` and
`WriteGraph` are the switch's rebuild of the graph, by two agents.

**`MC...`** give TLC the model values and the functions (`Chain`, `Parent`).
**`..._proofs`** hold theorems. Definitions named `X_Something` marked MUTANT are the
plausible bugs each property is tried against; no specification uses them.

## The runs

| run | question | instance |
|---|---|---|
| `credit_scalar` | two tasks and a blocking thread share a gate | send window 2, receive window 6 (so the receiver's batch exceeds the sender's window), 2 items each |
| `credit_sequence` | items longer than the window | windows 2, 4 items of 3 frames |
| `admission` | the line over overlapping chains while capacities move, through outages | 2 requests, 2 pools of capacity 1..2, 2 outages, grace 2 ticks |
| `cartridge_requests` | requests, limits, a cancel and a peer call race in one cartridge | 3 requests over one pool of 1 or 2 slots; the second reads, calls with a large argument, writes a large output, and may be cancelled; 1 change of the limit |
| `switch_losses` | every race for one call's end | 2 masters, a call, its peer request and that one's own, 2 pumps, a cancel, 1 loss or failed write |
| `switch_probes` | who ends a written request, and that a dead slot is free again | 1 master whose host comes back, a call, probes that fail, 2 losses or failed writes, 1 notice, inventories that are refused |
| `host_processes` | an install leaves the roster and returns while its process fails | 1 install in at most 2 slots, 2 calls, 2 rosters, 1 fault |
| `host_peers` | a call, its peer request, a cancel or kill, a death | 2 installs, 1 call, 1 peer request served here or elsewhere, 1 fault of the maker |
| `chain_run` | chains contend for slots and fail | a chain of three steps over pools P, P, Q and a chain of one step over Q, each of one slot; caps fail in every class, one ENDs early, a refusal in mid-segment and one at a head, a second attempt, a failure tolerated |
| `chain_early_end` | a cap that ENDs before it has read its input (violated) | one chain of two steps |
| `self_update` | updates that fail and stop anywhere | 3 releases, both systems, any number of faults |
| `fabric_cache` | fetches that overlap, fail and run out of time, restarts under another pin | a cap, its medium, their dim, two manifests, a lookup of each kind, the consumer, two rebuilders |

Why these are enough: every property is about at most two parties competing for
one thing (a credit, a slot, a terminal, a slot of the switch) with a third that
disturbs them; the instances have those, and each mutant of the code that the
property is for is found in them. A window of 2 is the smallest with a batch;
6 the smallest whose batch (3) is larger than the sender's window. Two pumps
because any number of callers may pump. Two chains with a pool in common, one of them cut where it comes to it, are the smallest contention for slots; two slots of a host
are an install and its successor. Two manifests are one change of pin. Bounds:
`MaxOutages`, `MaxLosses`, `MaxNotices`, `Items`; `MaxSlots`, `MaxSyncs`, `MaxFaults`, `Frail` (whose
processes fail), `Cancels`, `Kinds` in `HostRuntime`; `Window`, `Chunks` in `ChainRun`; `MaxRelease` in
`SelfUpdate`; in `CartridgeRequest` `MaxChanges`, `MaxInbox` (how far the
reader is ahead: one frame lets it race every step of the loop, and the host's
next frame waits for its room), `Before` (the requests arrive in one order, since
only the second differs from the others) and `Cancellable`.

Some constants take a case out of a run, because the code does not keep the
property there or because another run has it; each is described [below](#disagreements):
`ProbesFail = FALSE` in `switch_losses` (it is `TRUE` in `switch_probes`), `EarlyReply = FALSE` and
`Frail = {1}` in `host_peers`. Runs set `CHECK_DEADLOCK FALSE` because a
finished request leaves nothing to do; the liveness properties say where stopping is wrong.

Properties, and what would break them:

- `Conservation`, `NoViolation`: balance + paid for + on the wire + unread + due + on
  its way back is the window, and what arrives was granted.
- `NoLostWakeup`: no task sleeps on an open gate with credit unless notified.
- `Delivered`, `CloseReleases`: an uncancelled stream arrives; a closed gate frees
  its writers.
- `OneTerminal`, `Accounted` in the cartridge: handler's END, cancel and deferred ERR.
- `SlotsMatchHandlers`, `NoLostTurn`, `NotOvertaken` in the cartridge: limits move under
  the loop from two threads.
- `RequestEnds` in the cartridge: every request gets its terminal, unless a handler is
  `Stranded`, blocked at a gate that nobody opens or closes any more (it happens, see below).
- `SlotsMatchPermits`, `NotOvertaken`: the books of admission and the order of its line.
- `NoLostTurn`, `WaitingEnds`, `WaitWithinGrace`: a turn, an end, a bound.
- `OneTerminal`, `NoSilentEnd`, `CallsEnd`, `CascadeComplete`: who is told by the switch, once,
  and that nobody is forgotten.
- `InHand`: a written request in the table has a host that is read, an answer in the queue, a
  death to be handled or a sweep that lists it, unless the switch has `forsaken` it in one of
  two ways (below). `DeadDetached`: a master declared dead loses its reader, so it can attach again.
- `RosterFollowed`, `DrainSpared`, `DrainEnds`: a roster that flaps while processes drain,
  die and are spawned; `ReasonOfThisLife`: why a process ended is not what ended the
  one before it.
- `AnsweredOnce`: a second terminal for a call only in the two orders it names.
- `NobodyForgotten`, `RoutedRight`, `RequestEnds` in the host: the tables keep whoever
  waits, and keep the two streams of a self-served peer request apart.
- `NothingLeft`: a chain that moves on leaves a request running only when a later one of its
  segment was refused, or a later cap ENDed before its input did.
- `FailureHasCause`: what a chain fails with, attempts again or tolerates (a consequence may be
  its verdict) comes of a step of its own: an ERR, a refusal, or an early END; a chain that is
  only stopped for another's failure answers for nothing.
- `RunEnds`: with pools taken in one order (`PoolsInOrder`) no circle of holders and no join keeps
  the scope, unless a refusal or an early END left something behind.
- `PairPublished`, `CartridgesKept`, `Converges`: the installation after any stop.
- `Whole`, `Hydrated`: a cached definition has what it names at the pin's version; a cap
  that is asked for reaches the graph once fetches succeed.

Each `TypeOK` is written for the proofs and not repeated in a run; nor are `WindowCovers`,
`LineIsWaiters` and `WithinCapacity`, which are proved. Definitions said to be "not so"
(`GraphCurrent`, `MediaAtHand`, `CancelEnds`) state what a comment says and the code does not keep.

Fairness. Tasks spawned on tokio run (weak fairness of each task's own step; of an agent of
the switch as a whole, which is one task);
notifiers notify; the pump is driven (a caller that waits for its answer pumps,
and the engine keeps one running); a host answers what it was given while it is
connected; an admitted request ends; time passes. In a cartridge: the loop, the
reader and each handler run; the host ends every input it began; a callee ends;
who reads an output or an argument grants credit as long as the request is not
cancelled. In a host: the loop takes what its select offers, heartbeats and drains
time out, a handler that was given a whole request answers it, other hosts answer. In a
scope: its tasks run, a cap that has read its input ends, and a request that waits
for slots which keep coming free gets them (strong fairness of `Open`; this is what
`NotOvertaken` and `WaitingEnds` of `Admission` give). Someone runs an update again, and a
process that runs goes on; `Converges` is about the time in which nothing fails (`calm`).
The registry's consumer and the tasks that rebuild the graph run; lookups need not. The order in which the select prefers its events is not used. Nothing is assumed of what
need not happen: cancels, losses, returns of a host, advertisements, new calls, rosters, lookups.

## The proofs

The modules named `..._proofs` prove, for every value of the
constants that satisfies the named assumptions (finite sets, positive windows, non-empty
chains, natural capacities, manifests that name every definition, a plan whose steps
have one place each). A theorem that needs more says so in an `ASSUME` of its own, below.

*CreditStream.* `IInv` is `TypeOK`, `Conservation`, `WindowCovers` and
`NoLostWakeup` with four facts they rest on: a writer inside acquire has a frame
left to send (`FrameToSend`), nothing moves before the stream starts
(`QuietBeforeStart`), a gate that is not closed is still registered
(`GateReachable`), and the way the consumer reads does not change
(`ConsumerStays`). Conservation counts the set of writers that hold a paid
credit, hence the cardinality lemmas. `NoViolation` needs one assumption more,
`SendWindow <= RecvWindow`: without it the code does report violations (below).

*Admission.* `IInv` is `TypeOK`, `LineIsWaiters`, `SlotsMatchPermits` and `NoLostTurn`:
the count of a pool is the cardinality of its holders, so each step that admits or
releases adds or removes one holder. From it follow the action properties
`WithinCapacity` and `NotOvertaken`. `WaitWithinGrace` has an invariant of its own,
the age of an outage and the timers started within it.

*CartridgeRequest.* `IInv` is `TypeOK`, `SlotsMatchHandlers`, `ReqOnce` and `Ledger`.
`ReqOnce` says that a request's REQ reaches the loop at most once and before
anything else is known of it, without which a second spawn could not be excluded.
`Ledger` ties a handler's stage to who has claimed the request, and both to the
number of terminals sent; it is what makes `OneTerminal` and `Accounted` inductive.
The action properties follow from `Starts`: only the loop starts a handler, from
the head of the line or at once. `NoLostTurn` is its own induction: a wakeup that
is told stays told while the loop sleeps.

*SelfUpdate.* `PairPublished` and `CartridgesKept` are not inductive: whether a step
keeps them depends on where the update is. The invariant adds `Staged` (the release on
its way in is newer, and which directory holds it), `Paired` (cartridges moved aside
belong to the executable as long as that is the old one) and `Kept` (at every
operation a whole set of cartridges is in place or aside). Releases and faults
are unbounded.

*FabricRegistry.* `IInv` is `Whole` with `AllPinned`, everything cached is of the pin's
version: a definition about to be cached finds its dims there, and must know of
which version. What `retain_pinned` lets through is a lemma of its own. No assumption is made
about the disk, the order of fetches or who does them.

*RelaySwitch.* `IInv` follows a request's one token: it is the entry of the table, or the
terminal that the canceller or a pump has in hand, or the terminal that was told, and never
two of these (`OneToken`). Only one pump at a time holds a frame (`Alone`: the queue's
lock), and the children of a cancelled call are in the running cascade or gone
(`Family`). `OneTerminal`, `NoSilentEnd` and `CascadeComplete` follow. `InHand` is nearly
inductive itself: `HandInv` adds that only a rebuild has requests to sweep (`KeysKept`) and that the slot
a connection arrives in has no reader (`SlotFree`). None of these theorems assumes anything of losses,
failed writes, probes or of who comes back when.

*HostRuntime.* `IInv` ties processes to slots (`Lives`: a cartridge runs exactly when its slot
has a process; who serves a request runs) and slots to the roster (`Slotting`: of the
cartridges of one install at most one is on offer or drains, and what drains is not
wanted). It gives `RosterFollowed`, `ReasonOfThisLife` and `DrainSpared`.

*HostRuntime, its queues.* What is on its way lies in three kinds of queue: the relay's, the events',
each process's pipe. A queue is taken as the set of its frames with the order of any two
(`Moved`); `Steps` restates each action as what it takes, adds and answers, and
from there on no proof opens an action. `Routing` says that what was not made is
nowhere (`Unmade`), that a process that is gone holds nothing and its events are told
apart by generation, that a request that waits in the relay has no marks (`Fresh`), and
two things of a request's place: `Token`, that it is in one at most on its way from the
pipe over the process to the response, and no terminal was given while it is, and
`HeldLive`, that one that is not answered is in one at least. `AnsweredOnce` follows from the
first, and from the second `ServedHeldAlways`, the half of `NobodyForgotten` that is of who serves; neither
assumes anything. The other half, that who asked for something will
hear (`MakersKnown`), has the invariant `Waiting`: the process's request is in the event queue, on the host's
books, or answered in its pipe (`Asking`). For a request that this host also serves, the
trace of its body matters, for body and response come down the relay under
one key: the body comes once, and while it is there the server's entry takes it (`Bodies`).
So the result for the whole, `NobodyForgottenAlways`, is a conditional one: it assumes `SteadyPeers`: for each peer request served here, the
installs it wants stay on the roster, do not fail, are not the asker's own, and are not killed
by a cancel. The run `host_peers` satisfies it (`PeersAreSteady`); with no such requests it says nothing.
Without it the host answers in the server's place, and the maker loses its entry to its own
body (*Host*, below).

*HostRuntime, which stream is which.* When this host serves its own peer request, its body and
its response come down the relay under one key, and the host goes by what it has marked as
ended. `RoutedRightAlways`, conditional too, says that this does not err, while the call is not
cancelled, where nobody takes the server away and no response is early. Its
invariant `Answering` goes along the request's life: on its way to the server nobody has anything
of it (`Pristine`); once a process has the end of the body, or has responded, the host has marked
the body or dropped the entry (`Settled`); so when the response comes down the relay nobody serves
the request (`Replied`), and it goes to the maker, once (`Answered`). From the other side, who
is on the books for a request, or has its response, still asks for it (`Askers`): it stops
when it takes the response, but not for a body, which goes to the install that serves
(`BodyHome`), and not for a cancel, which is always of a cancelled call (`CancelsReal`). Two
assumptions are needed: `SteadyPeers`, and `~EarlyReply`, that a handler of such a request reads
its input before it responds. With `EarlyReply = TRUE` TLC finds, in eleven states, the response
given to the server as the end of the body (*Host*, below). The run `host_peers` satisfies both.

*ChainRun.* `IInv` says of each step how far it can be, given the phase of its chain
(`Progress`), that the END of a step's input is that of one that ended (`EndInTurn`), that
what was decided of a chain has its cause in a step (`Decided`) and that requests are opened
in order, and live at the end only where a later cap ended early (`Orderly`, `Cut`). `FailureHasCause`
and `NothingLeft` name their exceptions themselves, so their theorems assume nothing of which caps
fail, are refused or end early.

*The pipe.* `IsAPipe` is the refinement of `WindowedPipe` by `CreditStream`, step by step.
`Flow` counts frames: those of the items begun are on the wire, dropped, being reassembled,
queued or taken, up to the rest of the one being sent. With the conservation of
credit, an item is begun only when one of the window is free. No clause
speaks of an open gate, so a cancel changes nothing.

Only model-checked: liveness (`Delivered`, `CloseReleases`, `WaitingEnds`, `RequestEnds`,
`CallsEnd`, `DeadDetached`, `DrainEnds`, `RunEnds`, `Converges`, `Hydrated`).

<a name="disagreements"></a>
## What the code does otherwise than it says

One has a run that expects a violation, and `PROJECT.json` quotes the line:

- `chain_early_end`: a cap that ENDs before it has read its input fails its chain,
  though the forwarder's comment calls that success.

The others were met while modelling; most are reachable in the models with the constants
named.

*Credit and cartridge.* `recv_data` (`cartridge_runtime.rs:664`) replenishes nothing, so a stream
longer than its window stalls (`ConsumerCall = "recv_data"`). A cancelled handler hangs
at the gate of a peer call's argument (2217), which is registered under the peer
call's id, or at that of an output started after the cancel (1961); its ERR is never
sent and its slot is kept (`CancelEnds`, with `BigArgs` not empty; `RequestEnds` excepts exactly these). A callee
that ends with ERR before it has read the argument leaves its caller blocked in the
write (`PeerEnds` before `PeerGrants`). A cancel can reach a callee before its REQ, and a
peer call made after the cancel gets none (`Register`, `CancelRunning`, `Call`). A
negotiated window of one never completes an item of two frames; a sender whose link
negotiated a larger window than its receiver's is reported for a violation
(`SendWindow = 3`, `RecvWindow = 1`). At the end of its input the cartridge joins its
writer while it still holds the senders its handlers wait on (7126; outside the models).

*Admission and switch.* A request routed before an outage configures its pools after
it began, and so ends it (`LookUp` after `MasterDies`). A write that fails for any reason, an
oversized frame too, is taken for the death of its master (`relay_switch.rs:3706`), and all its
requests are ended. The EOF of an old connection takes the new one of its slot down (4299;
`Returning`). Two ways to leave a request to nobody (`forsaken`): a master that
dies while it is unhealthy, held back for a probe or by a failed one, counts as handled
already, so its calls stay open (4307); and a request routed before a death and written after its
requests were looked up goes, where that death was a failed write, into a socket that is open
and that nobody reads. `InHand` and `CallsEnd` except these, no others. A peer
request whose destination just died is dropped in silence (2264); `NoSilentEnd`
is of calls only. Two overlapping rebuilds of the cap table can leave an unhealthy master in
it; a failed probe's verdict can hit a master attached since.

*Host.* When this host serves a peer request of its own and the server dies, or
answers, while frames of the body are still queued, those are routed to the maker as
its response (`host_runtime.rs:1940`; `EarlyReply = TRUE`). So is the body of one whose
server a roster has taken away before the REQ came back (with `MaxSyncs = 1`). A body that cannot be delivered removes the
maker's entry (2025) and the maker gets no ERR (`Frail = {1, 2}`). A response
followed by the death of its process can give the relay two terminals; so can one that
is queued while the host answers for a failed write (`AnsweredOnce` names both). A REQ
whose spawn fails returns `Err` from `run` and so stops the host (3225; a test expects the
spawn error). Routing by cartridge id takes the first slot with the id even if it is
retired (1770). A peer request made after the cancel of its call is told nothing
(`Abandoned`).

*Executor.* The split looks at adjacent steps only: a chain whose first and third
step share a pool of one slot never starts, and two chains that take two pools in opposite
orders wait for each other; the comment at `executor.rs:2089` calls the adjacent case
the only one. When a later step's request cannot be opened, those opened before stay and
keep their slots. Waiting for admission is not raced with the run's cancel. The fault of
a forwarder wins the biased select over the real error of the last step (3069). With caps that
END early (`Early`), a request may also stay live, and where it is the last cap the scope may never
return: its END is taken for success, so nothing is cancelled, but closing the gates
(3097) may keep an earlier cap's END from it, and the join (3105) waits for that cap's forwarder; after
a while it warns, and goes on waiting. `RunEnds` and `NothingLeft` except what such an end leaves.
The policy of a step (attempt again, tolerate) is applied to a consequence that won the race
as it is to a failure.

*Self update.* When the cartridges cannot be put back, the error says where they are
(`self_update.rs:646`), and the staging directory with them in it is removed all the same (530). A stop
while `put_back` removes the new cartridges leaves a part of them, in front of which
`recover` removes the previous ones (541). `CartridgesKept` excepts these two (`marred`), and
`Converges` shows that the next update that succeeds repairs them. On Windows a stop
between the two renames leaves no executable, and `recover` is inside it. A second
update at the same time takes the first one's staging directory for a leftover.

*Fabric.* A cap read from disk may have none of its media (`MediaAtHand`; the header,
`fabric/registry.rs:19-22`, says it always has): `retain_pinned` checks dims only. Of two rebuilds of
the graph the one that read first may write last, and a cap on offer stays out of it until
the next change (`GraphCurrent`; `relay_switch.rs:4547`). An ask that comes while the same key's
fetch is failing is taken for a duplicate and lost with it (the guard of `Calm`), and a
failed background fetch is not tried again, though prefetch says it will be. The
loaders key what they find by name, so a file of an older version may hide the pinned one.

## Not modelled

Beyond the components listed as such in `PROJECT.json` (parsers, tables, file formats
and sequential functions, the formal sources' generated twins that no program calls,
observation, device I/O): in `RelaySwitch` the
external response channels and their automatic cancel, the policy broadcast,
preferred masters, the wait for a cap to become dispatchable, the roster of a
reconciled master, limits, and the branch of `add_master` that appends a slot for a new id (the
slots are there from the start); in `CartridgeRequest` live feeds, the writer's own
terminal gate, refused requests, panicking handlers, shutdown, and the frames of a
stream (its end stands for them); in `HostRuntime` refusal by policy, routing by cartridge
id, attached cartridges, a directory that cannot be hashed when it is registered (678-716: it
is recorded as failed, leaves the cap table when that is next rebuilt, and is registered once
more by the next roster, 3029), a
live process that goes on talking after its input failed (3774; it ends, see `HostRuntime`
above) or after its output could not be read (3814), credit and log frames, the garbage collection of its tables,
the relay's disconnect, desired capacities, stderr; in `ChainRun` maps and their bodies,
absent inputs, audits of what a cap emits, spools, progress, the decomposition of a graph
into chains; in `SelfUpdate` the
checks of what is downloaded, installations of a package manager, two updates at once;
in `FabricRegistry` aliases, the charter and the manifest's own fetch, caps put in by the
command line, bookends, the extension index, and `clear_cache` (2138), which empties the maps of its
own process one after another: beside a fetch it could leave a cap without its media, and
nothing here runs it so (what it does to the disk of others is in the model); a fetched body is
taken to be of the version it was asked for, which the code does not compare; in `CreditStream` the other kinds of frames and the
progress of handlers other than by streams; in `Admission` several installs and
the statistics.

## The plan

Done: `CreditStream` with `WindowedPipe`, `Admission`, `RelaySwitch`, `CartridgeRequest`, `HostRuntime`,
`ChainRun`, `SelfUpdate`, `FabricRegistry` with their runs; proofs of every safety property
a run checks and of the refinement.

Left, in this order:

1. The composition of a caller with its callee through the switch, where cancels
   cascade, and the cartridge's shutdown at the end of its input.
2. The request table's ring of terminated summaries; maps and their bodies; the retry
   with a deadline. Sequence numbers only if a flow ever gets a second writer.

Sizes are held down by one module per pair of competing parties; composition is by
`INSTANCE` where parties share state, and by the abstract specification elsewhere.
