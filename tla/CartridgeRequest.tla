--------------------------- MODULE CartridgeRequest ---------------------------
(* The life of a request inside a cartridge (cartridge_runtime.rs): the main  *)
(* loop that takes the host's frames and admits requests through their pools, *)
(* the handler task of each request, and the reader thread that hands the     *)
(* frames over and applies the operator's capacities on its own.              *)
(*                                                                            *)
(* A handler reads its input, may call a cap of the host (a peer call), may   *)
(* write an output, and leaves; it can leave early with an error. An output   *)
(* or argument longer than its credit window blocks at a gate until a grant,  *)
(* which is all of the stream that matters here: CreditStream has the rest.   *)
EXTENDS Naturals, FiniteSets, Sequences

CONSTANTS
  Requests,    \* the requests the host sends, each once
  Pools,       \* the cartridge's concurrency pools
  Chain,       \* the pools a request needs a slot of, all or none
  Capacities,  \* the effective capacities a pool can get; 0 is unlimited
  Callers,     \* requests whose handler makes a peer call
  BigArgs,     \* callers whose argument is longer than its window
  Writers,     \* requests whose output is longer than its window
  Cancellable, \* bound: the requests the host may cancel
  Before,      \* bound: the requests that the host sends before a request
  MaxChanges,  \* bound: how often the capacities change
  MaxInbox     \* bound: how many frames the reader may be ahead of the loop

ASSUME RequestsFinite == IsFiniteSet(Requests)
ASSUME ChainType == Chain \in [Requests -> SUBSET Pools]
ASSUME CapacityType == Capacities \subseteq Nat
ASSUME BoundsType == MaxChanges \in Nat /\ MaxInbox \in Nat \ {0}

VARIABLES
  inbox,      \* frame_tx: what the reader handed over, in order
  sent,       \* which frames the host has sent of each request
  loop,       \* the main loop: draining the line, or in its select
  queued, ticket, tickets,  \* the line: who waits, each one's number, numbers given
  capacity, active,         \* per pool
  changes,    \* how often capacities changed
  owed,       \* who changed a capacity and has yet to wake the loop
  changed,    \* pools_changed holds a permit
  input,      \* the request's channel, whose sender is in active_requests
  handler,    \* how far the handler task is
  claim,      \* terminal_claims
  cancelled,  \* cancelled_requests: their ERR is due when the handler is done
  done,       \* handler_done: who reported and is not reaped yet
  terminals,  \* how many ENDs and ERRs were sent for a request
  gate,       \* the output's gate: not there, open, granted or closed
  argGate,    \* the gate of the peer call's argument
  peer        \* the response of the peer call: pending_peer_requests has it while "pending"

line == <<queued, ticket, tickets>>
pools == <<capacity, active>>
wakes == <<changes, owed, changed>>
ends == <<claim, cancelled, terminals>>
gates == <<gate, argGate, peer>>
vars == <<inbox, sent, loop, line, pools, wakes, input, handler, ends, done, gates>>

RequestFrames == {"REQ", "END", "CANCEL", "CREDIT", "PEER_CREDIT", "PEER_END"}
Heartbeat == [type |-> "HEARTBEAT"]
Frames == [type : RequestFrames, req : Requests] \cup {Heartbeat}

\* A handler from its spawn until it reports done.
Running == {"reading", "calling", "arg", "response", "starting", "writing", "left", "claimed"}

TypeOK ==
  /\ inbox \in Seq(Frames)
  /\ sent \in [Requests -> SUBSET RequestFrames]
  /\ loop \in {"draining", "selecting"}
  /\ queued \subseteq Requests
  /\ ticket \in [Requests -> Nat] /\ tickets \in Nat
  /\ capacity \in [Pools -> Capacities] /\ active \in [Pools -> Nat]
  /\ changes \in 0..MaxChanges /\ owed \subseteq {"notify", "heartbeat"} /\ changed \in BOOLEAN
  /\ input \in [Requests -> {"none", "open", "ended", "cut"}]
  /\ handler \in [Requests -> Running \cup {"none", "exited", "reaped"}]
  /\ claim \in [Requests -> {"open", "handler", "cancel"}]
  /\ cancelled \subseteq Requests /\ done \subseteq Requests
  /\ terminals \in [Requests -> Nat]
  /\ gate \in [Requests -> {"none", "open", "granted", "closed"}]
  /\ argGate \in [Requests -> {"none", "open", "granted"}]
  /\ peer \in [Requests -> {"none", "pending", "answered", "cut"}]

Init ==
  /\ inbox = <<>> /\ sent = [r \in Requests |-> {}]
  /\ loop = "draining"
  /\ queued = {} /\ ticket = [r \in Requests |-> 0] /\ tickets = 0
  /\ capacity \in [Pools -> Capacities] /\ active = [p \in Pools |-> 0]
  /\ changes = 0 /\ owed = {} /\ changed = FALSE
  /\ input = [r \in Requests |-> "none"]
  /\ handler = [r \in Requests |-> "none"]
  /\ claim = [r \in Requests |-> "open"]
  /\ cancelled = {} /\ done = {}
  /\ terminals = [r \in Requests |-> 0]
  /\ gate = [r \in Requests |-> "none"]
  /\ argGate = [r \in Requests |-> "none"]
  /\ peer = [r \in Requests |-> "none"]

-----------------------------------------------------------------------------
(* The pools (RuntimePools) *)

HasRoom(r) == \A p \in Chain[r] : capacity[p] = 0 \/ active[p] < capacity[p]

\* The one who may go: the oldest of those in line whose whole chain has room.
NextUp(r) == /\ r \in queued /\ HasRoom(r)
             /\ \A q \in queued : HasRoom(q) => ticket[r] <= ticket[q]

Take(r) == active' = [p \in Pools |-> IF p \in Chain[r] THEN active[p] + 1 ELSE active[p]]
Give(r) == active' = [p \in Pools |-> IF p \in Chain[r] THEN active[p] - 1 ELSE active[p]]

\* MUTANT: room is enough, whoever waits.
GoesAtOnce_Anyway(r) == HasRoom(r)

\* An arriving request goes at once when nobody in line may go before it.
GoesAtOnce(r) == HasRoom(r) /\ \A q \in queued : ~HasRoom(q)

-----------------------------------------------------------------------------
(* The host, and the reader thread between it and the loop *)

\* The reader is at the probe it just applied until it has passed it on.
ReaderFree == "heartbeat" \notin owed

\* The host sends a frame of request r, each kind once.
HostSends(r, type) ==
  /\ ReaderFree /\ type \notin sent[r] /\ Len(inbox) < MaxInbox
  /\ inbox' = Append(inbox, [type |-> type, req |-> r])
  /\ sent' = [sent EXCEPT ![r] = @ \cup {type}]
  /\ UNCHANGED <<loop, line, pools, wakes, input, handler, ends, done, gates>>

SendReq(r)    == (\A q \in Before[r] : "REQ" \in sent[q]) /\ HostSends(r, "REQ")
SendEnd(r)    == "REQ" \in sent[r] /\ HostSends(r, "END")
SendCancel(r) == r \in Cancellable /\ "REQ" \in sent[r] /\ HostSends(r, "CANCEL")

\* The consumer of the output grants once it has read it.
SendCredit(r) == handler[r] = "writing" /\ HostSends(r, "CREDIT")

\* The callee reads the argument as long as it runs. It ends when it wants to,
\* with END or ERR, but never before it was asked.
Asked(r) == argGate[r] # "none" \/ handler[r] \in {"arg", "response"}
PeerGrants(r) == /\ handler[r] = "arg" /\ "PEER_END" \notin sent[r]
                 /\ HostSends(r, "PEER_CREDIT")
PeerEnds(r)   == Asked(r) /\ HostSends(r, "PEER_END")

\* A probe with capacities is applied by the reader, before it is passed on. Only
\* real changes are tried: setting a pool to what it has changes nothing.
Probe(p, n) ==
  /\ ReaderFree /\ changes < MaxChanges /\ n # capacity[p]
  /\ capacity' = [capacity EXCEPT ![p] = n]
  /\ changes' = changes + 1
  /\ owed' = owed \cup {"heartbeat"}
  /\ UNCHANGED <<inbox, sent, loop, line, active, changed, input, handler, ends, done, gates>>

PassHeartbeat ==
  /\ "heartbeat" \in owed /\ Len(inbox) < MaxInbox
  /\ owed' = owed \ {"heartbeat"}
  /\ inbox' = Append(inbox, Heartbeat)
  /\ UNCHANGED <<sent, loop, line, pools, changes, changed, input, handler, ends, done, gates>>

\* MUTANT: the new limit waits to be noticed.
SetAvailable_Silent(p, n) ==
  /\ changes < MaxChanges /\ n # capacity[p]
  /\ capacity' = [capacity EXCEPT ![p] = n]
  /\ changes' = changes + 1
  /\ UNCHANGED <<inbox, sent, loop, line, active, owed, changed, input, handler, ends, done, gates>>

\* PoolHandle::set, by any code of the cartridge: report, and then notify.
SetAvailable(p, n) ==
  /\ changes < MaxChanges /\ n # capacity[p]
  /\ capacity' = [capacity EXCEPT ![p] = n]
  /\ changes' = changes + 1
  /\ owed' = owed \cup {"notify"}
  /\ UNCHANGED <<inbox, sent, loop, line, active, changed, input, handler, ends, done, gates>>

NotifyOne ==
  /\ "notify" \in owed
  /\ owed' = owed \ {"notify"} /\ changed' = TRUE
  /\ UNCHANGED <<inbox, sent, loop, line, pools, changes, input, handler, ends, done, gates>>

-----------------------------------------------------------------------------
(* The main loop: drain the line, then one event of the select *)

\* spawn_handler, with the slots of the request's chain.
Spawn(r) == Take(r) /\ handler' = [handler EXCEPT ![r] = "reading"]

AdmitNext(r) ==
  /\ loop = "draining" /\ NextUp(r)
  /\ Spawn(r)
  /\ queued' = queued \ {r}
  /\ UNCHANGED <<inbox, sent, loop, ticket, tickets, capacity, wakes, input, ends, done, gates>>

Drained ==
  /\ loop = "draining" /\ \A r \in queued : ~HasRoom(r)
  /\ loop' = "selecting"
  /\ UNCHANGED <<inbox, sent, line, pools, wakes, input, handler, ends, done, gates>>

\* The select took an event, and the loop goes round.
Turn == loop = "selecting" /\ loop' = "draining"

\* A handler is done: its slots are free, its gates close, and a cancel that
\* claimed the request sends the ERR it deferred.
Reap(r) ==
  /\ Turn /\ r \in done
  /\ done' = done \ {r}
  /\ handler' = [handler EXCEPT ![r] = "reaped"]
  /\ Give(r)
  /\ gate' = [gate EXCEPT ![r] = IF @ = "none" THEN @ ELSE "closed"]
  /\ cancelled' = cancelled \ {r}
  /\ terminals' = [terminals EXCEPT ![r] = IF r \in cancelled THEN @ + 1 ELSE @]
  /\ UNCHANGED <<inbox, sent, line, capacity, wakes, input, claim, argGate, peer>>

PoolsChanged ==
  /\ Turn /\ changed
  /\ changed' = FALSE
  /\ UNCHANGED <<inbox, sent, line, pools, changes, owed, input, handler, ends, done, gates>>

\* The select took a frame of request r.
Takes(r, type) ==
  /\ Turn /\ inbox # <<>> /\ Head(inbox) = [type |-> type, req |-> r]
  /\ inbox' = Tail(inbox)
  /\ UNCHANGED <<sent, wakes, done>>

\* Its channel is there at once; a handler only when its chain has room.
TakeReq(r) ==
  /\ Takes(r, "REQ")
  /\ input' = [input EXCEPT ![r] = "open"]
  /\ ticket' = [ticket EXCEPT ![r] = tickets] /\ tickets' = tickets + 1
  /\ \/ GoesAtOnce(r) /\ Spawn(r) /\ UNCHANGED queued
     \/ ~GoesAtOnce(r) /\ queued' = queued \cup {r} /\ UNCHANGED <<active, handler>>
  /\ UNCHANGED <<capacity, ends, gates>>

TakeEnd(r) ==
  /\ Takes(r, "END")
  /\ input' = [input EXCEPT ![r] = IF @ = "open" THEN "ended" ELSE @]
  /\ UNCHANGED <<line, pools, handler, ends, gates>>

\* Its sender is dropped: what the handler has not read yet ends in an error.
CutInput(r) == input' = [input EXCEPT ![r] = IF @ = "open" THEN "cut" ELSE @]

\* MUTANT: leaving the line gives slots back that were never taken.
CancelQueued_Gives(r) ==
  /\ Takes(r, "CANCEL") /\ r \in queued
  /\ queued' = queued \ {r}
  /\ CutInput(r) /\ Give(r)
  /\ terminals' = [terminals EXCEPT ![r] = @ + 1]
  /\ UNCHANGED <<ticket, tickets, capacity, handler, claim, cancelled, gates>>

\* In line: it leaves the line, and its ERR goes out at once.
CancelQueued(r) ==
  /\ Takes(r, "CANCEL") /\ r \in queued
  /\ queued' = queued \ {r}
  /\ CutInput(r)
  /\ terminals' = [terminals EXCEPT ![r] = @ + 1]
  /\ UNCHANGED <<ticket, tickets, pools, handler, claim, cancelled, gates>>

\* active_handlers has a request until it is reaped.
Active(r) == handler[r] \notin {"none", "reaped"}

\* MUTANT: the handler loses its terminal, and no ERR is due instead.
CancelRunning_Forgets(r) ==
  /\ Takes(r, "CANCEL") /\ Active(r) /\ claim[r] = "open"
  /\ claim' = [claim EXCEPT ![r] = "cancel"]
  /\ CutInput(r)
  /\ gate' = [gate EXCEPT ![r] = IF @ = "none" THEN @ ELSE "closed"]
  /\ peer' = [peer EXCEPT ![r] = IF @ = "pending" THEN "cut" ELSE @]
  /\ UNCHANGED <<line, pools, handler, cancelled, terminals, argGate>>

\* With a handler: claim the terminal, cut the input, release the writers, and
\* cut the peer calls that are pending now.
CancelRunning(r) ==
  /\ Takes(r, "CANCEL") /\ Active(r) /\ claim[r] = "open"
  /\ claim' = [claim EXCEPT ![r] = "cancel"]
  /\ cancelled' = cancelled \cup {r}
  /\ CutInput(r)
  /\ gate' = [gate EXCEPT ![r] = IF @ = "none" THEN @ ELSE "closed"]
  /\ peer' = [peer EXCEPT ![r] = IF @ = "pending" THEN "cut" ELSE @]
  /\ UNCHANGED <<line, pools, handler, terminals, argGate>>

\* Ended by its handler already, or unknown: nothing.
CancelIgnored(r) ==
  /\ Takes(r, "CANCEL") /\ r \notin queued /\ (Active(r) => claim[r] # "open")
  /\ UNCHANGED <<line, pools, input, handler, ends, gates>>

TakeCredit(r) ==
  /\ Takes(r, "CREDIT")
  /\ gate' = [gate EXCEPT ![r] = IF @ = "open" THEN "granted" ELSE @]
  /\ UNCHANGED <<line, pools, input, handler, ends, argGate, peer>>

TakePeerCredit(r) ==
  /\ Takes(r, "PEER_CREDIT")
  /\ argGate' = [argGate EXCEPT ![r] = IF @ = "open" THEN "granted" ELSE @]
  /\ UNCHANGED <<line, pools, input, handler, ends, gate, peer>>

TakePeerEnd(r) ==
  /\ Takes(r, "PEER_END")
  /\ peer' = [peer EXCEPT ![r] = IF @ = "pending" THEN "answered" ELSE @]
  /\ UNCHANGED <<line, pools, input, handler, ends, gate, argGate>>

\* Answered by the reader already; it is passed on to make the loop turn.
TakeHeartbeat ==
  /\ Turn /\ inbox # <<>> /\ Head(inbox) = Heartbeat
  /\ inbox' = Tail(inbox)
  /\ UNCHANGED <<sent, line, pools, wakes, input, handler, ends, done, gates>>

LoopStep ==
  \/ Drained \/ PoolsChanged \/ TakeHeartbeat
  \/ \E r \in Requests :
       \/ AdmitNext(r) \/ Reap(r)
       \/ TakeReq(r) \/ TakeEnd(r) \/ CancelQueued(r) \/ CancelRunning(r) \/ CancelIgnored(r)
       \/ TakeCredit(r) \/ TakePeerCredit(r) \/ TakePeerEnd(r)

-----------------------------------------------------------------------------
(* The handler of request r *)

At(r, from, to) == handler[r] = from /\ handler' = [handler EXCEPT ![r] = to]

AfterCall(r) == IF r \in Writers THEN "starting" ELSE "left"

\* All of the input, or the error of a cut one.
Read(r) ==
  /\ \/ /\ input[r] = "ended"
        /\ At(r, "reading", IF r \in Callers THEN "calling" ELSE AfterCall(r))
     \/ input[r] = "cut" /\ At(r, "reading", "left")
  /\ UNCHANGED <<inbox, sent, loop, line, pools, wakes, input, ends, done, gates>>

\* The op fails, or is content with less than its input.
Fail(r) ==
  /\ At(r, "reading", "left")
  /\ UNCHANGED <<inbox, sent, loop, line, pools, wakes, input, ends, done, gates>>

\* PeerInvokerImpl::call registers the call, and then sends its REQ.
Register(r) ==
  /\ handler[r] = "calling" /\ peer[r] = "none"
  /\ peer' = [peer EXCEPT ![r] = "pending"]
  /\ UNCHANGED <<inbox, sent, loop, line, pools, wakes, input, handler, ends, done, gate, argGate>>

Call(r) ==
  /\ peer[r] # "none"
  /\ At(r, "calling", IF r \in BigArgs THEN "arg" ELSE "response")
  /\ argGate' = [argGate EXCEPT ![r] = IF r \in BigArgs THEN "open" ELSE @]
  /\ UNCHANGED <<inbox, sent, loop, line, pools, wakes, input, ends, done, gate, peer>>

WriteArg(r) ==
  /\ argGate[r] = "granted" /\ At(r, "arg", "response")
  /\ UNCHANGED <<inbox, sent, loop, line, pools, wakes, input, ends, done, gates>>

Respond(r) ==
  /\ \/ peer[r] = "answered" /\ At(r, "response", AfterCall(r))
     \/ peer[r] # "pending" /\ At(r, "response", "left")
  /\ UNCHANGED <<inbox, sent, loop, line, pools, wakes, input, ends, done, gates>>

\* The output's gate is registered when the stream starts.
StartOutput(r) ==
  /\ At(r, "starting", "writing")
  /\ gate' = [gate EXCEPT ![r] = "open"]
  /\ UNCHANGED <<inbox, sent, loop, line, pools, wakes, input, ends, done, argGate, peer>>

Write(r) ==
  /\ gate[r] # "open" /\ At(r, "writing", "left")
  /\ UNCHANGED <<inbox, sent, loop, line, pools, wakes, input, ends, done, gates>>

\* MUTANT: the handler ends its request without claiming it.
ClaimEnd_Unclaimed(r) ==
  /\ At(r, "left", "claimed")
  /\ UNCHANGED <<inbox, sent, loop, line, pools, wakes, input, ends, done, gates>>

\* dispatch_op returned. Whoever claims the request first sends its terminal.
ClaimEnd(r) ==
  /\ claim[r] = "open" /\ At(r, "left", "claimed")
  /\ claim' = [claim EXCEPT ![r] = "handler"]
  /\ UNCHANGED <<inbox, sent, loop, line, pools, wakes, input, cancelled, done, terminals, gates>>

End(r) ==
  /\ At(r, "claimed", "exited")
  /\ terminals' = [terminals EXCEPT ![r] = @ + 1]
  /\ done' = done \cup {r}
  /\ UNCHANGED <<inbox, sent, loop, line, pools, wakes, input, claim, cancelled, gates>>

\* MUTANT: a handler that has nothing to send returns without its report.
LeaveCancelled_Silent(r) ==
  /\ claim[r] = "cancel" /\ At(r, "left", "exited")
  /\ UNCHANGED <<inbox, sent, loop, line, pools, wakes, input, ends, done, gates>>

LeaveCancelled(r) ==
  /\ claim[r] = "cancel" /\ At(r, "left", "exited")
  /\ done' = done \cup {r}
  /\ UNCHANGED <<inbox, sent, loop, line, pools, wakes, input, ends, gates>>

HandlerStep(r) == \/ Read(r) \/ Register(r) \/ Call(r) \/ WriteArg(r) \/ Respond(r)
                  \/ StartOutput(r) \/ Write(r) \/ ClaimEnd(r) \/ End(r) \/ LeaveCancelled(r)

-----------------------------------------------------------------------------
Next ==
  \/ LoopStep \/ PassHeartbeat \/ NotifyOne
  \/ \E r \in Requests :
       \/ HandlerStep(r) \/ Fail(r)
       \/ SendReq(r) \/ SendEnd(r) \/ SendCancel(r) \/ SendCredit(r)
       \/ PeerGrants(r) \/ PeerEnds(r)
  \/ \E p \in Pools, n \in Capacities : Probe(p, n) \/ SetAvailable(p, n)

Spec == Init /\ [][Next]_vars

\* The loop, the reader and the handlers are tasks and threads that run. The
\* host ends the input of what it sent; the outputs and arguments of a request
\* that is not cancelled are read, and a callee ends.
Fairness ==
  /\ WF_vars(LoopStep) /\ WF_vars(PassHeartbeat) /\ WF_vars(NotifyOne)
  /\ \A r \in Requests :
       /\ WF_vars(HandlerStep(r))
       /\ WF_vars(SendEnd(r)) /\ WF_vars(PeerEnds(r))
       /\ WF_vars("CANCEL" \notin sent[r] /\ (SendCredit(r) \/ PeerGrants(r)))

FairSpec == Spec /\ Fairness

-----------------------------------------------------------------------------
(* Properties *)

\* A request has one terminal: its handler's END and the ERR of a cancel are
\* never both sent, however the cancel, the handler's end and its report
\* interleave (cartridge_runtime.rs:5251-5258).
OneTerminal == \A r \in Requests : terminals[r] <= 1

\* A request the loop took is in line, or a handler has it, or it was answered:
\* whoever drops it from the line or reaps its handler has seen to its terminal.
Accounted ==
  \A r \in Requests : input[r] # "none" =>
    \/ r \in queued /\ handler[r] = "none"
    \/ r \notin queued /\ Active(r)
    \/ r \notin queued /\ ~Active(r) /\ terminals[r] = 1

\* A pool counts the handlers that are not reaped, no more and no fewer.
SlotsMatchHandlers ==
  \A p \in Pools : active[p] = Cardinality({r \in Requests : Active(r) /\ p \in Chain[r]})

\* The loop never sleeps on a request that could go: whoever makes room while
\* it waits is about to wake it (cartridge_runtime.rs:5025-5026, 7082-7087).
NoLostTurn ==
  (loop = "selecting" /\ \E r \in queued : HasRoom(r)) =>
    \/ changed \/ owed # {}
    \/ \E i \in DOMAIN inbox : inbox[i] = Heartbeat

\* A handler starts only when no older request in line could have: not even one
\* that arrives between a raised limit and the loop's next look at the line
\* ("global FIFO across caps", cartridge_runtime.rs:6584-6585).
NotOvertaken ==
  [][\A r, q \in Requests :
       (handler[r] = "none" /\ handler'[r] # "none" /\ q \in queued /\ HasRoom(q)) =>
         r \in queued /\ ticket[r] <= ticket[q]]_vars

\* A limit lowered under the handlers that run stops new ones until enough are
\* reaped: none starts beyond a capacity of its chain.
WithinCapacity ==
  [][\A r \in Requests : (handler[r] = "none" /\ handler'[r] # "none") =>
       \A p \in Chain[r] : capacity[p] = 0 \/ active'[p] <= capacity[p]]_vars

\* Blocked at a gate that nobody opens or closes any more: an output started
\* after the cancel, or the argument of a peer call that is over or cancelled.
Stranded(r) == \/ handler[r] = "writing" /\ gate[r] = "open" /\ claim[r] = "cancel"
               \/ handler[r] = "arg" /\ argGate[r] = "open" /\ peer[r] # "pending"

\* Every request the host sent ends with its terminal, except a stranded one
\* and those that wait behind it for a slot.
RequestEnds ==
  \A r \in Requests : "REQ" \in sent[r] ~> terminals[r] = 1 \/ \E q \in Requests : Stranded(q)

\* A cancelled handler leaves, whatever it waits for: the loop closes what it
\* could block on, as "a cancelled producer must not hang on credit"
\* (cartridge_runtime.rs:7036-7037).  (Not so of a stranded one.)
CancelEnds == \A r \in Requests : r \in cancelled ~> r \notin cancelled
=============================================================================
