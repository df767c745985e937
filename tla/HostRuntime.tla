---------------------------- MODULE HostRuntime ----------------------------
(* A host of cartridge processes (host_runtime.rs): one loop that routes the  *)
(* relay's frames to cartridges and theirs to the relay, spawns a cartridge   *)
(* for its first request, answers for the ones that die, probes them, and     *)
(* follows a roster of installs that other processes change.                  *)
(*                                                                            *)
(* Of a request's frames the model keeps the REQ, the terminal that ends its  *)
(* body, the terminal that ends its response, and a cancel: those that change *)
(* the host's routing. A peer request is made by the cartridge that serves    *)
(* its parent; the switch (external) gives it back to this host or to another *)
(* one that serves it.                                                        *)
EXTENDS Naturals, FiniteSets, Sequences

CONSTANTS
  Installs,    \* identities of installed cartridges
  NoInstall,   \* the identity of a slot nobody is registered in
  Calls,       \* requests of the engine
  Peers,       \* requests made by a cartridge of this host
  Local,       \* the peer requests that the switch may give back to this host
  Away,        \* the peer requests that it may give to another host
  Parent,      \* the call whose handler makes a peer request
  FirstRoster, \* the installs registered at the start, in order
  Wants,       \* the install whose cap a call or local peer request asks for
  MaxSlots,    \* bound: cartridges ever registered
  MaxSyncs,    \* bound: rosters that arrive
  MaxFaults,   \* bound: processes that crash, hang, are slow or are killed from outside
  Frail,       \* bound: the slots whose processes do
  Cancels,     \* bound: the calls that may be cancelled, each once
  Kinds,       \* the cancels that come: "CANCEL", or "KILL" with force_kill
  LateDeath,   \* whether a writer may fail before the death of its process is handled
  EarlyReply   \* whether a local peer request may be answered before its body ends

Slots == 1..MaxSlots
Served == Calls \cup Local
Requests == Calls \cup Peers

ASSUME InstallsType == IsFiniteSet(Installs) /\ NoInstall \notin Installs
ASSUME RequestsType == IsFiniteSet(Calls) /\ IsFiniteSet(Peers) /\ Calls \cap Peers = {}
ASSUME LocalType == Peers = Local \cup Away
ASSUME ParentType == Parent \in [Peers -> Calls]
ASSUME WantsType == Wants \in [Served -> Installs]
ASSUME FirstRosterType ==
  \E n \in 0..MaxSlots : FirstRoster \in [1..n -> Installs]
                           /\ \A c, d \in 1..n : FirstRoster[c] = FirstRoster[d] => c = d
ASSUME BoundsType == MaxSlots \in Nat /\ MaxSyncs \in Nat /\ MaxFaults \in Nat
ASSUME FrailType == Frail \subseteq Slots
ASSUME CancelsType == Cancels \subseteq Calls /\ Kinds \subseteq {"CANCEL", "KILL"}
ASSUME SwitchesType == LateDeath \in BOOLEAN /\ EarlyReply \in BOOLEAN

VARIABLES
  up,          \* the loop runs
  cart,        \* the host's record of a cartridge, by slot
  proc,        \* its process
  capTable,    \* the slots whose caps are on offer
  incoming,    \* incoming_rxids: who serves a request, 0 for no entry
  outgoing,    \* outgoing_rids: who made a peer request
  bodyDone,    \* incoming_body_done
  responseDone,\* incoming_response_done
  links,       \* incoming_to_peer_rids
  relayIn,     \* frames of the relay, in order
  events,      \* frames and deaths of the cartridges, in order
  requested,   \* what the switch knows of a request: nothing, live here, away, over
  bodySent,    \* requests whose body was ended by who makes them
  answers,     \* terminals that went to the relay for a request
  roster,      \* the installs wanted by the last sync
  syncs, faults, cancelled  \* what came from outside so far

tables == <<incoming, outgoing, bodyDone, responseDone, links>>
switch == <<requested, bodySent, answers>>
outside == <<syncs, faults, cancelled>>
vars == <<up, cart, proc, capTable, tables, relayIn, events, switch, roster, outside>>

Frame(kind, r) == [kind |-> kind, req |-> r]
Event(c, frame) == [slot |-> c, generation |-> cart[c].generation, frame |-> frame]
Death == Frame("DEATH", 0)
\* What the host and its cartridges are given, and what cartridges say.
Frames == [kind : {"REQ", "CANCEL", "KILL"}, req : Served] \cup
          [kind : {"BODY", "RESPONSE"}, req : Requests]
Sayings == [kind : {"REQ", "BODY"}, req : Peers] \cup [kind : {"RESPONSE"}, req : Served]
           \cup {Death}

\* A cartridge as it is registered, and a process before it is spawned.
Registered(i) ==
  [install |-> i, running |-> FALSE, generation |-> 0, removed |-> FALSE,
   retiring |-> "no", reason |-> "none", late |-> FALSE, writer |-> "open"]
NoProcess ==
  [state |-> "none", pipe |-> <<>>, taken |-> {}, ended |-> {}, told |-> {}, asked |-> {}]
NewProcess == [NoProcess EXCEPT !.state = "up"]

Alive(c) == proc[c].state = "up"
\* A process that is no more: what it held is gone, its pipes are closed.
Killed(process) ==
  [process EXCEPT !.state = "dead", !.taken = {}, !.ended = {}, !.told = {}, !.asked = {}]
\* update_cap_table
Usable(carts) == {c \in Slots : carts[c].install # NoInstall /\ ~carts[c].removed}
Entries(c) == {r \in Served : incoming[r] = c}
Asked(c) == {p \in Peers : outgoing[p] = c}
\* in_flight_count is zero
Drained(c) == Entries(c) = {} /\ Asked(c) = {}

\* The ways to put a set of frames into the relay's stream, one after another.
Orders(S) == {s \in [1..Cardinality(S) -> S] : \A x \in S : \E k \in DOMAIN s : s[k] = x}

Init ==
  /\ up = TRUE
  /\ roster = {FirstRoster[c] : c \in DOMAIN FirstRoster}
  /\ cart = [c \in Slots |-> Registered(IF c \in DOMAIN FirstRoster THEN FirstRoster[c]
                                         ELSE NoInstall)]
  /\ capTable = DOMAIN FirstRoster
  /\ proc = [c \in Slots |-> NoProcess]
  /\ incoming = [r \in Served |-> 0] /\ outgoing = [p \in Peers |-> 0]
  /\ bodyDone = {} /\ responseDone = {} /\ links = {}
  /\ relayIn = <<>> /\ events = <<>>
  /\ requested = [r \in Requests |-> "no"] /\ bodySent = {}
  /\ answers = [r \in Requests |-> 0]
  /\ syncs = 0 /\ faults = 0 /\ cancelled = {}

------------------------------------------------------------------------------
(* The switch and the engine: what they do with what the host sends is part   *)
(* of the sending, since the relay keeps the order. The switch drops what     *)
(* comes for a request that is over.                                          *)
Live(R) == {r \in R : requested[r] = "live"}
\* Terminals with a routing id go to the relay for R, and R is over; the
\* response of a peer request goes back to who made it.
Back(R) == {Frame("RESPONSE", p) : p \in Live(R) \cap Peers}
\* A body's terminal goes to the relay for the peer requests B.
Forth(B) == {Frame("BODY", p) : p \in Live(B)}
Answer(R) ==
  /\ answers' = [r \in Requests |-> IF r \in R THEN answers[r] + 1 ELSE answers[r]]
  /\ requested' = [r \in Requests |-> IF r \in Live(R) THEN "over" ELSE requested[r]]
SayNothing == UNCHANGED <<answers, requested>>

\* The engine makes a request, ends its body, cancels it.
EngineRequest(r) ==
  /\ up /\ r \in Calls /\ requested[r] = "no"
  /\ requested' = [requested EXCEPT ![r] = "live"]
  /\ relayIn' = Append(relayIn, Frame("REQ", r))
  /\ UNCHANGED <<up, cart, proc, capTable, tables, events, bodySent, answers, roster, outside>>

EngineBody(r) ==
  /\ up /\ r \in Calls \ bodySent /\ requested[r] = "live"
  /\ bodySent' = bodySent \cup {r}
  /\ relayIn' = Append(relayIn, Frame("BODY", r))
  /\ UNCHANGED <<up, cart, proc, capTable, tables, events, requested, answers, roster, outside>>

EngineCancel(r, kind) ==
  /\ up /\ r \in Cancels \ cancelled /\ requested[r] = "live"
  /\ cancelled' = cancelled \cup {r}
  /\ relayIn' = Append(relayIn, Frame(kind, r))
  /\ UNCHANGED <<up, cart, proc, capTable, tables, events, switch, roster, syncs, faults>>

\* A cartridge of another host answers a peer request.
RemoteAnswers(p) ==
  /\ up /\ p \in Peers /\ requested[p] = "away"
  /\ requested' = [requested EXCEPT ![p] = "over"]
  /\ relayIn' = Append(relayIn, Frame("RESPONSE", p))
  /\ UNCHANGED <<up, cart, proc, capTable, tables, events, bodySent, answers, roster, outside>>

------------------------------------------------------------------------------
(* Cartridge processes.                                                       *)
MayFail(c) == c \in Frail /\ faults < MaxFaults
Says(c, frame) == events' = Append(events, Event(c, frame))

\* A process takes the next frame of its standard input.
TakeFrame(c) ==
  /\ up /\ Alive(c) /\ proc[c].pipe # <<>>
  /\ LET frame == Head(proc[c].pipe)
         r == frame.req
         rest == [proc[c] EXCEPT !.pipe = Tail(@)]
     IN proc' = [proc EXCEPT ![c] =
          CASE frame.kind = "REQ" -> [rest EXCEPT !.taken = @ \cup {r}]
            [] frame.kind = "CANCEL" -> [rest EXCEPT !.told = @ \cup ({r} \cap rest.taken)]
            [] OTHER -> IF r \in rest.taken THEN [rest EXCEPT !.ended = @ \cup {r}]
                        ELSE [rest EXCEPT !.asked = @ \ {r}]]
  /\ UNCHANGED <<up, cart, capTable, tables, relayIn, events, switch, roster, outside>>

\* The handler of a call makes a peer request, and ends its argument.
MakePeer(c, p) ==
  /\ up /\ Alive(c) /\ Parent[p] \in proc[c].taken
  /\ requested[p] = "no" /\ \A d \in Slots : p \notin proc[d].asked
  /\ ~\E k \in DOMAIN events : events[k].frame = Frame("REQ", p)
  /\ proc' = [proc EXCEPT ![c].asked = @ \cup {p}]
  /\ Says(c, Frame("REQ", p))
  /\ UNCHANGED <<up, cart, capTable, tables, relayIn, switch, roster, outside>>

EndArgument(c, p) ==
  /\ up /\ Alive(c) /\ p \in proc[c].asked \ bodySent
  /\ bodySent' = bodySent \cup {p}
  /\ Says(c, Frame("BODY", p))
  /\ UNCHANGED <<up, cart, proc, capTable, tables, relayIn, requested, answers, roster, outside>>

\* A handler ends its response: once its peer requests are answered, unless it
\* was cancelled.
Children(c, r) == {p \in proc[c].asked : Parent[p] = r}
Respond(c, r) ==
  /\ up /\ Alive(c) /\ r \in proc[c].taken
  /\ r \in proc[c].told \/ Children(c, r) = {}
  /\ r \in Calls \/ r \in proc[c].ended \/ r \in proc[c].told \/ EarlyReply
  /\ proc' = [proc EXCEPT ![c].taken = @ \ {r}, ![c].ended = @ \ {r}, ![c].told = @ \ {r},
                          ![c].asked = @ \ Children(c, r)]
  /\ Says(c, Frame("RESPONSE", r))
  /\ UNCHANGED <<up, cart, capTable, tables, relayIn, switch, roster, outside>>

\* A process crashes.  One that lives on but closes its output, or breaks the
\* protocol on it, is this to the host: it is not heard again, what it is given
\* is lost, and its death is handled (which kills it).
Crash(c) ==
  /\ up /\ Alive(c) /\ MayFail(c)
  /\ faults' = faults + 1
  /\ proc' = [proc EXCEPT ![c] = Killed(@)]
  /\ UNCHANGED <<up, cart, capTable, tables, relayIn, events, switch, roster, syncs, cancelled>>

\* It stops doing anything.
Hang(c) ==
  /\ up /\ Alive(c) /\ MayFail(c)
  /\ faults' = faults + 1
  /\ proc' = [proc EXCEPT ![c].state = "hung"]
  /\ UNCHANGED <<up, cart, capTable, tables, relayIn, events, switch, roster, syncs, cancelled>>

\* The reader task meets the end of the output, or cannot decode it.
ReaderEof(c) ==
  /\ up /\ proc[c].state = "dead"
  /\ proc' = [proc EXCEPT ![c].state = "read"]
  /\ Says(c, Death)
  /\ UNCHANGED <<up, cart, capTable, tables, relayIn, switch, roster, outside>>

\* The writer task fails on a frame for a process that is no more, and ends.  (If
\* one fails on a live process it closes its input, on which a cartridge ends:
\* what it still says is taken to be said before, and it to be no more.)
WriterFails(c) ==
  /\ up /\ LateDeath /\ proc[c].state \in {"dead", "read"} /\ proc[c].pipe # <<>>
  /\ proc' = [proc EXCEPT ![c].pipe = <<>>]
  /\ cart' = [cart EXCEPT ![c].writer = "gone"]
  /\ UNCHANGED <<up, capTable, tables, relayIn, events, switch, roster, outside>>

------------------------------------------------------------------------------
(* The loop of run(): the relay's frames.                                     *)
Takes(kinds) == up /\ relayIn # <<>> /\ Head(relayIn).kind \in kinds
CanSend(c) == cart[c].running /\ cart[c].writer = "open"
Give(processes, c, frame) == [processes EXCEPT ![c].pipe = Append(@, frame)]

\* An error out of a handler ends run(), which kills every cartridge.
Stop ==
  /\ up' = FALSE
  /\ proc' = [c \in Slots |-> NoProcess]
  /\ cart' = [c \in Slots |-> [cart[c] EXCEPT !.running = FALSE, !.reason = "none",
                                             !.late = FALSE, !.writer = "open"]]
  /\ relayIn' = <<>> /\ events' = <<>>
  /\ UNCHANGED <<capTable, tables, switch, roster, outside>>

\* find_cartridge_for_cap: the first slot that offers the cap.
Offering(i) == {c \in capTable : cart[c].install = i}
First(S) == CHOOSE c \in S : \A d \in S : c =< d

NoHandler ==
  /\ Takes({"REQ"}) /\ Offering(Wants[Head(relayIn).req]) = {}
  /\ LET r == Head(relayIn).req IN
       /\ Answer({r})
       /\ \E s \in Orders(Back({r})) : relayIn' = Tail(relayIn) \o s
  /\ UNCHANGED <<up, cart, proc, capTable, tables, events, bodySent, roster, outside>>

\* spawn_cartridge, for the first request since the slot's process is gone.
Spawned(c) ==
  IF cart[c].running THEN cart
  ELSE [cart EXCEPT ![c].running = TRUE, ![c].generation = @ + 1]

Serve ==
  /\ Takes({"REQ"})
  /\ LET r == Head(relayIn).req
         candidates == Offering(Wants[r])
         c == First(candidates)
         process == IF cart[c].running THEN proc ELSE [proc EXCEPT ![c] = NewProcess]
     IN /\ candidates # {}
        /\ cart[c].running => CanSend(c)
        /\ cart' = Spawned(c)
        /\ incoming' = [incoming EXCEPT ![r] = c]
        /\ proc' = Give(process, c, Head(relayIn))
  /\ relayIn' = Tail(relayIn)
  /\ UNCHANGED <<up, capTable, outgoing, bodyDone, responseDone, links, events, switch,
                 roster, outside>>

\* The cartridge cannot be spawned, or its writer has ended and its death is
\* still queued: the error leaves run().
ServeFails ==
  /\ Takes({"REQ"})
  /\ LET candidates == Offering(Wants[Head(relayIn).req])
         c == First(candidates)
     IN /\ candidates # {}
        /\ IF cart[c].running THEN ~CanSend(c) ELSE MayFail(c)
  /\ Stop

\* Where a terminal goes: while the body flows to who serves the request,
\* afterwards to who made it.
Server(r) == IF r \in Served THEN incoming[r] ELSE 0
Maker(r) == IF r \in Peers THEN outgoing[r] ELSE 0
BodyFlows(r) == r \notin bodyDone
ToServer(r) == Server(r) # 0 /\ (BodyFlows(r) \/ Maker(r) = 0)
ToMaker(r) == ~ToServer(r) /\ Maker(r) # 0
Terminal(r) == Takes({"BODY", "RESPONSE"}) /\ Head(relayIn).req = r

Unrouted(r) ==
  /\ Terminal(r) /\ ~ToServer(r) /\ ~ToMaker(r)
  /\ relayIn' = Tail(relayIn)
  /\ UNCHANGED <<up, cart, proc, capTable, tables, events, switch, roster, outside>>

Deliver(r) ==
  LET c == IF ToServer(r) THEN Server(r) ELSE Maker(r) IN
  /\ Terminal(r) /\ (ToServer(r) \/ ToMaker(r))
  /\ CanSend(c)
  /\ proc' = Give(proc, c, Head(relayIn))
  /\ relayIn' = Tail(relayIn)
  /\ IF ToServer(r)
     THEN /\ IF r \in responseDone
             THEN /\ incoming' = [incoming EXCEPT ![r] = 0]
                  /\ responseDone' = responseDone \ {r}
                  /\ UNCHANGED bodyDone
             ELSE /\ bodyDone' = bodyDone \cup {r}
                  /\ UNCHANGED <<incoming, responseDone>>
          /\ UNCHANGED outgoing
     ELSE /\ outgoing' = [outgoing EXCEPT ![r] = 0]
          /\ UNCHANGED <<incoming, bodyDone, responseDone>>
  /\ UNCHANGED <<up, cart, capTable, links, events, switch, roster, outside>>

\* The writer of the cartridge has ended: the host answers in its place.
Undeliverable(r) ==
  /\ Terminal(r)
  /\ \/ ToServer(r) /\ ~CanSend(Server(r))
     \/ ToMaker(r) /\ ~CanSend(Maker(r))
  /\ Answer({r})
  /\ \E s \in Orders(Back({r})) : relayIn' = Tail(relayIn) \o s
  /\ incoming' = [q \in Served |-> IF q = r THEN 0 ELSE incoming[q]]
  /\ outgoing' = [p \in Peers |-> IF p = r THEN 0 ELSE outgoing[p]]
  /\ bodyDone' = bodyDone \ {r} /\ responseDone' = responseDone \ {r}
  /\ UNCHANGED <<up, cart, proc, capTable, links, events, bodySent, roster, outside>>

\* A cancel is handed to the cartridge, and cascades to the peer requests that
\* the cartridge made for the request, as far as they are served here.
Cascade(r) == {Frame("CANCEL", p) : p \in {q \in Live(Peers) : <<r, q>> \in links}}
CancelRequest ==
  /\ Takes({"CANCEL"})
  /\ LET r == Head(relayIn).req
         c == incoming[r]
     IN IF c = 0
        THEN relayIn' = Tail(relayIn) /\ UNCHANGED proc
        ELSE /\ \E s \in Orders(Cascade(r)) : relayIn' = Tail(relayIn) \o s
             /\ proc' = IF CanSend(c) THEN Give(proc, c, Head(relayIn)) ELSE proc
  /\ UNCHANGED <<up, cart, capTable, tables, events, switch, roster, outside>>

\* A cancel with force_kill kills the process that serves the request.
Kill(processes, c) ==
  IF processes[c].state \in {"up", "hung"}
  THEN [processes EXCEPT ![c] = Killed(@)] ELSE processes
ForceKill ==
  /\ Takes({"KILL"})
  /\ LET c == incoming[Head(relayIn).req] IN
       IF c = 0 THEN UNCHANGED <<cart, proc>>
       ELSE /\ cart' = [cart EXCEPT ![c].reason = "cancelled"]
            /\ proc' = Kill(proc, c)
  /\ relayIn' = Tail(relayIn)
  /\ UNCHANGED <<up, capTable, tables, events, switch, roster, outside>>

------------------------------------------------------------------------------
(* The loop of run(): the cartridges' events. One of an earlier process of    *)
(* the slot is passed over.                                                   *)
\* MUTANT: events are taken whatever process they are of.
Current_Any == TRUE
Current == Head(events).generation = cart[Head(events).slot].generation
Hears(kind) == up /\ events # <<>> /\ Head(events).frame.kind = kind /\ Current

OldEvent ==
  /\ up /\ events # <<>> /\ ~Current
  /\ events' = Tail(events)
  /\ UNCHANGED <<up, cart, proc, capTable, tables, relayIn, switch, roster, outside>>

\* A cartridge makes a peer request: it is recorded, linked to its parent when
\* that is still served here, and given to the switch.
HearRequest ==
  /\ Hears("REQ")
  /\ LET p == Head(events).frame.req IN
       /\ outgoing' = [outgoing EXCEPT ![p] = Head(events).slot]
       /\ links' = IF incoming[Parent[p]] # 0 THEN links \cup {<<Parent[p], p>>} ELSE links
       /\ \/ /\ p \in Local
             /\ requested' = [requested EXCEPT ![p] = "live"]
             /\ relayIn' = Append(relayIn, Head(events).frame)
          \/ /\ p \in Away
             /\ requested' = [requested EXCEPT ![p] = "away"]
             /\ UNCHANGED relayIn
  /\ events' = Tail(events)
  /\ UNCHANGED <<up, cart, proc, capTable, incoming, bodyDone, responseDone, bodySent, answers,
                 roster, outside>>

\* The argument of a peer request ends.
HearBody ==
  /\ Hears("BODY")
  /\ \E s \in Orders(Forth({Head(events).frame.req})) : relayIn' = relayIn \o s
  /\ events' = Tail(events)
  /\ UNCHANGED <<up, cart, proc, capTable, tables, switch, roster, outside>>

\* MUTANT: the mark is removed and the entry is not.
Release_Unmarked(r) == bodyDone' = bodyDone \ {r} /\ UNCHANGED <<incoming, responseDone>>
\* A response ends: the entry goes with the later of the two terminals.
Release(r) ==
  IF r \in bodyDone
  THEN /\ bodyDone' = bodyDone \ {r}
       /\ incoming' = [incoming EXCEPT ![r] = 0]
       /\ UNCHANGED responseDone
  ELSE /\ responseDone' = IF incoming[r] # 0 THEN responseDone \cup {r} ELSE responseDone
       /\ UNCHANGED <<incoming, bodyDone>>
HearResponse ==
  /\ Hears("RESPONSE")
  /\ LET r == Head(events).frame.req IN
       /\ Release(r)
       /\ Answer({r})
       /\ \E s \in Orders(Back({r})) : relayIn' = relayIn \o s
  /\ events' = Tail(events)
  /\ UNCHANGED <<up, cart, proc, capTable, outgoing, links, bodySent, roster, outside>>

\* handle_cartridge_death, for the slots D: the processes are done away with,
\* and every request they served or made gets an ERR.
\* MUTANT: the reason of a death stays for the next one.
Buried_Reason(carts, D) ==
  [c \in Slots |-> IF c \in D
     THEN [carts[c] EXCEPT !.running = FALSE, !.generation = @ + 1, !.late = FALSE,
                           !.writer = "open"]
     ELSE carts[c]]
Buried(carts, D) ==
  [c \in Slots |-> IF c \in D
     THEN [carts[c] EXCEPT !.running = FALSE, !.generation = @ + 1, !.reason = "none",
                           !.late = FALSE, !.writer = "open"]
     ELSE carts[c]]
\* MUTANT: a request given in full is not looked for.
Lost_Given(D) == UNION {Entries(c) : c \in D} \ bodyDone
Lost(D) == UNION {Entries(c) : c \in D}
\* MUTANT: what the dead have asked for goes on.
Orphaned_Never(D) == {}
Orphaned(D) == UNION {Asked(c) : c \in D}
Bury(carts, D) ==
  /\ cart' = Buried(carts, D)
  /\ proc' = [c \in Slots |-> IF c \in D THEN NoProcess ELSE proc[c]]
  /\ incoming' = [r \in Served |-> IF r \in Lost(D) THEN 0 ELSE incoming[r]]
  /\ outgoing' = [p \in Peers |-> IF p \in Orphaned(D) THEN 0 ELSE outgoing[p]]
  /\ bodyDone' = bodyDone \ Lost(D) /\ responseDone' = responseDone \ Lost(D)
  /\ links' = {l \in links : l[1] \notin Lost(D)}
  /\ Answer(Lost(D))
  /\ \E s \in Orders(Forth(Orphaned(D))), t \in Orders(Back(Lost(D))) : relayIn' = relayIn \o s \o t
  /\ capTable' = Usable(carts)

HearDeath ==
  /\ Hears("DEATH")
  /\ Bury(cart, {Head(events).slot})
  /\ events' = Tail(events)
  /\ UNCHANGED <<up, bodySent, roster, outside>>

------------------------------------------------------------------------------
(* The loop of run(): timers and commands.                                    *)
\* A probe is unanswered for HEARTBEAT_TIMEOUT: that of a process that hangs or
\* is no more, or that is slow and may yet answer.
ProbeLate(c) ==
  /\ up /\ cart[c].running /\ ~cart[c].late
  /\ Alive(c) => MayFail(c)
  /\ faults' = IF Alive(c) THEN faults + 1 ELSE faults
  /\ cart' = [cart EXCEPT ![c].late = TRUE]
  /\ UNCHANGED <<up, proc, capTable, tables, relayIn, events, switch, roster, syncs, cancelled>>

AnswerProbe(c) ==
  /\ up /\ Alive(c) /\ cart[c].late
  /\ cart' = [cart EXCEPT ![c].late = FALSE]
  /\ UNCHANGED <<up, proc, capTable, tables, relayIn, events, switch, roster, outside>>

\* The heartbeat tick does away with the processes whose probe is late.
Late == {c \in Slots : cart[c].running /\ cart[c].late}
HeartbeatTick ==
  /\ up /\ Late # {}
  /\ Bury(cart, Late)
  /\ UNCHANGED <<up, events, bodySent, roster, outside>>

\* The out-of-memory watchdog has a process killed.
KillCartridge(c) ==
  /\ up /\ MayFail(c)
  /\ cart[c].running /\ proc[c].state \in {"up", "hung"}
  /\ faults' = faults + 1
  /\ cart' = [cart EXCEPT ![c].reason = "oom"]
  /\ proc' = Kill(proc, c)
  /\ UNCHANGED <<up, capTable, tables, relayIn, events, switch, roster, syncs, cancelled>>

\* retire_kill, for the slots D.
RetireKill(carts, D) ==
  /\ cart' = [c \in Slots |-> IF c \in D
                THEN [carts[c] EXCEPT !.retiring = "no", !.reason = "retired"] ELSE carts[c]]
  /\ proc' = [c \in Slots |-> IF c \in D THEN Kill(proc, c)[c] ELSE proc[c]]

\* A new roster: installs that left it are retired, those idle at once and those
\* in use when they have drained; one that returns while it drains is kept; new
\* ones are registered.
Leaving(R) == {c \in Usable(cart) : cart[c].install \notin R}
Retired(R) ==
  [c \in Slots |->
    IF c \notin Leaving(R) THEN cart[c]
    ELSE [cart[c] EXCEPT !.removed = TRUE,
            !.retiring = IF cart[c].running /\ ~Drained(c) THEN "draining" ELSE @]]
\* MUTANT: the drain of an install that returned goes on.
Restored_Draining(carts, R) ==
  [c \in Slots |->
    IF carts[c].retiring # "no" /\ carts[c].install \in R
    THEN [carts[c] EXCEPT !.removed = FALSE] ELSE carts[c]]
\* MUTANT: an install that returned is kept and registered once more.
Restored_Hidden(carts, R) ==
  [c \in Slots |->
    IF carts[c].retiring # "no" /\ carts[c].install \in R
    THEN [carts[c] EXCEPT !.retiring = "no"] ELSE carts[c]]
Restored(carts, R) ==
  [c \in Slots |->
    IF carts[c].retiring # "no" /\ carts[c].install \in R
    THEN [carts[c] EXCEPT !.retiring = "no", !.removed = FALSE] ELSE carts[c]]
Taken(carts) == {c \in Slots : carts[c].install # NoInstall}
Added(carts, s) ==
  [c \in Slots |-> IF c - Cardinality(Taken(carts)) \in DOMAIN s
                   THEN Registered(s[c - Cardinality(Taken(carts))]) ELSE carts[c]]
SyncRoster(R) ==
  /\ up /\ syncs < MaxSyncs /\ R # roster
  /\ syncs' = syncs + 1
  /\ roster' = R
  /\ LET kept == Restored(Retired(R), R)
         new == R \ {kept[c].install : c \in Usable(kept)}
     IN /\ Cardinality(Taken(cart)) + Cardinality(new) =< MaxSlots
        /\ \E s \in Orders(new) :
             /\ RetireKill(Added(kept, s), {c \in Leaving(R) : cart[c].running /\ Drained(c)})
             /\ capTable' = Usable(Added(kept, s))
  /\ UNCHANGED <<up, tables, relayIn, events, switch, faults, cancelled>>

\* RETIRE_DRAIN_TIMEOUT has passed since the retirement.
DrainExpires(c) ==
  /\ up /\ cart[c].retiring = "draining"
  /\ cart' = [cart EXCEPT ![c].retiring = "expired"]
  /\ UNCHANGED <<up, proc, capTable, tables, relayIn, events, switch, roster, outside>>

\* The statistics tick reaps the retired that have drained or run out of time.
\* MUTANT: only cartridges that stopped by themselves are reaped.
Ready_Stopped == {c \in Slots : cart[c].retiring # "no" /\ ~cart[c].running}
Ready == {c \in Slots : cart[c].retiring # "no" /\
            (~cart[c].running \/ Drained(c) \/ cart[c].retiring = "expired")}
ReapDrained ==
  /\ up /\ Ready # {}
  /\ RetireKill([c \in Slots |-> IF c \in Ready THEN [cart[c] EXCEPT !.retiring = "no"] ELSE cart[c]],
                {c \in Ready : cart[c].running})
  /\ UNCHANGED <<up, capTable, tables, relayIn, events, switch, roster, outside>>

------------------------------------------------------------------------------
RelayStep == NoHandler \/ Serve \/ ServeFails \/ CancelRequest \/ ForceKill
             \/ \E r \in Requests : Unrouted(r) \/ Deliver(r) \/ Undeliverable(r)
EventStep == OldEvent \/ HearRequest \/ HearBody \/ HearResponse \/ HearDeath
Timers == HeartbeatTick \/ ReapDrained
ProcessStep(c) ==
  \/ TakeFrame(c) \/ ReaderEof(c) \/ WriterFails(c) \/ AnswerProbe(c)
  \/ \E p \in Peers : MakePeer(c, p) \/ EndArgument(c, p)
  \/ \E r \in Served : Respond(c, r)
Outside ==
  \/ \E r \in Calls : EngineRequest(r) \/ EngineBody(r)
  \/ \E r \in Calls, kind \in Kinds : EngineCancel(r, kind)
  \/ \E p \in Peers : RemoteAnswers(p)
  \/ \E c \in Slots : Crash(c) \/ Hang(c) \/ ProbeLate(c) \/ KillCartridge(c) \/ DrainExpires(c)
  \/ \E R \in SUBSET Installs : SyncRoster(R)
Next == RelayStep \/ EventStep \/ Timers \/ Outside \/ \E c \in Slots : ProcessStep(c)

Spec == Init /\ [][Next]_vars

\* The loop takes what its select offers; tasks run; a live handler ends what
\* it was given in full; what is made is ended; other hosts answer; time passes.
Fairness ==
  /\ WF_vars(RelayStep) /\ WF_vars(EventStep)
  /\ WF_vars(HeartbeatTick) /\ WF_vars(ReapDrained)
  /\ \A c \in Slots :
       /\ WF_vars(TakeFrame(c)) /\ WF_vars(ReaderEof(c)) /\ WF_vars(WriterFails(c))
       /\ WF_vars(~Alive(c) /\ ProbeLate(c)) /\ WF_vars(DrainExpires(c))
       /\ \A p \in Peers : WF_vars(EndArgument(c, p))
       /\ \A r \in Served : WF_vars((r \in proc[c].ended \cup proc[c].told) /\ Respond(c, r))
  /\ \A r \in Calls : WF_vars(EngineBody(r))
  /\ \A p \in Peers : WF_vars(RemoteAnswers(p))
FairSpec == Spec /\ Fairness

------------------------------------------------------------------------------
(* Properties.                                                                *)
Cartridge ==
  [install : Installs \cup {NoInstall}, running : BOOLEAN, generation : Nat, removed : BOOLEAN,
   retiring : {"no", "draining", "expired"}, reason : {"none", "oom", "cancelled", "retired"},
   late : BOOLEAN, writer : {"open", "gone"}]
Process ==
  [state : {"none", "up", "hung", "dead", "read"}, pipe : Seq(Frames), taken : SUBSET Served,
   ended : SUBSET Served, told : SUBSET Served, asked : SUBSET Peers]
TypeOK ==
  /\ up \in BOOLEAN
  /\ cart \in [Slots -> Cartridge]
  /\ proc \in [Slots -> Process]
  /\ capTable \subseteq Slots
  /\ incoming \in [Served -> Slots \cup {0}] /\ outgoing \in [Peers -> Slots \cup {0}]
  /\ bodyDone \subseteq Served /\ responseDone \subseteq Served
  /\ links \subseteq Requests \X Peers
  /\ relayIn \in Seq(Frames)
  /\ events \in Seq([slot : Slots, generation : Nat, frame : Sayings])
  /\ requested \in [Requests -> {"no", "live", "away", "over"}]
  /\ bodySent \subseteq Requests /\ answers \in [Requests -> Nat]
  /\ roster \subseteq Installs
  /\ syncs \in Nat /\ faults \in Nat /\ cancelled \subseteq Cancels

\* What keeps a peer request that this host serves from being answered in place
\* of its cartridge: the roster stays, and the installs peer requests want
\* are offered, do not fail, are not killed, and do not ask themselves.
SteadyPeers ==
  \A p \in Local :
    /\ MaxSyncs = 0
    /\ \E c \in DOMAIN FirstRoster : FirstRoster[c] = Wants[p]
    /\ \A c \in DOMAIN FirstRoster \cap Frail : FirstRoster[c] # Wants[p]
    /\ Wants[Parent[p]] # Wants[p]
    /\ "KILL" \in Kinds => \A r \in Cancels : Wants[r] # Wants[p]

\* A request that the caller waits for is on its way to its cartridge, held by
\* the process that its entry names, or lost with one whose death is yet to be
\* handled; likewise a live process that waits for a peer request is known to
\* the host as its maker. (The routing tables survive every order of spawns,
\* terminals and deaths; with an entry gone the caller waits for ever.)
Queued(frames, frame) == \E k \in DOMAIN frames : frames[k] = frame
Heard(c, frame) == Queued(events, Event(c, frame))
Holds(c, r) ==
  \/ proc[c].state \in {"dead", "read"} \/ r \in proc[c].taken
  \/ Queued(proc[c].pipe, Frame("REQ", r)) \/ Heard(c, Frame("RESPONSE", r))
ServedHeld ==
  up => \A r \in Served : requested[r] = "live" =>
          \/ Queued(relayIn, Frame("REQ", r))
          \/ incoming[r] # 0 /\ Holds(incoming[r], r)
MakersKnown ==
  up => \A c \in Slots : \A p \in proc[c].asked :
          \/ Heard(c, Frame("REQ", p)) \/ outgoing[p] = c
          \/ Queued(proc[c].pipe, Frame("RESPONSE", p))
NobodyForgotten == ServedHeld /\ MakersKnown

\* Unless its call is cancelled, the response of a peer request goes to the
\* process that asked, and the request's body never does. (When this host serves
\* its own peer request, both streams come down the relay under one key and are
\* told apart by what has ended.)
RoutedRight ==
  \A c \in Slots : \A p \in Peers :
    proc[c].state \in {"up", "hung"} /\ Parent[p] \notin cancelled =>
      /\ Queued(proc[c].pipe, Frame("RESPONSE", p)) => p \in proc[c].asked
      /\ Queued(proc[c].pipe, Frame("BODY", p)) => p \notin proc[c].asked

\* A reason given for a process' end is of the process that is ending: it has
\* been killed and its death is yet to be handled. (A reason left over would
\* attribute a later crash to an old cancel or retirement.)
ReasonOfThisLife ==
  \A c \in Slots : cart[c].reason # "none" => cart[c].running /\ proc[c].state \in {"dead", "read"}

\* Every install of the roster has exactly one cartridge on offer and nothing
\* else is on offer; a process that is no longer on offer drains or was killed.
\* (Rosters flap while processes drain, die and are spawned.)
RosterFollowed ==
  up => /\ capTable = Usable(cart)
        /\ {cart[c].install : c \in capTable} = roster
        /\ \A c, d \in capTable : cart[c].install = cart[d].install => c = d
        /\ \A c \in Slots : cart[c].removed /\ cart[c].running =>
              cart[c].retiring # "no" \/ cart[c].reason # "none"

\* The engine gets a second terminal for a call only when the first came before
\* the call's body had ended here, or when the host, which could not deliver the
\* body's end, answered before it had read the response of the dead process.
\* (Events of a process that was done away with must not be taken for those of
\* the one spawned since.)
FoundDead(r) ==
  Hears("RESPONSE") /\ Head(events).frame.req = r /\ cart[Head(events).slot].writer = "gone"
AnsweredOnce ==
  [][\A r \in Calls : answers'[r] > answers[r] =>
       answers[r] = 0 \/ r \in responseDone \/ FoundDead(r)]_vars

\* The roster kills a process only if its install is not wanted, and only when
\* nothing is in flight or the drain has run out of time.
DrainSpared ==
  [][\A c \in Slots : cart'[c].reason = "retired" /\ cart[c].reason # "retired" =>
       /\ cart[c].install \notin roster'
       /\ Drained(c) \/ cart[c].retiring = "expired"]_vars

\* Every request is answered, whatever becomes of the cartridges that serve it
\* and made it, unless the host goes down. (A peer request made after the cancel
\* of its call is told nothing: when its maker gives up it may run for ever.)
Abandoned(r) == r \in Peers /\ Parent[r] \in cancelled
RequestEnds ==
  \A r \in Requests : requested[r] \in {"live", "away"} ~> requested[r] = "over" \/ ~up \/ Abandoned(r)

\* A cartridge that left the roster stops, unless it returns.
DrainEnds ==
  \A c \in Slots : cart[c].removed /\ cart[c].running ~> ~(cart[c].removed /\ cart[c].running)
=============================================================================
