------------------------- MODULE HostRuntime_proofs -------------------------
(***************************************************************************)
(* For any installs, requests and bounds: the variables keep their types,  *)
(* the caps on offer follow the roster, the reason recorded for the end of *)
(* a process is of the process that is ending, and the roster kills only   *)
(* what is not wanted and has drained.  Then, who answers and who waits:   *)
(* a queue is reasoned about as the set of its frames and the order of two *)
(* of them; Steps says of every action what it does to queues, pipes and   *)
(* books; and a request is followed to its one terminal (Token), from one  *)
(* place to the next (HeldLive), and back to who asked for it (Asking).    *)
(* Last, the response of a peer request is told from its body (Answering). *)
(***************************************************************************)
EXTENDS HostRuntime, FunctionTheorems, FiniteSetTheorems, SequenceTheorems, WellFoundedInduction,
        TLAPS

\* The requests this host is asked to serve are those it can serve.
LiveServed == \A r \in Requests : requested[r] = "live" => r \in Served

TypeInv == TypeOK /\ LiveServed

\* A cartridge is running exactly when its slot has a process, dead ones
\* included; who serves a request is running.
RunningHasProcess == \A c \in Slots : cart[c].running <=> proc[c].state # "none"
EntriesRunning == up => \A r \in Served : incoming[r] # 0 => cart[incoming[r]].running

\* Slots are given in order, and nothing runs in one that is not given.
FirstSlots(n) == \A c \in Slots : cart[c].install # NoInstall <=> c =< n
SlotsInOrder ==
  /\ \E n \in 0..MaxSlots : FirstSlots(n)
  /\ \A c \in Slots : cart[c].install = NoInstall =>
       ~cart[c].running /\ ~cart[c].removed /\ cart[c].retiring = "no"

\* What drains has left the roster; and of the cartridges of one install at
\* most one is on offer or drains.
RetiringUnwanted ==
  \A c \in Slots : cart[c].retiring # "no" => cart[c].removed /\ cart[c].install \notin roster
Lasting(c) == ~cart[c].removed \/ cart[c].retiring # "no"
OneLasting ==
  \A c, d \in Slots : /\ Lasting(c) /\ Lasting(d)
                      /\ cart[c].install = cart[d].install /\ cart[c].install # NoInstall
                      => c = d

Lives == RunningHasProcess /\ EntriesRunning /\ ReasonOfThisLife
Slotting == SlotsInOrder /\ RetiringUnwanted /\ OneLasting /\ RosterFollowed
IInv == TypeInv /\ Lives /\ Slotting

-----------------------------------------------------------------------------
(* The operators                                                           *)

\* The frames of a finite set, one after another.
LEMMA OrdersOf ==
  ASSUME NEW T, NEW S \in SUBSET T, IsFiniteSet(S), NEW s \in Orders(S)
  PROVE  /\ s \in Seq(T) /\ s \in Seq(S) /\ Len(s) = Cardinality(S) /\ DOMAIN s = 1..Cardinality(S)
         /\ \A k \in DOMAIN s : s[k] \in S
         /\ \A x \in S : \E k \in DOMAIN s : s[k] = x
<1>1. Cardinality(S) \in Nat
  BY FS_CardinalityType
<1>2. s \in [1..Cardinality(S) -> S] /\ \A x \in S : \E k \in DOMAIN s : s[k] = x
  BY DEF Orders
<1>3. s \in Seq(S) /\ s \in Seq(T)
  BY <1>1, <1>2
<1>4. Len(s) = Cardinality(S) /\ DOMAIN s = 1..Cardinality(S)
  BY <1>1, <1>2, <1>3, LenProperties
<1>5. QED  BY <1>2, <1>3, <1>4

LEMMA FramesFinite ==
  ASSUME NEW X \in SUBSET Peers, NEW kind
  PROVE  IsFiniteSet({Frame(kind, p) : p \in X})
<1> DEFINE S == {Frame(kind, p) : p \in X}
<1> DEFINE f == [p \in X |-> Frame(kind, p)]
<1>1. IsFiniteSet(X)
  BY RequestsType, FS_Subset
<1>2. f \in [X -> S] /\ \A x \in S : \E p \in X : f[p] = x
  OBVIOUS
<1>3. f \in Surjection(X, S)
  BY <1>2 DEF Surjection
<1>4. QED  BY <1>1, <1>3, FS_Surjection

\* What the host's sending puts into the relay's stream are frames.
LEMMA BackTyped ==
  ASSUME TypeInv, NEW R
  PROVE  Back(R) \in SUBSET Frames /\ IsFiniteSet(Back(R))
<1> DEFINE X == Live(R) \cap Peers
<1>1. X \in SUBSET Peers /\ Back(R) = {Frame("RESPONSE", p) : p \in X}
  BY DEF Back
<1>2. IsFiniteSet({Frame("RESPONSE", p) : p \in X})
  BY <1>1, FramesFinite
<1>3. \A p \in Peers : Frame("RESPONSE", p) \in Frames
  BY DEF Frame, Frames, Requests
<1>4. QED  BY <1>1, <1>2, <1>3

LEMMA ForthTyped ==
  ASSUME TypeInv, NEW B \in SUBSET Peers
  PROVE  Forth(B) \in SUBSET Frames /\ IsFiniteSet(Forth(B))
<1> DEFINE X == Live(B)
<1>1. X \in SUBSET Peers /\ Forth(B) = {Frame("BODY", p) : p \in X}
  BY DEF Forth, Live
<1>2. IsFiniteSet({Frame("BODY", p) : p \in X})
  BY <1>1, FramesFinite
<1>3. \A p \in Peers : Frame("BODY", p) \in Frames
  BY DEF Frame, Frames, Requests
<1>4. QED  BY <1>1, <1>2, <1>3

LEMMA CascadeTyped ==
  ASSUME TypeInv, NEW r
  PROVE  Cascade(r) \in SUBSET Frames /\ IsFiniteSet(Cascade(r))
<1> DEFINE X == {q \in Live(Peers) : <<r, q>> \in links}
<1>1. X \in SUBSET Peers /\ Cascade(r) = {Frame("CANCEL", p) : p \in X}
  BY DEF Cascade, Live
<1>2. IsFiniteSet({Frame("CANCEL", p) : p \in X})
  BY <1>1, FramesFinite
<1>3. \A p \in X : p \in Served
  BY <1>1 DEF Live, TypeInv, LiveServed, Requests
<1>4. \A p \in X : Frame("CANCEL", p) \in Frames
  BY <1>3 DEF Frame, Frames
<1>5. QED  BY <1>1, <1>2, <1>4

\* A frame the loop takes.
LEMMA TakenFrame ==
  ASSUME TypeInv, NEW kinds, Takes(kinds)
  PROVE  /\ Head(relayIn) \in Frames /\ Tail(relayIn) \in Seq(Frames)
         /\ Head(relayIn).kind \in kinds /\ Head(relayIn).req \in Requests
         /\ kinds \cap {"BODY", "RESPONSE"} = {} => Head(relayIn).req \in Served
<1>1. relayIn \in Seq(Frames) /\ relayIn # <<>>
  BY DEF TypeInv, TypeOK, Takes
<1>2. Head(relayIn) \in Frames /\ Tail(relayIn) \in Seq(Frames)
  BY <1>1, HeadTailProperties
<1>3. Head(relayIn).kind \in kinds
  BY DEF Takes
<1>4. Served \subseteq Requests
  BY LocalType DEF Served, Requests
<1>5. QED  BY <1>2, <1>3, <1>4 DEF Frames

Events == [slot : Slots, generation : Nat, frame : Sayings]

\* What the loop hears from a cartridge.
LEMMA HeardEvent ==
  ASSUME TypeInv, NEW kind, Hears(kind)
  PROVE  /\ Head(events) \in Events /\ Tail(events) \in Seq(Events)
         /\ Head(events).slot \in Slots /\ Head(events).frame.kind = kind
         /\ kind \in {"REQ", "BODY"} => Head(events).frame.req \in Peers
         /\ kind = "RESPONSE" => Head(events).frame.req \in Served
         /\ kind = "REQ" /\ Head(events).frame.req \in Local => Head(events).frame \in Frames
<1>1. events \in Seq(Events) /\ events # <<>>
  BY DEF TypeInv, TypeOK, Hears, Events
<1>2. Head(events) \in Events /\ Tail(events) \in Seq(Events)
  BY <1>1, HeadTailProperties
<1>3. Head(events).frame \in Sayings /\ Head(events).frame.kind = kind /\ Head(events).slot \in Slots
  BY <1>2 DEF Events, Hears
<1>4. \/ Head(events).frame \in [kind : {"REQ", "BODY"}, req : Peers]
      \/ Head(events).frame \in [kind : {"RESPONSE"}, req : Served]
      \/ Head(events).frame.kind = "DEATH"
  BY <1>3 DEF Sayings, Death, Frame
<1>5. Local \subseteq Served
  BY DEF Served
<1>6. QED  BY <1>2, <1>3, <1>4, <1>5 DEF Frames

\* A slot's cartridge, or its process, is set to another.
LEMMA CartridgeSet ==
  ASSUME TypeInv, NEW c \in Slots, NEW t \in Cartridge, cart' = [cart EXCEPT ![c] = t]
  PROVE  cart' \in [Slots -> Cartridge]
  BY DEF TypeInv, TypeOK

LEMMA ProcessSet ==
  ASSUME TypeInv, NEW c \in Slots, NEW t \in Process, proc' = [proc EXCEPT ![c] = t]
  PROVE  proc' \in [Slots -> Process]
  BY DEF TypeInv, TypeOK

LEMMA RegisteredTyped ==
  ASSUME NEW i \in Installs \cup {NoInstall}
  PROVE  Registered(i) \in Cartridge
  BY DEF Registered, Cartridge

LEMMA ProcessesTyped ==
  /\ NoProcess \in Process /\ NewProcess \in Process
  /\ \A x \in Process : Killed(x) \in Process
<1>1. <<>> \in Seq(Frames)
  BY EmptySeq
<1>2. QED  BY <1>1 DEF NoProcess, NewProcess, Killed, Process

LEMMA KillTyped ==
  ASSUME NEW processes \in [Slots -> Process], NEW c \in Slots
  PROVE  /\ Kill(processes, c) \in [Slots -> Process]
         /\ \A d \in Slots : Kill(processes, c)[d] \in {processes[d], Killed(processes[d])}
  BY ProcessesTyped DEF Kill

LEMMA GiveTyped ==
  ASSUME NEW processes \in [Slots -> Process], NEW c \in Slots, NEW frame \in Frames
  PROVE  Give(processes, c, frame) \in [Slots -> Process]
<1>1. Append(processes[c].pipe, frame) \in Seq(Frames)
  BY AppendProperties DEF Process
<1>2. [processes[c] EXCEPT !.pipe = Append(@, frame)] \in Process
  <2>1. processes[c] \in Process
    OBVIOUS
  <2>2. QED  BY <1>1, <2>1 DEF Process
<1>3. Give(processes, c, frame) = [processes EXCEPT ![c] = [processes[c] EXCEPT !.pipe = Append(@, frame)]]
  BY DEF Give
<1>4. QED  BY <1>2, <1>3

-----------------------------------------------------------------------------
(* Types                                                                   *)

\* The roster's new installs get slots of their own.
LEMMA AddedTyped ==
  ASSUME NEW carts \in [Slots -> Cartridge], NEW R \in SUBSET Installs, NEW s \in Orders(R)
  PROVE  Added(carts, s) \in [Slots -> Cartridge]
<1>1. IsFiniteSet(R)
  BY InstallsType, FS_Subset
<1>2. \A k \in DOMAIN s : s[k] \in Installs
  BY <1>1, OrdersOf
<1>3. \A k \in DOMAIN s : Registered(s[k]) \in Cartridge
  BY <1>2, RegisteredTyped
<1>4. QED  BY <1>3 DEF Added

LEMMA RosterChangesTyped ==
  ASSUME TypeInv, NEW R \in SUBSET Installs
  PROVE  /\ Retired(R) \in [Slots -> Cartridge]
         /\ Restored(Retired(R), R) \in [Slots -> Cartridge]
<1>1. cart \in [Slots -> Cartridge]
  BY DEF TypeInv, TypeOK
<1>2. \A x \in Cartridge :
        /\ [x EXCEPT !.removed = TRUE, !.retiring = "draining"] \in Cartridge
        /\ [x EXCEPT !.removed = TRUE] \in Cartridge
        /\ [x EXCEPT !.retiring = "no", !.removed = FALSE] \in Cartridge
  BY DEF Cartridge
<1>3. Retired(R) \in [Slots -> Cartridge]
  <2>1. \A c \in Slots : Retired(R)[c] \in Cartridge
    <3>1. ASSUME NEW c \in Slots PROVE Retired(R)[c] \in Cartridge
      <4>1. cart[c] \in Cartridge
        BY <1>1
      <4>2. Retired(R)[c] \in {cart[c], [cart[c] EXCEPT !.removed = TRUE, !.retiring = "draining"],
                               [cart[c] EXCEPT !.removed = TRUE, !.retiring = cart[c].retiring]}
        BY DEF Retired
      <4>3. [cart[c] EXCEPT !.removed = TRUE, !.retiring = cart[c].retiring] \in Cartridge
        BY <4>1 DEF Cartridge
      <4>4. QED  BY <1>2, <4>1, <4>2, <4>3
    <3>2. QED  BY <3>1
  <2>2. QED  BY <2>1 DEF Retired
<1>4. Restored(Retired(R), R) \in [Slots -> Cartridge]
  BY <1>2, <1>3 DEF Restored
<1>5. QED  BY <1>3, <1>4

LEMMA RetireKillTyped ==
  ASSUME TypeInv, NEW carts \in [Slots -> Cartridge], NEW D \in SUBSET Slots, RetireKill(carts, D)
  PROVE  cart' \in [Slots -> Cartridge] /\ proc' \in [Slots -> Process]
<1>1. \A x \in Cartridge : [x EXCEPT !.retiring = "no", !.reason = "retired"] \in Cartridge
  BY DEF Cartridge
<1>2. cart' \in [Slots -> Cartridge]
  BY <1>1 DEF RetireKill
<1>3. proc \in [Slots -> Process]
  BY DEF TypeInv, TypeOK
<1>4. proc' \in [Slots -> Process]
  BY <1>3, KillTyped DEF RetireKill
<1>5. QED  BY <1>2, <1>4

\* What a death does.
LEMMA BuryTyped ==
  ASSUME TypeInv, NEW D \in SUBSET Slots, Bury(cart, D)
  PROVE  /\ cart' \in [Slots -> Cartridge] /\ proc' \in [Slots -> Process]
         /\ capTable' \subseteq Slots
         /\ incoming' \in [Served -> Slots \cup {0}] /\ outgoing' \in [Peers -> Slots \cup {0}]
         /\ bodyDone' \subseteq Served /\ responseDone' \subseteq Served
         /\ links' \subseteq Requests \X Peers
         /\ relayIn' \in Seq(Frames)
<1>1. \A x \in Cartridge : [x EXCEPT !.running = FALSE, !.generation = @ + 1, !.reason = "none",
                                   !.late = FALSE, !.writer = "open"] \in Cartridge
  <2>1. ASSUME NEW x \in Cartridge
        PROVE  [x EXCEPT !.running = FALSE, !.generation = x.generation + 1, !.reason = "none",
                         !.late = FALSE, !.writer = "open"] \in Cartridge
    <3>1. x.generation + 1 \in Nat
      BY DEF Cartridge
    <3>2. QED  BY <3>1 DEF Cartridge
  <2>2. QED  BY <2>1
<1>2. cart' \in [Slots -> Cartridge]
  BY <1>1 DEF Bury, Buried, TypeInv, TypeOK
<1>3. proc' \in [Slots -> Process]
  BY ProcessesTyped DEF Bury, TypeInv, TypeOK
<1>4. Orphaned(D) \in SUBSET Peers
  BY DEF Orphaned, Asked
<1>5. PICK s \in Orders(Forth(Orphaned(D))), t \in Orders(Back(Lost(D))) : relayIn' = relayIn \o s \o t
  BY DEF Bury
<1>6. s \in Seq(Frames) /\ t \in Seq(Frames) /\ relayIn \in Seq(Frames)
  BY <1>4, ForthTyped, BackTyped, OrdersOf DEF TypeInv, TypeOK
<1>7. relayIn' \in Seq(Frames)
  BY <1>5, <1>6, ConcatProperties
<1>8. QED  BY <1>2, <1>3, <1>7 DEF Bury, Usable, TypeInv, TypeOK

\* The terminals of R go to the relay: what is live stays what can be served.
LEMMA AnswerTyped ==
  ASSUME TypeInv, NEW R, Answer(R)
  PROVE  /\ answers' \in [Requests -> Nat]
         /\ requested' \in [Requests -> {"no", "live", "away", "over"}] /\ LiveServed'
  BY DEF Answer, TypeInv, TypeOK, LiveServed

\* What a spawn and a stop do.
LEMMA SpawnTyped ==
  ASSUME TypeInv, NEW c \in Slots
  PROVE  Spawned(c) \in [Slots -> Cartridge]
<1>1. cart \in [Slots -> Cartridge] /\ cart[c] \in Cartridge
  BY DEF TypeInv, TypeOK
<1>2. cart[c].generation + 1 \in Nat
  BY <1>1 DEF Cartridge
<1>3. [cart[c] EXCEPT !.running = TRUE, !.generation = cart[c].generation + 1] \in Cartridge
  BY <1>1, <1>2 DEF Cartridge
<1>4. [cart EXCEPT ![c].running = TRUE, ![c].generation = @ + 1]
        = [cart EXCEPT ![c] = [cart[c] EXCEPT !.running = TRUE, !.generation = cart[c].generation + 1]]
  BY <1>1
<1>5. QED  BY <1>1, <1>3, <1>4 DEF Spawned

LEMMA StopTyped ==
  ASSUME TypeInv, Stop
  PROVE  TypeInv'
<1>1. \A x \in Cartridge : [x EXCEPT !.running = FALSE, !.reason = "none", !.late = FALSE,
                                   !.writer = "open"] \in Cartridge
  BY DEF Cartridge
<1>2. cart' \in [Slots -> Cartridge]
  BY <1>1 DEF Stop, TypeInv, TypeOK
<1>3. proc' \in [Slots -> Process]
  BY ProcessesTyped DEF Stop
<1>4. relayIn' \in Seq(Frames) /\ events' \in Seq(Events)
  BY EmptySeq DEF Stop
<1>5. QED  BY <1>2, <1>3, <1>4 DEF Stop, TypeInv, TypeOK, LiveServed, tables, switch, outside, Events

\* A cartridge says something.
LEMMA SaysTyped ==
  ASSUME TypeInv, NEW c \in Slots, NEW frame \in Sayings, Says(c, frame)
  PROVE  events' \in Seq(Events)
<1>1. cart[c] \in Cartridge
  BY DEF TypeInv, TypeOK
<1>2. Event(c, frame) \in Events
  BY <1>1 DEF Event, Events, Cartridge
<1>3. events \in Seq(Events)
  BY DEF TypeInv, TypeOK, Events
<1>4. QED  BY <1>2, <1>3, AppendProperties DEF Says

\* Something is put into the relay's stream.
LEMMA RelayAppended ==
  ASSUME TypeInv, NEW kind, NEW r, Frame(kind, r) \in Frames, relayIn' = Append(relayIn, Frame(kind, r))
  PROVE  relayIn' \in Seq(Frames)
  BY AppendProperties DEF TypeInv, TypeOK

LEMMA RelayContinued ==
  ASSUME TypeInv, NEW rest \in Seq(Frames), NEW S \in SUBSET Frames, IsFiniteSet(S),
         NEW s \in Orders(S), relayIn' = rest \o s
  PROVE  relayIn' \in Seq(Frames)
<1>1. s \in Seq(Frames)
  BY OrdersOf
<1>2. QED  BY <1>1, ConcatProperties

\* One part of a process, or of a cartridge, is set.
LEMMA ProcessParts ==
  ASSUME NEW x \in Process
  PROVE  /\ \A q \in {"none", "up", "hung", "dead", "read"} : [x EXCEPT !.state = q] \in Process
         /\ \A q \in SUBSET Peers : [x EXCEPT !.asked = q] \in Process
         /\ [x EXCEPT !.pipe = <<>>] \in Process
  BY EmptySeq DEF Process

LEMMA CartridgeParts ==
  ASSUME NEW x \in Cartridge
  PROVE  /\ \A q \in {"none", "oom", "cancelled", "retired"} : [x EXCEPT !.reason = q] \in Cartridge
         /\ \A q \in BOOLEAN : [x EXCEPT !.late = q] \in Cartridge
         /\ [x EXCEPT !.retiring = "expired"] \in Cartridge
         /\ [x EXCEPT !.retiring = "no"] \in Cartridge
         /\ [x EXCEPT !.writer = "gone"] \in Cartridge
  BY DEF Cartridge

\* The step of the engine and of other hosts.
LEMMA OutsideTyped ==
  ASSUME TypeInv, Outside
  PROVE  TypeInv'
<1> USE DEF tables, switch, outside
<1>1. CASE \E r \in Calls : EngineRequest(r)
  <2>1. PICK r \in Calls : EngineRequest(r)
    BY <1>1
  <2>2. Frame("REQ", r) \in Frames /\ r \in Served
    BY DEF Frame, Frames, Served
  <2>3. relayIn' \in Seq(Frames)
    BY <2>1, <2>2, RelayAppended DEF EngineRequest
  <2>4. QED  BY <2>1, <2>2, <2>3 DEF EngineRequest, TypeInv, TypeOK, LiveServed
<1>2. CASE \E r \in Calls : EngineBody(r)
  <2>1. PICK r \in Calls : EngineBody(r)
    BY <1>2
  <2>2. Frame("BODY", r) \in Frames
    BY DEF Frame, Frames, Requests
  <2>3. relayIn' \in Seq(Frames)
    BY <2>1, <2>2, RelayAppended DEF EngineBody
  <2>4. QED  BY <2>1, <2>3 DEF EngineBody, TypeInv, TypeOK, LiveServed, Requests
<1>3. CASE \E r \in Calls, kind \in Kinds : EngineCancel(r, kind)
  <2>1. PICK r \in Calls, kind \in Kinds : EngineCancel(r, kind)
    BY <1>3
  <2>2. Frame(kind, r) \in Frames
    BY CancelsType DEF Frame, Frames, Served
  <2>3. relayIn' \in Seq(Frames)
    BY <2>1, <2>2, RelayAppended DEF EngineCancel
  <2>4. QED  BY <2>1, <2>3 DEF EngineCancel, TypeInv, TypeOK, LiveServed
<1>4. CASE \E p \in Peers : RemoteAnswers(p)
  <2>1. PICK p \in Peers : RemoteAnswers(p)
    BY <1>4
  <2>2. Frame("RESPONSE", p) \in Frames
    BY DEF Frame, Frames, Requests
  <2>3. relayIn' \in Seq(Frames)
    BY <2>1, <2>2, RelayAppended DEF RemoteAnswers
  <2>4. QED  BY <2>1, <2>3 DEF RemoteAnswers, TypeInv, TypeOK, LiveServed
<1>5. CASE \E c \in Slots : Crash(c) \/ Hang(c) \/ ProbeLate(c) \/ KillCartridge(c) \/ DrainExpires(c)
  <2>1. PICK c \in Slots : Crash(c) \/ Hang(c) \/ ProbeLate(c) \/ KillCartridge(c) \/ DrainExpires(c)
    BY <1>5
  <2>2. cart[c] \in Cartridge /\ proc[c] \in Process
    BY DEF TypeInv, TypeOK
  <2>3. CASE Crash(c)
    <3>1. Killed(proc[c]) \in Process
      BY <2>2, ProcessesTyped
    <3>2. proc' \in [Slots -> Process]
      BY <2>3, <3>1, ProcessSet DEF Crash
    <3>3. QED  BY <2>3, <3>2 DEF Crash, TypeInv, TypeOK, LiveServed
  <2>4. CASE Hang(c)
    <3>1. [proc[c] EXCEPT !.state = "hung"] \in Process
      BY <2>2, ProcessParts
    <3>2. proc' \in [Slots -> Process]
      BY <2>4, <3>1, ProcessSet DEF Hang
    <3>3. QED  BY <2>4, <3>2 DEF Hang, TypeInv, TypeOK, LiveServed
  <2>5. CASE ProbeLate(c)
    <3>1. [cart[c] EXCEPT !.late = TRUE] \in Cartridge
      BY <2>2, CartridgeParts
    <3>2. cart' \in [Slots -> Cartridge]
      BY <2>5, <3>1, CartridgeSet DEF ProbeLate
    <3>3. QED  BY <2>5, <3>2 DEF ProbeLate, TypeInv, TypeOK, LiveServed
  <2>6. CASE KillCartridge(c)
    <3>1. [cart[c] EXCEPT !.reason = "oom"] \in Cartridge
      BY <2>2, CartridgeParts
    <3>2. cart' \in [Slots -> Cartridge]
      BY <2>6, <3>1, CartridgeSet DEF KillCartridge
    <3>3. proc' \in [Slots -> Process]
      BY <2>6, KillTyped DEF KillCartridge, TypeInv, TypeOK
    <3>4. QED  BY <2>6, <3>2, <3>3 DEF KillCartridge, TypeInv, TypeOK, LiveServed
  <2>7. CASE DrainExpires(c)
    <3>1. [cart[c] EXCEPT !.retiring = "expired"] \in Cartridge
      BY <2>2, CartridgeParts
    <3>2. cart' \in [Slots -> Cartridge]
      BY <2>7, <3>1, CartridgeSet DEF DrainExpires
    <3>3. QED  BY <2>7, <3>2 DEF DrainExpires, TypeInv, TypeOK, LiveServed
  <2>8. QED  BY <2>1, <2>3, <2>4, <2>5, <2>6, <2>7
<1>6. CASE \E R \in SUBSET Installs : SyncRoster(R)
  <2>1. PICK R \in SUBSET Installs : SyncRoster(R)
    BY <1>6
  <2> DEFINE kept == Restored(Retired(R), R)
             new == R \ {kept[c].install : c \in Usable(kept)}
             D == {c \in Leaving(R) : cart[c].running /\ Drained(c)}
  <2>2. PICK s \in Orders(new) : RetireKill(Added(kept, s), D) /\ capTable' = Usable(Added(kept, s))
    BY <2>1 DEF SyncRoster
  <2>3. Added(kept, s) \in [Slots -> Cartridge]
    BY RosterChangesTyped, AddedTyped
  <2>4. D \in SUBSET Slots
    BY DEF Leaving, Usable
  <2>5. cart' \in [Slots -> Cartridge] /\ proc' \in [Slots -> Process]
    BY <2>2, <2>3, <2>4, RetireKillTyped
  <2>6. capTable' \subseteq Slots
    BY <2>2 DEF Usable
  <2>7. QED  BY <2>1, <2>5, <2>6 DEF SyncRoster, TypeInv, TypeOK, LiveServed
<1>7. QED  BY <1>1, <1>2, <1>3, <1>4, <1>5, <1>6 DEF Outside

\* A set of numbers has a first one.
LEMMA FirstOf ==
  ASSUME NEW S \in SUBSET Nat, S # {}
  PROVE  \E c \in S : \A d \in S : c =< d
<1>1. IsWellFoundedOn(OpToRel(<, Nat), Nat)
  BY NatLessThanWellFounded
<1>2. PICK c \in S : \A d \in S : ~ (<<d, c>> \in OpToRel(<, Nat))
  BY <1>1, WFMin
<1>3. \A d \in S : ~(d < c)
  BY <1>2 DEF OpToRel
<1>4. QED  BY <1>3

\* The slot that a request is given to.
LEMMA FirstOffering ==
  ASSUME TypeInv, NEW i, Offering(i) # {}
  PROVE  First(Offering(i)) \in Offering(i) /\ First(Offering(i)) \in Slots
<1> DEFINE S == Offering(i)
<1>1. S \subseteq Slots /\ S # {}
  BY DEF Offering, TypeInv, TypeOK
<1>2. S \subseteq Nat
  BY <1>1 DEF Slots
<1>3. \E c \in S : \A d \in S : c =< d
  BY <1>1, <1>2, FirstOf
<1>4. QED  BY <1>1, <1>3 DEF First

\* The step of a process and the tasks at its pipes.
LEMMA ProcessTyped ==
  ASSUME TypeInv, NEW c \in Slots, ProcessStep(c)
  PROVE  TypeInv'
<1> USE DEF tables, switch, outside
<1>0. cart[c] \in Cartridge /\ proc[c] \in Process
  BY DEF TypeInv, TypeOK
<1>1. CASE TakeFrame(c)
  <2> DEFINE frame == Head(proc[c].pipe)
             r == frame.req
             rest == [proc[c] EXCEPT !.pipe = Tail(@)]
  <2>1. proc[c].pipe \in Seq(Frames) /\ proc[c].pipe # <<>>
    BY <1>0, <1>1 DEF TakeFrame, Process
  <2>2. frame \in Frames /\ Tail(proc[c].pipe) \in Seq(Frames)
    BY <2>1, HeadTailProperties
  <2>3. rest \in Process
    BY <1>0, <2>2 DEF Process
  <2>4. r \in Requests /\ (frame.kind = "REQ" => r \in Served)
    <3>1. Served \subseteq Requests
      BY LocalType DEF Served, Requests
    <3>2. QED  BY <2>2, <3>1 DEF Frames
  <2>5. /\ frame.kind = "REQ" => [rest EXCEPT !.taken = rest.taken \cup {r}] \in Process
        /\ [rest EXCEPT !.told = rest.told \cup ({r} \cap rest.taken)] \in Process
        /\ r \in rest.taken => [rest EXCEPT !.ended = rest.ended \cup {r}] \in Process
        /\ [rest EXCEPT !.asked = rest.asked \ {r}] \in Process
    <3> HIDE DEF rest, r, frame
    <3>1. frame.kind = "REQ" => [rest EXCEPT !.taken = rest.taken \cup {r}] \in Process
      BY <2>3, <2>4 DEF Process
    <3>2. [rest EXCEPT !.told = rest.told \cup ({r} \cap rest.taken)] \in Process
      BY <2>3 DEF Process
    <3>3. r \in rest.taken => [rest EXCEPT !.ended = rest.ended \cup {r}] \in Process
      BY <2>3 DEF Process
    <3>4. [rest EXCEPT !.asked = rest.asked \ {r}] \in Process
      BY <2>3 DEF Process
    <3>5. QED  BY <3>1, <3>2, <3>3, <3>4
  <2>6. PICK t \in Process : proc' = [proc EXCEPT ![c] = t]
    <3> DEFINE t == CASE frame.kind = "REQ" -> [rest EXCEPT !.taken = @ \cup {r}]
            [] frame.kind = "CANCEL" -> [rest EXCEPT !.told = @ \cup ({r} \cap rest.taken)]
            [] OTHER -> IF r \in rest.taken THEN [rest EXCEPT !.ended = @ \cup {r}]
                        ELSE [rest EXCEPT !.asked = @ \ {r}]
    <3>1. proc' = [proc EXCEPT ![c] = t]
      BY <1>1 DEF TakeFrame
    <3>2. t \in Process
      <4> HIDE DEF rest, r, frame
      <4>1. QED  BY <2>5
    <3> HIDE DEF t
    <3>3. QED  BY <3>1, <3>2
  <2>7. proc' \in [Slots -> Process]
    BY <2>6, ProcessSet
  <2>8. QED  BY <1>1, <2>7 DEF TakeFrame, TypeInv, TypeOK, LiveServed
<1>2. CASE ReaderEof(c)
  <2>1. [proc[c] EXCEPT !.state = "read"] \in Process
    BY <1>0, ProcessParts
  <2>2. proc' \in [Slots -> Process]
    BY <1>2, <2>1, ProcessSet DEF ReaderEof
  <2>3. events' \in Seq(Events)
    BY <1>2, SaysTyped DEF ReaderEof, Sayings
  <2>4. QED  BY <1>2, <2>2, <2>3 DEF ReaderEof, TypeInv, TypeOK, LiveServed, Events
<1>3. CASE WriterFails(c)
  <2>1. [proc[c] EXCEPT !.pipe = <<>>] \in Process
    BY <1>0, ProcessParts
  <2>2. proc' \in [Slots -> Process]
    BY <1>3, <2>1, ProcessSet DEF WriterFails
  <2>3. [cart[c] EXCEPT !.writer = "gone"] \in Cartridge
    BY <1>0, CartridgeParts
  <2>4. cart' \in [Slots -> Cartridge]
    BY <1>3, <2>3, CartridgeSet DEF WriterFails
  <2>5. QED  BY <1>3, <2>2, <2>4 DEF WriterFails, TypeInv, TypeOK, LiveServed
<1>4. CASE AnswerProbe(c)
  <2>1. [cart[c] EXCEPT !.late = FALSE] \in Cartridge
    BY <1>0, CartridgeParts
  <2>2. cart' \in [Slots -> Cartridge]
    BY <1>4, <2>1, CartridgeSet DEF AnswerProbe
  <2>3. QED  BY <1>4, <2>2 DEF AnswerProbe, TypeInv, TypeOK, LiveServed
<1>5. CASE \E p \in Peers : MakePeer(c, p)
  <2>1. PICK p \in Peers : MakePeer(c, p)
    BY <1>5
  <2>2. proc[c].asked \cup {p} \in SUBSET Peers
    BY <1>0 DEF Process
  <2>3. [proc[c] EXCEPT !.asked = proc[c].asked \cup {p}] \in Process
    BY <1>0, <2>2, ProcessParts
  <2>4. proc' = [proc EXCEPT ![c] = [proc[c] EXCEPT !.asked = proc[c].asked \cup {p}]]
    BY <2>1 DEF MakePeer
  <2>5. proc' \in [Slots -> Process]
    BY <2>3, <2>4, ProcessSet
  <2>6. Frame("REQ", p) \in Sayings
    BY DEF Frame, Sayings
  <2>7. events' \in Seq(Events)
    BY <2>1, <2>6, SaysTyped DEF MakePeer
  <2>8. QED  BY <2>1, <2>5, <2>7 DEF MakePeer, TypeInv, TypeOK, LiveServed, Events
<1>6. CASE \E p \in Peers : EndArgument(c, p)
  <2>1. PICK p \in Peers : EndArgument(c, p)
    BY <1>6
  <2>2. Frame("BODY", p) \in Sayings
    BY DEF Frame, Sayings
  <2>3. events' \in Seq(Events)
    BY <2>1, <2>2, SaysTyped DEF EndArgument
  <2>4. QED  BY <2>1, <2>3 DEF EndArgument, TypeInv, TypeOK, LiveServed, Events, Requests
<1>7. CASE \E r \in Served : Respond(c, r)
  <2>1. PICK r \in Served : Respond(c, r)
    BY <1>7
  <2> DEFINE t == [proc[c] EXCEPT !.taken = @ \ {r}, !.ended = @ \ {r}, !.told = @ \ {r},
                                  !.asked = @ \ Children(c, r)]
  <2>2. t \in Process
    BY <1>0 DEF Process
  <2>3. proc \in [Slots -> Process]
    BY DEF TypeInv, TypeOK
  <2>4. proc' = [proc EXCEPT ![c] = t]
    BY <2>1, <2>3 DEF Respond
  <2> HIDE DEF t
  <2>5. proc' \in [Slots -> Process]
    BY <2>2, <2>4, ProcessSet
  <2>6. Frame("RESPONSE", r) \in Sayings
    BY DEF Frame, Sayings
  <2>7. events' \in Seq(Events)
    BY <2>1, <2>6, SaysTyped DEF Respond
  <2>8. QED  BY <2>1, <2>5, <2>7 DEF Respond, TypeInv, TypeOK, LiveServed, Events
<1>8. QED  BY <1>1, <1>2, <1>3, <1>4, <1>5, <1>6, <1>7 DEF ProcessStep

\* The step of the loop that takes a frame of the relay.
LEMMA RelayTyped ==
  ASSUME TypeInv, RelayStep
  PROVE  TypeInv'
<1> USE DEF tables, switch, outside
<1>0. proc \in [Slots -> Process] /\ cart \in [Slots -> Cartridge] /\ 0 \notin Slots
  BY BoundsType DEF TypeInv, TypeOK, Slots
<1>1. CASE NoHandler
  <2> DEFINE r == Head(relayIn).req
  <2>1. Tail(relayIn) \in Seq(Frames)
    BY <1>1, TakenFrame DEF NoHandler
  <2>2. PICK s \in Orders(Back({r})) : relayIn' = Tail(relayIn) \o s
    BY <1>1 DEF NoHandler
  <2>3. relayIn' \in Seq(Frames)
    BY <2>1, <2>2, BackTyped, RelayContinued
  <2>4. Answer({r})
    BY <1>1 DEF NoHandler
  <2>5. QED  BY <1>1, <2>3, <2>4, AnswerTyped DEF NoHandler, TypeInv, TypeOK
<1>2. CASE Serve
  <2> DEFINE r == Head(relayIn).req
             c == First(Offering(Wants[r]))
             process == IF cart[c].running THEN proc ELSE [proc EXCEPT ![c] = NewProcess]
  <2>1. Head(relayIn) \in Frames /\ Tail(relayIn) \in Seq(Frames) /\ r \in Served
    BY <1>2, TakenFrame DEF Serve
  <2>2. c \in Slots
    BY <1>2, FirstOffering DEF Serve
  <2>3. cart' = Spawned(c) /\ incoming' = [incoming EXCEPT ![r] = c]
        /\ proc' = Give(process, c, Head(relayIn))
    BY <1>2 DEF Serve
  <2> HIDE DEF c, r
  <2>4. cart' \in [Slots -> Cartridge]
    BY <2>2, <2>3, SpawnTyped
  <2>5. process \in [Slots -> Process]
    BY <1>0, <2>2, ProcessesTyped
  <2>6. proc' \in [Slots -> Process]
    BY <2>1, <2>2, <2>3, <2>5, GiveTyped
  <2>7. incoming' \in [Served -> Slots \cup {0}]
    BY <2>1, <2>2, <2>3 DEF TypeInv, TypeOK
  <2>8. QED  BY <1>2, <2>1, <2>4, <2>6, <2>7 DEF Serve, TypeInv, TypeOK, LiveServed
<1>3. CASE ServeFails
  BY <1>3, StopTyped DEF ServeFails
<1>4. CASE CancelRequest
  <2> DEFINE r == Head(relayIn).req
  <2>1. Head(relayIn) \in Frames /\ Tail(relayIn) \in Seq(Frames) /\ r \in Served
    BY <1>4, TakenFrame DEF CancelRequest
  <2>2. relayIn' \in Seq(Frames)
    <3>1. CASE incoming[r] = 0
      BY <1>4, <2>1, <3>1 DEF CancelRequest
    <3>2. CASE incoming[r] # 0
      <4>1. PICK s \in Orders(Cascade(r)) : relayIn' = Tail(relayIn) \o s
        BY <1>4, <3>2 DEF CancelRequest
      <4>2. QED  BY <2>1, <4>1, CascadeTyped, RelayContinued
    <3>3. QED  BY <3>1, <3>2
  <2>3. proc' \in [Slots -> Process]
    <3>1. incoming[r] \in Slots \cup {0}
      BY <2>1 DEF TypeInv, TypeOK
    <3>2. proc' = proc \/ (incoming[r] # 0 /\ proc' = Give(proc, incoming[r], Head(relayIn)))
      BY <1>4 DEF CancelRequest
    <3>3. QED  BY <1>0, <2>1, <3>1, <3>2, GiveTyped
  <2>4. QED  BY <1>4, <2>2, <2>3 DEF CancelRequest, TypeInv, TypeOK, LiveServed
<1>5. CASE ForceKill
  <2> DEFINE c == incoming[Head(relayIn).req]
  <2>1. Tail(relayIn) \in Seq(Frames) /\ Head(relayIn).req \in Served
    BY <1>5, TakenFrame DEF ForceKill
  <2>2. c \in Slots \cup {0}
    BY <2>1 DEF TypeInv, TypeOK
  <2>3. cart' \in [Slots -> Cartridge] /\ proc' \in [Slots -> Process]
    <3>1. CASE c = 0
      BY <1>0, <1>5, <3>1 DEF ForceKill
    <3>2. CASE c # 0
      <4>1. c \in Slots /\ cart' = [cart EXCEPT ![c].reason = "cancelled"] /\ proc' = Kill(proc, c)
        BY <1>5, <2>2, <3>2 DEF ForceKill
      <4> HIDE DEF c
      <4>2. [cart[c] EXCEPT !.reason = "cancelled"] \in Cartridge
        BY <1>0, <4>1, CartridgeParts
      <4>3. cart' \in [Slots -> Cartridge]
        BY <4>1, <4>2, CartridgeSet
      <4>4. QED  BY <1>0, <4>1, <4>3, KillTyped
    <3>3. QED  BY <3>1, <3>2
  <2>4. QED  BY <1>5, <2>1, <2>3 DEF ForceKill, TypeInv, TypeOK, LiveServed
<1>6. CASE \E r \in Requests : Unrouted(r)
  <2>1. PICK r \in Requests : Unrouted(r)
    BY <1>6
  <2>2. Tail(relayIn) \in Seq(Frames)
    BY <2>1, TakenFrame DEF Unrouted, Terminal
  <2>3. QED  BY <2>1, <2>2 DEF Unrouted, TypeInv, TypeOK, LiveServed
<1>7. CASE \E r \in Requests : Deliver(r)
  <2>1. PICK r \in Requests : Deliver(r)
    BY <1>7
  <2> DEFINE c == IF ToServer(r) THEN Server(r) ELSE Maker(r)
  <2>2. Head(relayIn) \in Frames /\ Tail(relayIn) \in Seq(Frames)
    BY <2>1, TakenFrame DEF Deliver, Terminal
  <2>3. c \in Slots /\ (ToServer(r) => r \in Served) /\ (~ToServer(r) => r \in Peers)
    BY <2>1 DEF Deliver, ToServer, ToMaker, Server, Maker, TypeInv, TypeOK
  <2>4. proc' = Give(proc, c, Head(relayIn))
    BY <2>1 DEF Deliver
  <2> HIDE DEF c
  <2>5. proc' \in [Slots -> Process]
    BY <1>0, <2>2, <2>3, <2>4, GiveTyped
  <2>6. /\ incoming' \in [Served -> Slots \cup {0}] /\ outgoing' \in [Peers -> Slots \cup {0}]
        /\ bodyDone' \subseteq Served /\ responseDone' \subseteq Served
    BY <2>1, <2>3 DEF Deliver, TypeInv, TypeOK
  <2>7. QED  BY <2>1, <2>2, <2>5, <2>6 DEF Deliver, TypeInv, TypeOK, LiveServed
<1>8. CASE \E r \in Requests : Undeliverable(r)
  <2>1. PICK r \in Requests : Undeliverable(r)
    BY <1>8
  <2>2. Tail(relayIn) \in Seq(Frames)
    BY <2>1, TakenFrame DEF Undeliverable, Terminal
  <2>3. PICK s \in Orders(Back({r})) : relayIn' = Tail(relayIn) \o s
    BY <2>1 DEF Undeliverable
  <2>4. relayIn' \in Seq(Frames)
    BY <2>2, <2>3, BackTyped, RelayContinued
  <2>5. Answer({r})
    BY <2>1 DEF Undeliverable
  <2>6. QED  BY <2>1, <2>4, <2>5, AnswerTyped DEF Undeliverable, TypeInv, TypeOK
<1>9. QED  BY <1>1, <1>2, <1>3, <1>4, <1>5, <1>6, <1>7, <1>8 DEF RelayStep

\* The step of the loop that hears a cartridge.
LEMMA EventTyped ==
  ASSUME TypeInv, EventStep
  PROVE  TypeInv'
<1> USE DEF tables, switch, outside
<1>1. CASE OldEvent
  <2>1. Tail(events) \in Seq(Events)
    <3>1. events \in Seq(Events) /\ events # <<>>
      BY <1>1 DEF OldEvent, TypeInv, TypeOK, Events
    <3>2. QED  BY <3>1, HeadTailProperties
  <2>2. QED  BY <1>1, <2>1 DEF OldEvent, TypeInv, TypeOK, LiveServed, Events
<1>2. CASE HearRequest
  <2> DEFINE p == Head(events).frame.req
             c == Head(events).slot
  <2>1. /\ p \in Peers /\ c \in Slots /\ Tail(events) \in Seq(Events)
        /\ p \in Local => Head(events).frame \in Frames
    BY <1>2, HeardEvent DEF HearRequest
  <2>2. relayIn' \in Seq(Frames)
    <3>1. relayIn \in Seq(Frames)
      BY DEF TypeInv, TypeOK
    <3>2. relayIn' = relayIn \/ (p \in Local /\ relayIn' = Append(relayIn, Head(events).frame))
      BY <1>2 DEF HearRequest
    <3>3. QED  BY <2>1, <3>1, <3>2, AppendProperties
  <2>3. requested' \in [Requests -> {"no", "live", "away", "over"}] /\ LiveServed'
    <3>1. \/ p \in Local /\ requested' = [requested EXCEPT ![p] = "live"]
          \/ requested' = [requested EXCEPT ![p] = "away"]
      BY <1>2 DEF HearRequest
    <3>2. p \in Local => p \in Served
      BY DEF Served
    <3> HIDE DEF p
    <3>3. QED  BY <3>1, <3>2 DEF TypeInv, TypeOK, LiveServed
  <2>4. outgoing' \in [Peers -> Slots \cup {0}]
    BY <1>2, <2>1 DEF HearRequest, TypeInv, TypeOK
  <2>5. links' \subseteq Requests \X Peers
    <3>1. Parent[p] \in Requests
      BY <2>1, ParentType DEF Requests
    <3>2. links' = links \/ links' = links \cup {<<Parent[p], p>>}
      BY <1>2 DEF HearRequest
    <3>3. QED  BY <2>1, <3>1, <3>2 DEF TypeInv, TypeOK
  <2>6. QED  BY <1>2, <2>1, <2>2, <2>3, <2>4, <2>5 DEF HearRequest, TypeInv, TypeOK, Events
<1>3. CASE HearBody
  <2> DEFINE p == Head(events).frame.req
  <2>1. p \in Peers /\ Tail(events) \in Seq(Events)
    BY <1>3, HeardEvent DEF HearBody
  <2>2. PICK s \in Orders(Forth({p})) : relayIn' = relayIn \o s
    BY <1>3 DEF HearBody
  <2>3. relayIn \in Seq(Frames)
    BY DEF TypeInv, TypeOK
  <2>4. relayIn' \in Seq(Frames)
    BY <2>1, <2>2, <2>3, ForthTyped, RelayContinued
  <2>5. QED  BY <1>3, <2>1, <2>4 DEF HearBody, TypeInv, TypeOK, LiveServed, Events
<1>4. CASE HearResponse
  <2> DEFINE r == Head(events).frame.req
  <2>1. r \in Served /\ Tail(events) \in Seq(Events)
    BY <1>4, HeardEvent DEF HearResponse
  <2>2. PICK s \in Orders(Back({r})) : relayIn' = relayIn \o s
    BY <1>4 DEF HearResponse
  <2>3. relayIn \in Seq(Frames)
    BY DEF TypeInv, TypeOK
  <2>4. relayIn' \in Seq(Frames)
    BY <2>2, <2>3, BackTyped, RelayContinued
  <2>5. Release(r) /\ Answer({r})
    BY <1>4 DEF HearResponse
  <2> HIDE DEF r
  <2>6. /\ incoming' \in [Served -> Slots \cup {0}]
        /\ bodyDone' \subseteq Served /\ responseDone' \subseteq Served
    BY <2>1, <2>5 DEF Release, TypeInv, TypeOK
  <2>7. QED  BY <1>4, <2>1, <2>4, <2>5, <2>6, AnswerTyped DEF HearResponse, TypeInv, TypeOK, Events
<1>5. CASE HearDeath
  <2> DEFINE D == {Head(events).slot}
  <2>1. D \in SUBSET Slots /\ Tail(events) \in Seq(Events)
    BY <1>5, HeardEvent DEF HearDeath
  <2>2. Bury(cart, D)
    BY <1>5 DEF HearDeath
  <2> HIDE DEF D
  <2>3. Answer(Lost(D))
    BY <2>2 DEF Bury
  <2>4. QED  BY <1>5, <2>1, <2>2, <2>3, BuryTyped, AnswerTyped DEF HearDeath, TypeInv, TypeOK, Events
<1>6. QED  BY <1>1, <1>2, <1>3, <1>4, <1>5 DEF EventStep

\* The step of the loop's timers.
LEMMA TimersTyped ==
  ASSUME TypeInv, Timers
  PROVE  TypeInv'
<1> USE DEF tables, switch, outside
<1>1. CASE HeartbeatTick
  <2>1. Late \in SUBSET Slots /\ Bury(cart, Late)
    BY <1>1 DEF HeartbeatTick, Late
  <2>2. Answer(Lost(Late))
    BY <2>1 DEF Bury
  <2>3. QED  BY <1>1, <2>1, <2>2, BuryTyped, AnswerTyped DEF HeartbeatTick, TypeInv, TypeOK
<1>2. CASE ReapDrained
  <2> DEFINE carts == [c \in Slots |-> IF c \in Ready THEN [cart[c] EXCEPT !.retiring = "no"] ELSE cart[c]]
             D == {c \in Ready : cart[c].running}
  <2>1. carts \in [Slots -> Cartridge]
    BY CartridgeParts DEF TypeInv, TypeOK
  <2>2. D \in SUBSET Slots
    BY DEF Ready
  <2>3. RetireKill(carts, D)
    BY <1>2 DEF ReapDrained
  <2> HIDE DEF carts, D
  <2>4. cart' \in [Slots -> Cartridge] /\ proc' \in [Slots -> Process]
    BY <2>1, <2>2, <2>3, RetireKillTyped
  <2>5. QED  BY <1>2, <2>4 DEF ReapDrained, TypeInv, TypeOK, LiveServed
<1>3. QED  BY <1>1, <1>2 DEF Timers

\* The first types.
LEMMA InitTyped ==
  ASSUME Init
  PROVE  TypeInv
<1>1. PICK n \in 0..MaxSlots : FirstRoster \in [1..n -> Installs]
  BY FirstRosterType
<1>2. DOMAIN FirstRoster = 1..n /\ 1..n \subseteq Slots
  BY <1>1, BoundsType DEF Slots
<1>3. cart \in [Slots -> Cartridge]
  <2>1. \A c \in Slots : (IF c \in DOMAIN FirstRoster THEN FirstRoster[c] ELSE NoInstall)
                           \in Installs \cup {NoInstall}
    BY <1>1, <1>2
  <2>2. QED  BY <2>1, RegisteredTyped DEF Init
<1>4. proc \in [Slots -> Process]
  BY ProcessesTyped DEF Init
<1>5. relayIn \in Seq(Frames) /\ events \in Seq(Events)
  BY EmptySeq DEF Init
<1>6. roster \subseteq Installs /\ capTable \subseteq Slots
  BY <1>1, <1>2 DEF Init
<1>7. QED  BY <1>3, <1>4, <1>5, <1>6 DEF Init, TypeInv, TypeOK, LiveServed, Events

\* The variables keep their types: the loop, the processes and the switch never
\* leave a state the program has, and what the switch holds to be served here can be.
THEOREM TypeCorrect == Spec => []TypeOK
<1>1. Init => TypeInv
  BY InitTyped
<1>2. TypeInv /\ [Next]_vars => TypeInv'
  <2> SUFFICES ASSUME TypeInv, [Next]_vars PROVE TypeInv'
    OBVIOUS
  <2>1. CASE UNCHANGED vars
    BY <2>1 DEF vars, tables, switch, outside, TypeInv, TypeOK, LiveServed
  <2>2. CASE Next
    BY <2>2, RelayTyped, EventTyped, TimersTyped, OutsideTyped, ProcessTyped DEF Next
  <2>3. QED  BY <2>1, <2>2
<1>3. TypeInv => TypeOK
  BY DEF TypeInv
<1>4. QED  BY <1>1, <1>2, <1>3, PTL DEF Spec

-----------------------------------------------------------------------------
(* Lives and slots                                                         *)

\* Steps that change neither the roster nor who has left it: a cartridge that
\* starts to run is on offer, and one with a reason to end keeps it to its end.
LEMMA SlottingKept ==
  ASSUME TypeInv, Slotting, up' => up, roster' = roster, capTable' = capTable,
         \A c \in Slots :
           /\ cart'[c].install = cart[c].install /\ cart'[c].removed = cart[c].removed
           /\ cart'[c].retiring # "no" <=> cart[c].retiring # "no"
           /\ cart'[c].running => cart[c].running \/ c \in Usable(cart)
           /\ cart'[c].running /\ cart[c].reason # "none" => cart'[c].reason # "none"
  PROVE  Slotting'
<1>1. SlotsInOrder'
  <2>1. PICK n \in 0..MaxSlots : FirstSlots(n)
    BY DEF Slotting, SlotsInOrder
  <2>2. FirstSlots(n)'
    BY <2>1 DEF FirstSlots
  <2>3. QED  BY <2>2 DEF Slotting, SlotsInOrder, Usable
<1>2. RetiringUnwanted'
  BY DEF Slotting, RetiringUnwanted
<1>3. OneLasting'
  BY DEF Slotting, OneLasting, Lasting
<1>4. RosterFollowed'
  <2> SUFFICES ASSUME up' PROVE RosterFollowed'
    BY DEF RosterFollowed
  <2>1. Usable(cart)' = Usable(cart)
    BY DEF Usable
  <2>2. /\ capTable = Usable(cart) /\ {cart[c].install : c \in capTable} = roster
        /\ \A c, d \in capTable : cart[c].install = cart[d].install => c = d
        /\ \A c \in Slots : cart[c].removed /\ cart[c].running =>
              cart[c].retiring # "no" \/ cart[c].reason # "none"
    BY DEF Slotting, RosterFollowed
  <2>3. capTable \subseteq Slots
    BY DEF TypeInv, TypeOK
  <2>4. {cart'[c].install : c \in capTable} = {cart[c].install : c \in capTable}
    BY <2>3
  <2>5. \A c \in Slots : cart'[c].removed /\ cart'[c].running =>
              cart'[c].retiring # "no" \/ cart'[c].reason # "none"
    BY <2>2 DEF Usable
  <2>6. QED  BY <2>1, <2>2, <2>3, <2>4, <2>5 DEF RosterFollowed
<1>5. QED  BY <1>1, <1>2, <1>3, <1>4 DEF Slotting

\* Steps that leave the cartridges as they are and kill nothing.
LEMMA LivesKept ==
  ASSUME TypeInv, Lives, up' => up,
         \A c \in Slots :
           /\ cart'[c].running = cart[c].running /\ cart'[c].reason = cart[c].reason
           /\ proc'[c].state = "none" <=> proc[c].state = "none"
           /\ proc[c].state \in {"dead", "read"} => proc'[c].state \in {"dead", "read"},
         \A r \in Served : incoming'[r] \in {incoming[r], 0}
  PROVE  Lives'
<1>1. RunningHasProcess'
  BY DEF Lives, RunningHasProcess
<1>2. EntriesRunning'
  BY DEF Lives, EntriesRunning, TypeInv, TypeOK
<1>3. ReasonOfThisLife'
  BY DEF Lives, ReasonOfThisLife
<1>4. QED  BY <1>1, <1>2, <1>3 DEF Lives

\* A slot's process is gone: the death is handled, or the loop has ended.
LEMMA BuryKeeps ==
  ASSUME IInv, NEW D \in SUBSET Slots, Bury(cart, D), up, up' = up, roster' = roster
  PROVE  Lives' /\ Slotting'
<1>1. \A c \in Slots :
        /\ cart'[c].install = cart[c].install /\ cart'[c].removed = cart[c].removed
        /\ cart'[c].retiring = cart[c].retiring
        /\ c \in D => ~cart'[c].running /\ cart'[c].reason = "none" /\ proc'[c].state = "none"
        /\ c \notin D => cart'[c] = cart[c] /\ proc'[c] = proc[c]
  <2>1. /\ \A c \in Slots : cart'[c] = IF c \in D
              THEN [cart[c] EXCEPT !.running = FALSE, !.generation = @ + 1, !.reason = "none",
                                   !.late = FALSE, !.writer = "open"]
              ELSE cart[c]
        /\ \A c \in Slots : proc'[c] = IF c \in D THEN NoProcess ELSE proc[c]
    BY DEF Bury, Buried
  <2>2. \A c \in Slots : cart[c] \in Cartridge
    BY DEF IInv, TypeInv, TypeOK
  <2>3. ASSUME NEW c \in D
        PROVE  /\ cart'[c].install = cart[c].install /\ cart'[c].removed = cart[c].removed
               /\ cart'[c].retiring = cart[c].retiring
               /\ ~cart'[c].running /\ cart'[c].reason = "none" /\ proc'[c].state = "none"
    <3>1. cart[c] \in Cartridge /\ c \in Slots
      BY <2>2
    <3>2. proc'[c] = NoProcess
      BY <2>1, <3>1
    <3>3. cart'[c] = [cart[c] EXCEPT !.running = FALSE, !.generation = @ + 1, !.reason = "none",
                                     !.late = FALSE, !.writer = "open"]
      BY <2>1, <3>1
    <3>4. QED  BY <3>1, <3>2, <3>3 DEF NoProcess, Cartridge
  <2>4. QED  BY <2>1, <2>3
<1>2. capTable' = capTable
  BY DEF Bury, IInv, Slotting, RosterFollowed
<1>3. Slotting'
  BY <1>1, <1>2, SlottingKept DEF IInv
<1>4. RunningHasProcess' /\ ReasonOfThisLife'
  BY <1>1 DEF IInv, Lives, RunningHasProcess, ReasonOfThisLife
<1>5. EntriesRunning'
  <2>1. \A r \in Served : incoming'[r] # 0 => incoming[r] \in Slots \ D /\ incoming'[r] = incoming[r]
    BY DEF Bury, Lost, Entries, IInv, TypeInv, TypeOK
  <2>2. QED  BY <1>1, <2>1 DEF EntriesRunning, IInv, Lives
<1>6. QED  BY <1>3, <1>4, <1>5 DEF Lives

LEMMA StopKeeps ==
  ASSUME IInv, Stop
  PROVE  Lives' /\ Slotting'
<1>1. \A c \in Slots :
        /\ cart'[c].install = cart[c].install /\ cart'[c].removed = cart[c].removed
        /\ cart'[c].retiring = cart[c].retiring
        /\ ~cart'[c].running /\ cart'[c].reason = "none" /\ proc'[c].state = "none"
  <2>1. \A c \in Slots : cart[c] \in Cartridge
    BY DEF IInv, TypeInv, TypeOK
  <2>2. QED  BY <2>1 DEF Stop, NoProcess, Cartridge
<1>2. up' = FALSE /\ capTable' = capTable /\ roster' = roster
  BY DEF Stop
<1>3. Slotting'
  BY <1>1, <1>2, SlottingKept DEF IInv
<1>4. Lives'
  BY <1>1, <1>2 DEF Lives, RunningHasProcess, EntriesRunning, ReasonOfThisLife
<1>5. QED  BY <1>3, <1>4

\* A process that runs is given a reason to end, and is killed.
LEMMA KilledEnds ==
  ASSUME TypeInv, Lives, NEW c \in Slots, cart[c].running
  PROVE  Kill(proc, c)[c].state \in {"dead", "read"}
<1>1. proc[c] \in Process /\ proc[c].state # "none" /\ proc \in [Slots -> Process]
  BY DEF TypeInv, TypeOK, Lives, RunningHasProcess
<1>2. Killed(proc[c]).state = "dead"
  BY <1>1 DEF Killed, Process
<1>3. proc[c].state \in {"up", "hung"} => Kill(proc, c)[c] = Killed(proc[c])
  BY <1>1 DEF Kill
<1>4. proc[c].state \notin {"up", "hung"} => Kill(proc, c)[c] = proc[c]
  BY DEF Kill
<1>5. QED  BY <1>1, <1>2, <1>3, <1>4 DEF Process

LEMMA KillKeeps ==
  ASSUME IInv, NEW c \in Slots, NEW reason \in {"oom", "cancelled"}, cart[c].running,
         cart' = [cart EXCEPT ![c].reason = reason], proc' = Kill(proc, c),
         UNCHANGED <<up, capTable, incoming, roster>>
  PROVE  Lives' /\ Slotting'
<1>1. \A d \in Slots :
        /\ cart'[d].install = cart[d].install /\ cart'[d].removed = cart[d].removed
        /\ cart'[d].retiring = cart[d].retiring /\ cart'[d].running = cart[d].running
        /\ cart'[d].reason = IF d = c THEN reason ELSE cart[d].reason
  BY DEF IInv, TypeInv, TypeOK, Cartridge
<1>2. \A d \in Slots : d # c => proc'[d] = proc[d]
  BY DEF Kill, IInv, TypeInv, TypeOK
<1>3. proc'[c].state \in {"dead", "read"}
  BY KilledEnds DEF IInv
<1>4. Slotting'
  BY <1>1, SlottingKept DEF IInv
<1>5. RunningHasProcess' /\ ReasonOfThisLife'
  BY <1>1, <1>2, <1>3 DEF IInv, Lives, RunningHasProcess, ReasonOfThisLife
<1>6. EntriesRunning'
  BY <1>1 DEF EntriesRunning, IInv, Lives, TypeInv, TypeOK
<1>7. QED  BY <1>4, <1>5, <1>6 DEF Lives

\* What the roster does to processes that run, and have no more to do here.
LEMMA RetireKillLives ==
  ASSUME IInv, NEW carts \in [Slots -> Cartridge], NEW D \in SUBSET Slots, RetireKill(carts, D),
         \A c \in Slots : carts[c].running = cart[c].running /\ carts[c].reason = cart[c].reason,
         \A c \in D : cart[c].running,
         UNCHANGED <<up, incoming>>
  PROVE  Lives'
<1>1. \A c \in Slots :
        /\ cart'[c].running = cart[c].running
        /\ c \in D => cart'[c].reason = "retired" /\ proc'[c].state \in {"dead", "read"}
        /\ c \notin D => cart'[c].reason = cart[c].reason /\ proc'[c] = proc[c]
  <2>1. SUFFICES ASSUME NEW c \in Slots
                 PROVE  /\ cart'[c].running = cart[c].running
                        /\ c \in D => cart'[c].reason = "retired" /\ proc'[c].state \in {"dead", "read"}
                        /\ c \notin D => cart'[c].reason = cart[c].reason /\ proc'[c] = proc[c]
    OBVIOUS
  <2>2. cart'[c] = IF c \in D THEN [carts[c] EXCEPT !.retiring = "no", !.reason = "retired"] ELSE carts[c]
    BY DEF RetireKill
  <2>3. proc'[c] = IF c \in D THEN Kill(proc, c)[c] ELSE proc[c]
    BY DEF RetireKill
  <2>4. carts[c] \in Cartridge /\ carts[c].running = cart[c].running /\ carts[c].reason = cart[c].reason
    OBVIOUS
  <2>5. cart'[c].running = carts[c].running /\ cart'[c].reason = IF c \in D THEN "retired" ELSE carts[c].reason
    BY <2>2, <2>4 DEF Cartridge
  <2>6. c \in D => Kill(proc, c)[c].state \in {"dead", "read"}
    BY KilledEnds DEF IInv
  <2>7. QED  BY <2>3, <2>4, <2>5, <2>6
<1>2. RunningHasProcess' /\ ReasonOfThisLife'
  BY <1>1 DEF IInv, Lives, RunningHasProcess, ReasonOfThisLife
<1>3. EntriesRunning'
  <2>1. \A r \in Served : incoming[r] \in Slots \cup {0} /\ incoming'[r] = incoming[r]
    BY DEF IInv, TypeInv, TypeOK
  <2>2. QED  BY <1>1, <2>1 DEF EntriesRunning, IInv, Lives
<1>4. QED  BY <1>2, <1>3 DEF Lives

\* Installs put one after another are each there once.
LEMMA OrdersOnce ==
  ASSUME NEW S, IsFiniteSet(S), NEW s \in Orders(S)
  PROVE  /\ DOMAIN s = 1..Cardinality(S) /\ \A k \in DOMAIN s : s[k] \in S
         /\ \A x \in S : \E k \in DOMAIN s : s[k] = x
         /\ \A j, k \in DOMAIN s : s[j] = s[k] => j = k
<1>1. Cardinality(S) \in Nat
  BY FS_CardinalityType
<1> DEFINE I == 1..Cardinality(S)
<1>2. IsFiniteSet(I) /\ Cardinality(I) = Cardinality(S)
  BY <1>1, FS_Interval
<1>3. s \in [I -> S] /\ \A x \in S : \E k \in DOMAIN s : s[k] = x
  BY DEF Orders
<1>4. s \in Surjection(I, S)
  BY <1>3 DEF Surjection
<1>5. s \in Injection(I, S)
  BY <1>2, <1>4, FS_SurjSameCardinalityImpliesInj
<1>6. QED  BY <1>3, <1>5 DEF Injection, IsInjective

\* The slots that are given, when the first n are.
LEMMA TakenSlots ==
  ASSUME NEW n \in 0..MaxSlots, NEW carts,
         \A c \in Slots : carts[c].install # NoInstall <=> c =< n
  PROVE  Taken(carts) = 1..n /\ Cardinality(Taken(carts)) = n
<1>1. n \in Nat /\ 1..n \subseteq Slots
  BY BoundsType DEF Slots
<1>2. Taken(carts) = 1..n
  BY <1>1 DEF Taken, Slots
<1>3. Cardinality(1..n) = n
  BY <1>1, FS_Interval
<1>4. QED  BY <1>2, <1>3

\* A sync retires what has left, keeps what returned, and registers what is new
\* in the slots that follow.
LEMMA SyncKeeps ==
  ASSUME IInv, NEW R \in SUBSET Installs, SyncRoster(R)
  PROVE  Lives' /\ Slotting'
<1> DEFINE kept == Restored(Retired(R), R)
           new == R \ {kept[c].install : c \in Usable(kept)}
           D == {c \in Leaving(R) : cart[c].running /\ Drained(c)}
<1>1. PICK s \in Orders(new) : RetireKill(Added(kept, s), D) /\ capTable' = Usable(Added(kept, s))
  BY DEF SyncRoster
<1>2. PICK n \in 0..MaxSlots : FirstSlots(n)
  BY DEF IInv, Slotting, SlotsInOrder
<1>3. cart \in [Slots -> Cartridge] /\ kept \in [Slots -> Cartridge] /\ capTable \subseteq Slots
      /\ \A c \in Slots : cart[c] \in Cartridge
  BY RosterChangesTyped DEF IInv, TypeInv, TypeOK
<1>4. ASSUME NEW c \in Slots
      PROVE  /\ kept[c].install = cart[c].install /\ kept[c].running = cart[c].running
             /\ kept[c].reason = cart[c].reason
             /\ c \in Leaving(R) =>
                  /\ kept[c].removed
                  /\ kept[c].retiring = IF cart[c].running /\ ~Drained(c) THEN "draining" ELSE "no"
             /\ c \notin Leaving(R) /\ cart[c].retiring # "no" /\ cart[c].install \in R =>
                  ~kept[c].removed /\ kept[c].retiring = "no"
             /\ c \notin Leaving(R) /\ ~(cart[c].retiring # "no" /\ cart[c].install \in R) =>
                  kept[c].removed = cart[c].removed /\ kept[c].retiring = cart[c].retiring
  <2>1. cart[c] \in Cartridge
    BY <1>3
  <2>2. CASE c \in Leaving(R)
    <3>1. cart[c].install \notin R /\ ~cart[c].removed
      BY <2>2 DEF Leaving, Usable
    <3>2. cart[c].retiring = "no"
      BY <3>1 DEF IInv, Slotting, RetiringUnwanted
    <3>3. Retired(R)[c] = [cart[c] EXCEPT !.removed = TRUE,
                             !.retiring = IF cart[c].running /\ ~Drained(c) THEN "draining" ELSE "no"]
      BY <2>2, <3>2 DEF Retired
    <3>4. Retired(R)[c].install = cart[c].install /\ kept[c] = Retired(R)[c]
      BY <2>1, <3>1, <3>3 DEF Restored, Cartridge
    <3>5. QED  BY <2>1, <2>2, <3>3, <3>4 DEF Cartridge
  <2>3. CASE c \notin Leaving(R)
    <3>1. Retired(R)[c] = cart[c]
      BY <2>3 DEF Retired
    <3>2. kept[c] = IF cart[c].retiring # "no" /\ cart[c].install \in R
                    THEN [cart[c] EXCEPT !.retiring = "no", !.removed = FALSE] ELSE cart[c]
      BY <3>1 DEF Restored
    <3>3. QED  BY <2>1, <2>3, <3>2 DEF Cartridge
  <2>4. QED  BY <2>2, <2>3
<1>5. Cardinality(Taken(cart)) = n /\ Cardinality(Taken(kept)) = n
  BY <1>2, <1>4, TakenSlots DEF FirstSlots
<1>6. IsFiniteSet(new) /\ Cardinality(new) \in Nat /\ new \subseteq R
  BY InstallsType, FS_Subset, FS_CardinalityType
<1>7. PICK m \in Nat : m = Cardinality(new)
  BY <1>6
<1>8. /\ n \in Nat /\ MaxSlots \in Nat /\ n + m =< MaxSlots
      /\ DOMAIN s = 1..m /\ \A k \in 1..m : s[k] \in new
      /\ \A x \in new : \E k \in 1..m : s[k] = x
      /\ \A j, k \in 1..m : s[j] = s[k] => j = k
  <2>1. n \in Nat /\ MaxSlots \in Nat
    BY BoundsType
  <2>2. n + m =< MaxSlots
    BY <1>5, <1>7 DEF SyncRoster
  <2>3. /\ DOMAIN s = 1..Cardinality(new) /\ \A k \in DOMAIN s : s[k] \in new
        /\ \A x \in new : \E k \in DOMAIN s : s[k] = x
        /\ \A j, k \in DOMAIN s : s[j] = s[k] => j = k
    <3> HIDE DEF new, kept
    <3>1. QED  BY <1>6, OrdersOnce
  <2>4. QED  BY <1>7, <2>1, <2>2, <2>3
<1>9. /\ \A x \in new : x \in R /\ x \in Installs /\ x # NoInstall
                        /\ \A c \in Slots : kept[c].install = x => kept[c].removed
      /\ \A x \in R : x \in new \/ \E c \in Slots : ~kept[c].removed /\ kept[c].install = x
  <2>1. Usable(kept) = {c \in Slots : kept[c].install # NoInstall /\ ~kept[c].removed}
    BY DEF Usable
  <2>2. \A x \in R : x \in Installs /\ x # NoInstall
    BY InstallsType
  <2>3. QED  BY <2>1, <2>2
<1> HIDE DEF kept, new
<1>10. \A c \in Slots : Added(kept, s)[c] = IF n < c /\ c =< n + m THEN Registered(s[c - n]) ELSE kept[c]
  <2>1. \A c \in Slots : c \in Nat
    BY DEF Slots
  <2>2. \A c \in Nat : c - n \in 1..m <=> n < c /\ c =< n + m
    BY <1>8
  <2>3. QED  BY <1>5, <1>8, <2>1, <2>2 DEF Added
<1>11. \A c \in D : c \in Slots /\ c =< n /\ c \in Leaving(R) /\ cart[c].running /\ Drained(c)
  BY <1>2 DEF Leaving, Usable, FirstSlots
<1>12. Added(kept, s) \in [Slots -> Cartridge] /\ new \in SUBSET Installs /\ D \in SUBSET Slots
  BY <1>3, <1>6, <1>11, AddedTyped
\* What becomes of a slot: given before, given now, or not given.
<1>13. ASSUME NEW c \in Slots, c =< n
       PROVE  /\ cart'[c].install = cart[c].install /\ cart'[c].running = cart[c].running
              /\ cart'[c].removed = kept[c].removed
              /\ c \in D => cart'[c].retiring = "no" /\ cart'[c].reason = "retired"
              /\ c \notin D => cart'[c].retiring = kept[c].retiring /\ cart'[c].reason = cart[c].reason
  <2>1. Added(kept, s)[c] = kept[c] /\ kept[c] \in Cartridge
    BY <1>3, <1>8, <1>10, <1>13 DEF Slots
  <2>2. cart'[c] = IF c \in D THEN [kept[c] EXCEPT !.retiring = "no", !.reason = "retired"] ELSE kept[c]
    BY <1>1, <2>1 DEF RetireKill
  <2>3. QED  BY <1>4, <2>1, <2>2 DEF Cartridge
<1>14. ASSUME NEW c \in Slots, n < c, c =< n + m
       PROVE  /\ c - n \in 1..m /\ cart'[c].install = s[c - n] /\ cart'[c].install \in new
              /\ ~cart'[c].running /\ ~cart'[c].removed
              /\ cart'[c].retiring = "no" /\ cart'[c].reason = "none"
  <2>1. c \notin D /\ c - n \in 1..m
    BY <1>8, <1>11, <1>14 DEF Slots
  <2>2. cart'[c] = Registered(s[c - n])
    BY <1>1, <1>10, <1>14, <2>1 DEF RetireKill
  <2>3. QED  BY <1>8, <2>1, <2>2 DEF Registered
<1>15. ASSUME NEW c \in Slots, n + m < c
       PROVE  /\ cart'[c].install = NoInstall /\ ~cart'[c].running /\ ~cart'[c].removed
              /\ cart'[c].retiring = "no" /\ cart'[c].reason = cart[c].reason
  <2>1. n < c /\ c \notin D
    BY <1>8, <1>11, <1>15 DEF Slots
  <2>2. cart[c].install = NoInstall /\ ~cart[c].running /\ ~cart[c].removed /\ cart[c].retiring = "no"
    BY <1>2, <1>8, <2>1 DEF FirstSlots, IInv, Slotting, SlotsInOrder, Slots
  <2>3. c \notin Leaving(R)
    BY <2>2 DEF Leaving, Usable
  <2>4. cart'[c] = kept[c]
    <3>1. ~(c =< n + m)
      BY <1>8, <1>15 DEF Slots
    <3>2. Added(kept, s)[c] = kept[c]
      BY <1>10, <3>1
    <3>3. QED  BY <1>1, <2>1, <3>2 DEF RetireKill
  <2>5. QED  BY <1>4, <2>2, <2>3, <2>4
<1>16. \A c \in Slots : c =< n \/ (n < c /\ c =< n + m) \/ n + m < c
  BY <1>8 DEF Slots
<1>17. Lives'
  <2>1. \A c \in Slots : cart'[c].running = cart[c].running
    <3>1. \A c \in Slots : n < c => ~cart[c].running
      BY <1>2, <1>8 DEF FirstSlots, IInv, Slotting, SlotsInOrder, Slots
    <3>2. \A c \in Slots : n + m < c => n < c
      BY <1>8 DEF Slots
    <3>3. \A c \in Slots : n < c => ~cart'[c].running /\ cart[c].running = FALSE
      <4>1. SUFFICES ASSUME NEW c \in Slots, n < c PROVE ~cart'[c].running /\ cart[c].running = FALSE
        OBVIOUS
      <4>2. cart[c].running = FALSE
        BY <1>3, <3>1, <4>1 DEF Cartridge
      <4>3. CASE c =< n + m
        BY <1>14, <4>1, <4>2, <4>3
      <4>4. CASE n + m < c
        BY <1>15, <4>1, <4>2, <4>4
      <4>5. c =< n + m \/ n + m < c
        BY <1>8 DEF Slots
      <4>6. QED  BY <4>3, <4>4, <4>5
    <3>4. \A c \in Slots : cart'[c].running \in BOOLEAN
      BY <1>1, <1>12, RetireKillTyped DEF IInv, Cartridge
    <3>5. QED  BY <1>13, <1>16, <3>2, <3>3, <3>4
  <2>2. \A c \in Slots : /\ c \in D => proc'[c].state \in {"dead", "read"}
                         /\ c \notin D => proc'[c] = proc[c]
    BY <1>1, <1>11, KilledEnds DEF RetireKill, IInv
  <2>3. \A c \in Slots : c \notin D => cart'[c].reason = cart[c].reason \/ cart'[c].reason = "none"
    BY <1>13, <1>14, <1>15, <1>16
  <2>4. RunningHasProcess' /\ ReasonOfThisLife'
    BY <1>11, <2>1, <2>2, <2>3 DEF IInv, Lives, RunningHasProcess, ReasonOfThisLife
  <2>5. \A r \in Served : incoming[r] \in Slots \cup {0} /\ incoming'[r] = incoming[r]
    BY DEF SyncRoster, tables, IInv, TypeInv, TypeOK
  <2>6. EntriesRunning'
    BY <2>1, <2>5 DEF EntriesRunning, IInv, Lives, SyncRoster
  <2>7. QED  BY <2>4, <2>6 DEF Lives
<1>18. SlotsInOrder'
  <2>1. n + m \in 0..MaxSlots
    BY <1>8
  <2>2. \A c \in Slots : c =< n => cart[c].install # NoInstall
    BY <1>2 DEF FirstSlots
  <2>3. \A c \in Slots : c =< n => c =< n + m
    BY <1>8 DEF Slots
  <2>4. \A c \in Slots : n + m < c => ~(c =< n + m)
    BY <1>8 DEF Slots
  <2>5. FirstSlots(n + m)'
    BY <1>9, <1>13, <1>14, <1>15, <1>16, <2>2, <2>3, <2>4 DEF FirstSlots
  <2>6. \A c \in Slots : cart'[c].install = NoInstall => n + m < c
    BY <1>9, <1>13, <1>14, <1>16, <2>2
  <2>7. QED  BY <1>15, <2>1, <2>5, <2>6 DEF SlotsInOrder
<1>19. roster' = R /\ up' = up /\ roster = {cart[c].install : c \in capTable} /\ capTable = Usable(cart)
  BY DEF SyncRoster, IInv, Slotting, RosterFollowed
<1>20. \A c \in Slots : c =< n /\ ~kept[c].removed => cart[c].install \in R /\ Lasting(c)
  <2>1. SUFFICES ASSUME NEW c \in Slots, c =< n, ~kept[c].removed
                 PROVE  cart[c].install \in R /\ Lasting(c)
    OBVIOUS
  <2>2. cart[c].install # NoInstall
    BY <1>2, <2>1 DEF FirstSlots
  <2>3. c \notin Leaving(R)
    BY <1>4, <2>1
  <2>4. CASE cart[c].retiring # "no" /\ cart[c].install \in R
    BY <2>4 DEF Lasting
  <2>5. CASE ~(cart[c].retiring # "no" /\ cart[c].install \in R)
    BY <1>4, <2>1, <2>2, <2>3, <2>5 DEF Leaving, Usable, Lasting
  <2>6. QED  BY <2>4, <2>5
<1>21. \A c \in Slots : kept[c].retiring # "no" =>
          kept[c].removed /\ cart[c].install \notin R /\ Lasting(c)
  <2>1. SUFFICES ASSUME NEW c \in Slots, kept[c].retiring # "no"
                 PROVE  kept[c].removed /\ cart[c].install \notin R /\ Lasting(c)
    OBVIOUS
  <2>2. CASE c \in Leaving(R)
    BY <1>4, <2>2 DEF Leaving, Usable, Lasting
  <2>3. CASE c \notin Leaving(R)
    <3>1. kept[c].removed = cart[c].removed /\ cart[c].retiring # "no" /\ cart[c].install \notin R
      BY <1>4, <2>1, <2>3
    <3>2. QED  BY <3>1 DEF Lasting, IInv, Slotting, RetiringUnwanted
  <2>4. QED  BY <2>2, <2>3
<1>22. RetiringUnwanted'
  BY <1>13, <1>14, <1>15, <1>16, <1>19, <1>21 DEF RetiringUnwanted
<1>23. \A c \in Slots : c =< n /\ Lasting(c)' => Lasting(c)
  BY <1>13, <1>20, <1>21 DEF Lasting
<1>24. \A c \in Slots : c =< n /\ Lasting(c)' /\ cart'[c].install \in R => ~kept[c].removed
  BY <1>13, <1>21 DEF Lasting
<1>25. OneLasting'
  <2>1. SUFFICES ASSUME NEW c \in Slots, NEW d \in Slots, Lasting(c)', Lasting(d)',
                        cart'[c].install = cart'[d].install, cart'[c].install # NoInstall
                 PROVE  c = d
    BY DEF OneLasting
  <2>2. ASSUME NEW a \in Slots, NEW b \in Slots, Lasting(a)', a =< n, n < b, b =< n + m,
               cart'[a].install = cart'[b].install
        PROVE  FALSE
    <3>1. cart'[b].install \in new
      BY <1>14, <2>2
    <3>2. cart'[a].install = kept[a].install /\ kept[a].removed /\ cart'[a].install \in R
      BY <1>4, <1>9, <1>13, <2>2, <3>1
    <3>3. QED  BY <1>24, <2>2, <3>2
  <2>3. c =< n + m /\ d =< n + m
    BY <1>15, <1>16, <2>1, <1>8 DEF Slots
  <2>4. CASE c =< n /\ d =< n
    BY <1>13, <1>23, <2>1, <2>4 DEF IInv, Slotting, OneLasting
  <2>5. CASE n < c /\ n < d
    <3>1. s[c - n] = s[d - n] /\ c - n \in 1..m /\ d - n \in 1..m
      BY <1>14, <2>1, <2>3, <2>5
    <3>2. c - n = d - n
      BY <1>8, <3>1
    <3>3. QED  BY <1>8, <3>2 DEF Slots
  <2>6. CASE c =< n /\ n < d
    BY <2>1, <2>2, <2>3, <2>6
  <2>7. CASE n < c /\ d =< n
    BY <2>1, <2>2, <2>3, <2>7
  <2>8. \A e \in Slots : e =< n \/ n < e
    BY <1>8 DEF Slots
  <2>9. QED  BY <2>1, <2>4, <2>5, <2>6, <2>7, <2>8
<1>26. RosterFollowed'
  <2>1. capTable' = Usable(cart)'
    <3>1. \A c \in Slots : /\ Added(kept, s)[c].install = cart'[c].install
                           /\ Added(kept, s)[c].removed = cart'[c].removed
      BY <1>1, <1>12 DEF RetireKill, Cartridge
    <3>2. QED  BY <1>1, <3>1 DEF Usable
  <2>2. \A c \in capTable' : c \in Slots /\ cart'[c].install # NoInstall /\ ~cart'[c].removed
    BY <2>1 DEF Usable
  <2>3. \A c \in capTable' : cart'[c].install \in R
    <3>1. SUFFICES ASSUME NEW c \in capTable' PROVE cart'[c].install \in R
      OBVIOUS
    <3>2. CASE c =< n
      BY <1>13, <1>20, <2>2, <3>2
    <3>3. CASE n < c /\ c =< n + m
      BY <1>9, <1>14, <2>2, <3>3
    <3>4. CASE n + m < c
      BY <1>15, <2>2, <3>4
    <3>5. QED  BY <1>16, <2>2, <3>2, <3>3, <3>4
  <2>4. \A x \in R : \E c \in capTable' : cart'[c].install = x
    <3>1. SUFFICES ASSUME NEW x \in R PROVE \E c \in capTable' : cart'[c].install = x
      OBVIOUS
    <3>2. x # NoInstall
      BY InstallsType
    <3>3. CASE x \in new
      <4>1. PICK k \in 1..m : s[k] = x
        BY <1>8, <3>3
      <4>2. n + k \in Slots /\ n < n + k /\ n + k =< n + m /\ (n + k) - n = k
        BY <1>8 DEF Slots
      <4>3. cart'[n + k].install = x /\ ~cart'[n + k].removed
        BY <1>14, <4>1, <4>2
      <4>4. n + k \in capTable'
        BY <2>1, <3>2, <4>2, <4>3 DEF Usable
      <4>5. QED  BY <4>3, <4>4
    <3>4. CASE \E c \in Slots : ~kept[c].removed /\ kept[c].install = x
      <4>1. PICK c \in Slots : ~kept[c].removed /\ kept[c].install = x
        BY <3>4
      <4>2. cart[c].install = x /\ c =< n
        BY <1>2, <1>4, <3>2, <4>1 DEF FirstSlots
      <4>3. cart'[c].install = x /\ ~cart'[c].removed
        BY <1>13, <4>1, <4>2
      <4>4. c \in capTable'
        BY <2>1, <3>2, <4>3 DEF Usable
      <4>5. QED  BY <4>3, <4>4
    <3>5. QED  BY <1>9, <3>3, <3>4
  <2>5. {cart'[c].install : c \in capTable'} = roster'
    BY <1>19, <2>3, <2>4
  <2>6. \A c, d \in capTable' : cart'[c].install = cart'[d].install => c = d
    BY <1>25, <2>2 DEF OneLasting, Lasting
  <2>7. \A c \in Slots : cart'[c].removed /\ cart'[c].running =>
              cart'[c].retiring # "no" \/ cart'[c].reason # "none"
    <3>1. SUFFICES ASSUME NEW c \in Slots, cart'[c].removed, cart'[c].running
                   PROVE  cart'[c].retiring # "no" \/ cart'[c].reason # "none"
      OBVIOUS
    <3>2. c =< n
      BY <1>14, <1>15, <1>16, <3>1
    <3>3. CASE c \in D
      BY <1>13, <3>2, <3>3
    <3>4. CASE c \notin D /\ c \in Leaving(R)
      BY <1>4, <1>13, <3>1, <3>2, <3>4
    <3>5. CASE c \notin D /\ c \notin Leaving(R)
      BY <1>4, <1>13, <3>1, <3>2, <3>5 DEF IInv, Slotting, RosterFollowed, SyncRoster
    <3>6. QED  BY <3>3, <3>4, <3>5
  <2>8. QED  BY <2>1, <2>5, <2>6, <2>7 DEF RosterFollowed
<1>27. QED  BY <1>17, <1>18, <1>22, <1>25, <1>26 DEF Slotting

\* Steps that start no process, end none, and give no reason for an end.
LEMMA QuietKeeps ==
  ASSUME IInv, UNCHANGED <<up, capTable, roster>>,
         \A c \in Slots :
           /\ cart'[c].install = cart[c].install /\ cart'[c].removed = cart[c].removed
           /\ cart'[c].retiring # "no" <=> cart[c].retiring # "no"
           /\ cart'[c].running = cart[c].running /\ cart'[c].reason = cart[c].reason
           /\ proc'[c].state = "none" <=> proc[c].state = "none"
           /\ proc[c].state \in {"dead", "read"} => proc'[c].state \in {"dead", "read"},
         \A r \in Served : incoming'[r] \in {incoming[r], 0}
  PROVE  Lives' /\ Slotting'
<1>1. Lives'
  BY LivesKept DEF IInv
<1>2. Slotting'
  BY SlottingKept DEF IInv
<1>3. QED  BY <1>1, <1>2

\* A process is given a frame.
LEMMA GiveStates ==
  ASSUME NEW processes \in [Slots -> Process], NEW c \in Slots, NEW frame
  PROVE  \A d \in Slots : Give(processes, c, frame)[d].state = processes[d].state
<1>1. \A d \in Slots : processes[d] \in Process
  OBVIOUS
<1>2. \A d \in Slots : Give(processes, c, frame)[d] =
         IF d = c THEN [processes[c] EXCEPT !.pipe = Append(@, frame)] ELSE processes[d]
  BY DEF Give
<1>3. QED  BY <1>1, <1>2 DEF Process

LEMMA OutsideKeeps ==
  ASSUME IInv, Outside
  PROVE  Lives' /\ Slotting'
<1> USE DEF tables, switch, outside
<1>0. /\ proc \in [Slots -> Process] /\ cart \in [Slots -> Cartridge]
      /\ \A c \in Slots : proc[c] \in Process /\ cart[c] \in Cartridge
  BY DEF IInv, TypeInv, TypeOK
<1>1. CASE \/ \E r \in Calls : EngineRequest(r) \/ EngineBody(r)
           \/ \E r \in Calls, kind \in Kinds : EngineCancel(r, kind)
           \/ \E p \in Peers : RemoteAnswers(p)
  <2>1. UNCHANGED <<up, cart, proc, capTable, incoming, roster>>
    BY <1>1 DEF EngineRequest, EngineBody, EngineCancel, RemoteAnswers
  <2>2. QED  BY <2>1, QuietKeeps
<1>2. CASE \E c \in Slots : Crash(c) \/ Hang(c)
  <2>1. PICK c \in Slots : Crash(c) \/ Hang(c)
    BY <1>2
  <2>2. UNCHANGED <<up, cart, capTable, incoming, roster>>
    BY <2>1 DEF Crash, Hang
  <2>3. proc[c].state = "up" /\ proc'[c].state \in {"dead", "hung"}
        /\ \A d \in Slots : d # c => proc'[d] = proc[d]
    <3>1. CASE Crash(c)
      BY <1>0, <3>1 DEF Crash, Alive, Killed, Process
    <3>2. CASE Hang(c)
      BY <1>0, <3>2 DEF Hang, Alive, Process
    <3>3. QED  BY <2>1, <3>1, <3>2
  <2>4. QED  BY <2>2, <2>3, QuietKeeps
<1>3. CASE \E c \in Slots : ProbeLate(c) \/ DrainExpires(c)
  <2>1. PICK c \in Slots : ProbeLate(c) \/ DrainExpires(c)
    BY <1>3
  <2>2. UNCHANGED <<up, proc, capTable, incoming, roster>>
    BY <2>1 DEF ProbeLate, DrainExpires
  <2>3. \A d \in Slots :
           /\ cart'[d].install = cart[d].install /\ cart'[d].removed = cart[d].removed
           /\ cart'[d].retiring # "no" <=> cart[d].retiring # "no"
           /\ cart'[d].running = cart[d].running /\ cart'[d].reason = cart[d].reason
    BY <1>0, <2>1 DEF ProbeLate, DrainExpires, Cartridge
  <2>4. QED  BY <2>2, <2>3, QuietKeeps
<1>4. CASE \E c \in Slots : KillCartridge(c)
  <2>1. PICK c \in Slots : KillCartridge(c)
    BY <1>4
  <2>2. QED  BY <2>1, KillKeeps DEF KillCartridge
<1>5. CASE \E R \in SUBSET Installs : SyncRoster(R)
  BY <1>5, SyncKeeps
<1>6. QED  BY <1>1, <1>2, <1>3, <1>4, <1>5 DEF Outside

LEMMA ProcessKeeps ==
  ASSUME IInv, NEW c \in Slots, ProcessStep(c)
  PROVE  Lives' /\ Slotting'
<1> USE DEF tables, switch, outside
<1>0. /\ proc \in [Slots -> Process] /\ cart \in [Slots -> Cartridge]
      /\ proc[c] \in Process /\ cart[c] \in Cartridge
  BY DEF IInv, TypeInv, TypeOK
<1>1. CASE \/ TakeFrame(c) \/ \E p \in Peers : MakePeer(c, p) \/ EndArgument(c, p)
           \/ \E r \in Served : Respond(c, r)
  <2>1. UNCHANGED <<up, cart, capTable, incoming, roster>>
    BY <1>1 DEF TakeFrame, MakePeer, EndArgument, Respond
  <2>2. \A d \in Slots : d # c => proc'[d] = proc[d]
    BY <1>0, <1>1 DEF TakeFrame, MakePeer, EndArgument, Respond
  <2>3. proc'[c].state = proc[c].state
    <3>1. CASE TakeFrame(c)
      BY <1>0, <3>1 DEF TakeFrame, Process
    <3>2. CASE \E p \in Peers : MakePeer(c, p) \/ EndArgument(c, p)
      BY <1>0, <3>2 DEF MakePeer, EndArgument, Process
    <3>3. CASE \E r \in Served : Respond(c, r)
      BY <1>0, <3>3 DEF Respond, Process
    <3>4. QED  BY <1>1, <3>1, <3>2, <3>3
  <2>4. QED  BY <2>1, <2>2, <2>3, QuietKeeps
<1>2. CASE ReaderEof(c)
  <2>1. UNCHANGED <<up, cart, capTable, incoming, roster>>
    BY <1>2 DEF ReaderEof
  <2>2. proc[c].state = "dead" /\ proc'[c].state = "read" /\ \A d \in Slots : d # c => proc'[d] = proc[d]
    BY <1>0, <1>2 DEF ReaderEof, Process
  <2>3. QED  BY <2>1, <2>2, QuietKeeps
<1>3. CASE WriterFails(c) \/ AnswerProbe(c)
  <2>1. UNCHANGED <<up, capTable, incoming, roster>>
    BY <1>3 DEF WriterFails, AnswerProbe
  <2>2. \A d \in Slots :
           /\ cart'[d].install = cart[d].install /\ cart'[d].removed = cart[d].removed
           /\ cart'[d].retiring = cart[d].retiring
           /\ cart'[d].running = cart[d].running /\ cart'[d].reason = cart[d].reason
    BY <1>0, <1>3 DEF WriterFails, AnswerProbe, Cartridge
  <2>3. \A d \in Slots : proc'[d].state = proc[d].state
    BY <1>0, <1>3 DEF WriterFails, AnswerProbe, Process
  <2>4. QED  BY <2>1, <2>2, <2>3, QuietKeeps
<1>4. QED  BY <1>1, <1>2, <1>3 DEF ProcessStep

LEMMA RelayKeeps ==
  ASSUME IInv, RelayStep
  PROVE  Lives' /\ Slotting'
<1> USE DEF tables, switch, outside
<1>0. /\ proc \in [Slots -> Process] /\ cart \in [Slots -> Cartridge] /\ TypeInv
      /\ incoming \in [Served -> Slots \cup {0}]
      /\ \A c \in Slots : proc[c] \in Process /\ cart[c] \in Cartridge
      /\ 0 \notin Slots
  BY BoundsType DEF IInv, TypeInv, TypeOK, Slots
<1>1. CASE NoHandler \/ \E r \in Requests : Unrouted(r) \/ Undeliverable(r)
  <2>1. UNCHANGED <<up, cart, proc, capTable, roster>>
    BY <1>1 DEF NoHandler, Unrouted, Undeliverable
  <2>2. \A r \in Served : incoming'[r] \in {incoming[r], 0}
    BY <1>1 DEF NoHandler, Unrouted, Undeliverable
  <2>3. QED  BY <2>1, <2>2, QuietKeeps
<1>2. CASE Serve
  <2> DEFINE r == Head(relayIn).req
             c == First(Offering(Wants[r]))
             process == IF cart[c].running THEN proc ELSE [proc EXCEPT ![c] = NewProcess]
  <2>1. r \in Served
    BY <1>0, <1>2, TakenFrame DEF Serve
  <2>2. c \in Slots /\ c \in Offering(Wants[r])
    BY <1>0, <1>2, FirstOffering DEF Serve
  <2>3. /\ cart' = Spawned(c) /\ incoming' = [incoming EXCEPT ![r] = c]
        /\ proc' = Give(process, c, Head(relayIn)) /\ up /\ UNCHANGED <<up, capTable, roster>>
    BY <1>2 DEF Serve, Takes
  <2>4. c \in Usable(cart)
    BY <2>2, <2>3 DEF Offering, IInv, Slotting, RosterFollowed
  <2> HIDE DEF c, r
  <2>5. \A d \in Slots :
           /\ cart'[d].install = cart[d].install /\ cart'[d].removed = cart[d].removed
           /\ cart'[d].retiring = cart[d].retiring /\ cart'[d].reason = cart[d].reason
           /\ cart'[d].running = (d = c \/ cart[d].running)
    BY <1>0, <2>2, <2>3 DEF Spawned, Cartridge
  <2>6. process \in [Slots -> Process] /\ \A d \in Slots :
           /\ d # c => process[d] = proc[d]
           /\ process[c].state = IF cart[c].running THEN proc[c].state ELSE "up"
    BY <1>0, <2>2, ProcessesTyped DEF NewProcess, NoProcess
  <2>7. \A d \in Slots : proc'[d].state = IF d = c /\ ~cart[c].running THEN "up" ELSE proc[d].state
    BY <2>2, <2>3, <2>6, GiveStates
  <2>8. Slotting'
    BY <2>3, <2>4, <2>5, SlottingKept DEF IInv
  <2>9. RunningHasProcess' /\ ReasonOfThisLife'
    BY <2>5, <2>7 DEF IInv, Lives, RunningHasProcess, ReasonOfThisLife
  <2>10. EntriesRunning'
    <3>1. SUFFICES ASSUME NEW q \in Served, incoming'[q] # 0 PROVE cart'[incoming'[q]].running
      BY DEF EntriesRunning
    <3>2. CASE q = r
      BY <1>0, <2>2, <2>3, <2>5, <3>2
    <3>3. CASE q # r
      <4>1. incoming'[q] = incoming[q] /\ incoming[q] \in Slots
        BY <1>0, <2>3, <3>1, <3>3
      <4>2. cart[incoming[q]].running
        BY <2>3, <3>1, <4>1 DEF IInv, Lives, EntriesRunning
      <4>3. QED  BY <2>5, <4>1, <4>2
    <3>4. QED  BY <3>2, <3>3
  <2>11. QED  BY <2>8, <2>9, <2>10 DEF Lives
<1>3. CASE ServeFails
  BY <1>3, StopKeeps DEF ServeFails
<1>4. CASE CancelRequest
  <2> DEFINE c == incoming[Head(relayIn).req]
  <2>1. UNCHANGED <<up, cart, capTable, incoming, roster>>
    BY <1>4 DEF CancelRequest
  <2>2. Head(relayIn).req \in Served
    BY <1>0, <1>4, TakenFrame DEF CancelRequest
  <2>3. c \in Slots \cup {0} /\ (proc' = proc \/ (c # 0 /\ proc' = Give(proc, c, Head(relayIn))))
    BY <1>0, <1>4, <2>2 DEF CancelRequest
  <2> HIDE DEF c
  <2>4. \A d \in Slots : proc'[d].state = proc[d].state
    BY <1>0, <2>3, GiveStates
  <2>5. QED  BY <2>1, <2>4, QuietKeeps
<1>5. CASE ForceKill
  <2> DEFINE c == incoming[Head(relayIn).req]
  <2>1. up /\ Head(relayIn).req \in Served /\ UNCHANGED <<up, capTable, incoming, roster>>
    <3>1. Head(relayIn).req \in Served
      BY <1>0, <1>5, TakenFrame DEF ForceKill
    <3>2. QED  BY <1>5, <3>1 DEF ForceKill, Takes
  <2>2. CASE c = 0
    BY <1>5, <2>1, <2>2, QuietKeeps DEF ForceKill
  <2>3. CASE c # 0
    <3>1. c \in Slots /\ cart[c].running
      BY <1>0, <2>1, <2>3 DEF IInv, Lives, EntriesRunning
    <3>2. cart' = [cart EXCEPT ![c].reason = "cancelled"] /\ proc' = Kill(proc, c)
      BY <1>5, <2>3 DEF ForceKill
    <3> HIDE DEF c
    <3>3. QED  BY <2>1, <3>1, <3>2, KillKeeps
  <2>4. QED  BY <2>2, <2>3
<1>6. CASE \E r \in Requests : Deliver(r)
  <2>1. PICK r \in Requests : Deliver(r)
    BY <1>6
  <2> DEFINE c == IF ToServer(r) THEN Server(r) ELSE Maker(r)
  <2>2. c \in Slots /\ (ToServer(r) => r \in Served)
    BY <2>1 DEF Deliver, ToServer, ToMaker, Server, Maker, IInv, TypeInv, TypeOK
  <2>3. proc' = Give(proc, c, Head(relayIn)) /\ UNCHANGED <<up, cart, capTable, roster>>
    BY <2>1 DEF Deliver
  <2> HIDE DEF c
  <2>4. \A d \in Slots : proc'[d].state = proc[d].state
    BY <1>0, <2>2, <2>3, GiveStates
  <2>5. \A q \in Served : incoming'[q] \in {incoming[q], 0}
    BY <1>0, <2>1 DEF Deliver
  <2>6. QED  BY <2>3, <2>4, <2>5, QuietKeeps
<1>7. QED  BY <1>1, <1>2, <1>3, <1>4, <1>5, <1>6 DEF RelayStep

LEMMA EventKeeps ==
  ASSUME IInv, EventStep
  PROVE  Lives' /\ Slotting'
<1> USE DEF tables, switch, outside
<1>0. TypeInv /\ incoming \in [Served -> Slots \cup {0}]
  BY DEF IInv, TypeInv, TypeOK
<1>1. CASE OldEvent \/ HearRequest \/ HearBody
  <2>1. UNCHANGED <<up, cart, proc, capTable, incoming, roster>>
    BY <1>1 DEF OldEvent, HearRequest, HearBody
  <2>2. QED  BY <2>1, QuietKeeps
<1>2. CASE HearResponse
  <2>1. UNCHANGED <<up, cart, proc, capTable, roster>>
    BY <1>2 DEF HearResponse
  <2>2. \A r \in Served : incoming'[r] \in {incoming[r], 0}
    BY <1>0, <1>2 DEF HearResponse, Release
  <2>3. QED  BY <2>1, <2>2, QuietKeeps
<1>3. CASE HearDeath
  <2>1. {Head(events).slot} \in SUBSET Slots
    BY <1>0, <1>3, HeardEvent DEF HearDeath
  <2>2. up /\ Bury(cart, {Head(events).slot}) /\ UNCHANGED <<up, roster>>
    BY <1>3 DEF HearDeath, Hears
  <2>3. QED  BY <2>1, <2>2, BuryKeeps
<1>4. QED  BY <1>1, <1>2, <1>3 DEF EventStep

LEMMA TimersKeep ==
  ASSUME IInv, Timers
  PROVE  Lives' /\ Slotting'
<1> USE DEF tables, switch, outside
<1>1. CASE HeartbeatTick
  <2>1. Late \in SUBSET Slots /\ Bury(cart, Late) /\ up /\ UNCHANGED <<up, roster>>
    BY <1>1 DEF HeartbeatTick, Late
  <2>2. QED  BY <2>1, BuryKeeps
<1>2. CASE ReapDrained
  <2> DEFINE carts == [c \in Slots |-> IF c \in Ready THEN [cart[c] EXCEPT !.retiring = "no"] ELSE cart[c]]
             D == {c \in Ready : cart[c].running}
  <2>1. carts \in [Slots -> Cartridge] /\ \A c \in Slots : carts[c] \in Cartridge /\ cart[c] \in Cartridge
    BY CartridgeParts DEF IInv, TypeInv, TypeOK
  <2>2. D \in SUBSET Slots /\ \A c \in D : c \in Ready /\ cart[c].running
    BY DEF Ready
  <2>3. RetireKill(carts, D) /\ UNCHANGED <<up, capTable, incoming, roster>>
    BY <1>2 DEF ReapDrained
  <2>4. \A c \in Slots :
           /\ carts[c].install = cart[c].install /\ carts[c].removed = cart[c].removed
           /\ carts[c].running = cart[c].running /\ carts[c].reason = cart[c].reason
           /\ c \in Ready => carts[c].retiring = "no"
           /\ c \notin Ready => carts[c].retiring = cart[c].retiring
    BY <2>1 DEF Cartridge
  <2>5. \A c \in Ready : cart[c].retiring # "no"
    BY DEF Ready
  <2>6. \A c \in Slots : c \in Ready /\ cart[c].running => c \in D
    OBVIOUS
  <2> HIDE DEF carts, D
  <2>7. Lives'
    BY <2>1, <2>2, <2>3, <2>4, RetireKillLives
  <2>8. \A c \in Slots :
           /\ cart'[c].install = cart[c].install /\ cart'[c].removed = cart[c].removed
           /\ cart'[c].running = cart[c].running
           /\ c \in D => cart'[c].reason = "retired"
           /\ c \notin D => cart'[c].reason = cart[c].reason
           /\ c \in Ready => cart'[c].retiring = "no"
           /\ c \notin Ready => cart'[c].retiring = cart[c].retiring
    <3>1. SUFFICES ASSUME NEW c \in Slots
                   PROVE  /\ cart'[c].install = cart[c].install /\ cart'[c].removed = cart[c].removed
                          /\ cart'[c].running = cart[c].running
                          /\ c \in D => cart'[c].reason = "retired"
                          /\ c \notin D => cart'[c].reason = cart[c].reason
                          /\ c \in Ready => cart'[c].retiring = "no"
                          /\ c \notin Ready => cart'[c].retiring = cart[c].retiring
      OBVIOUS
    <3>2. cart'[c] = IF c \in D THEN [carts[c] EXCEPT !.retiring = "no", !.reason = "retired"] ELSE carts[c]
      BY <2>3 DEF RetireKill
    <3>3. carts[c] \in Cartridge
      BY <2>1
    <3>4. QED  BY <2>2, <2>4, <3>2, <3>3 DEF Cartridge
  <2>9. SlotsInOrder'
    <3>1. PICK n \in 0..MaxSlots : FirstSlots(n)
      BY DEF IInv, Slotting, SlotsInOrder
    <3>2. FirstSlots(n)'
      BY <2>8, <3>1 DEF FirstSlots
    <3>3. QED  BY <2>8, <3>2 DEF IInv, Slotting, SlotsInOrder
  <2>10. RetiringUnwanted' /\ OneLasting'
    BY <2>3, <2>8 DEF IInv, Slotting, RetiringUnwanted, OneLasting, Lasting
  <2>11. RosterFollowed'
    <3> SUFFICES ASSUME up' PROVE RosterFollowed'
      BY DEF RosterFollowed
    <3>1. up /\ Usable(cart)' = Usable(cart) /\ capTable' = capTable
      BY <2>3, <2>8 DEF Usable
    <3>2. /\ capTable = Usable(cart) /\ {cart[c].install : c \in capTable} = roster
          /\ \A c, d \in capTable : cart[c].install = cart[d].install => c = d
          /\ \A c \in Slots : cart[c].removed /\ cart[c].running =>
                cart[c].retiring # "no" \/ cart[c].reason # "none"
      BY <3>1 DEF IInv, Slotting, RosterFollowed
    <3>3. \A c \in capTable : c \in Slots
      BY <3>2 DEF Usable
    <3>4. {cart'[c].install : c \in capTable} = {cart[c].install : c \in capTable}
      BY <2>8, <3>3
    <3>5. \A c \in Slots : cart'[c].removed /\ cart'[c].running =>
                cart'[c].retiring # "no" \/ cart'[c].reason # "none"
      BY <2>6, <2>8, <3>2
    <3>6. QED  BY <2>3, <2>8, <3>1, <3>2, <3>3, <3>4, <3>5 DEF RosterFollowed
  <2>12. QED  BY <2>7, <2>9, <2>10, <2>11 DEF Slotting
<1>3. QED  BY <1>1, <1>2 DEF Timers

LEMMA InitInvariant ==
  ASSUME Init
  PROVE  IInv
<1>1. PICK n \in 0..MaxSlots : /\ FirstRoster \in [1..n -> Installs]
                               /\ \A c, d \in 1..n : FirstRoster[c] = FirstRoster[d] => c = d
  BY FirstRosterType
<1>2. n \in Nat /\ DOMAIN FirstRoster = 1..n /\ \A c \in Slots : c \in 1..n <=> c =< n
  BY <1>1, BoundsType DEF Slots
<1>3. \A c \in 1..n : c \in Slots /\ FirstRoster[c] \in Installs /\ FirstRoster[c] # NoInstall
  BY <1>1, InstallsType, BoundsType DEF Slots
<1>4. \A c \in Slots :
        /\ cart[c].install = (IF c \in 1..n THEN FirstRoster[c] ELSE NoInstall)
        /\ ~cart[c].running /\ ~cart[c].removed /\ cart[c].retiring = "no" /\ cart[c].reason = "none"
        /\ proc[c].state = "none"
  BY <1>2 DEF Init, Registered, NoProcess
<1>5. Lives
  BY <1>4 DEF Init, Lives, RunningHasProcess, EntriesRunning, ReasonOfThisLife
<1>6. SlotsInOrder /\ RetiringUnwanted /\ OneLasting
  <2>1. FirstSlots(n)
    BY <1>2, <1>3, <1>4 DEF FirstSlots
  <2>2. QED  BY <1>1, <1>2, <1>4, <2>1 DEF SlotsInOrder, RetiringUnwanted, OneLasting
<1>7. RosterFollowed
  <2>1. capTable = 1..n /\ roster = {FirstRoster[c] : c \in 1..n}
    BY <1>2 DEF Init
  <2>2. capTable = Usable(cart)
    BY <1>3, <1>4, <2>1 DEF Usable
  <2>3. {cart[c].install : c \in capTable} = roster
    BY <1>3, <1>4, <2>1
  <2>4. QED  BY <1>1, <1>3, <1>4, <2>1, <2>2, <2>3 DEF RosterFollowed
<1>8. QED  BY <1>5, <1>6, <1>7, InitTyped DEF IInv, Slotting

THEOREM Invariant == Spec => []IInv
<1>1. Init => IInv
  BY InitInvariant
<1>2. IInv /\ [Next]_vars => IInv'
  <2> SUFFICES ASSUME IInv, [Next]_vars PROVE IInv'
    OBVIOUS
  <2>1. CASE UNCHANGED vars
    <3>1. UNCHANGED <<up, cart, proc, capTable, incoming, roster>>
      BY <2>1 DEF vars, tables
    <3>2. Lives' /\ Slotting'
      BY <3>1, QuietKeeps
    <3>3. TypeInv'
      BY <2>1 DEF vars, tables, switch, outside, IInv, TypeInv, TypeOK, LiveServed
    <3>4. QED  BY <3>2, <3>3 DEF IInv
  <2>2. CASE Next
    <3>1. TypeInv'
      BY <2>2, RelayTyped, EventTyped, TimersTyped, OutsideTyped, ProcessTyped DEF Next, IInv
    <3>2. Lives' /\ Slotting'
      BY <2>2, RelayKeeps, EventKeeps, TimersKeep, OutsideKeeps, ProcessKeeps DEF Next
    <3>3. QED  BY <3>1, <3>2 DEF IInv
  <2>3. QED  BY <2>1, <2>2
<1>3. QED  BY <1>1, <1>2, PTL DEF Spec

\* Whatever rosters arrive while processes drain, die and are spawned: the caps on
\* offer are those of the roster, each install's once, and a process that is no
\* longer on offer drains or was killed (sync_roster, update_cap_table).
THEOREM RosterFollowedAlways == Spec => []RosterFollowed
<1>1. IInv => RosterFollowed
  BY DEF IInv, Slotting
<1>2. QED  BY <1>1, Invariant, PTL

\* The reason kept for a process' end is of the process that is ending: a later
\* crash is not attributed to an old cancel, retirement or kill.
THEOREM ReasonOfThisLifeAlways == Spec => []ReasonOfThisLife
<1>1. IInv => ReasonOfThisLife
  BY DEF IInv, Lives
<1>2. QED  BY <1>1, Invariant, PTL

\* A sync gives no reason but the retired ones.
LEMMA KeptReason ==
  ASSUME TypeInv, NEW R, NEW c \in Slots
  PROVE  Restored(Retired(R), R)[c].reason = cart[c].reason
<1>1. cart[c] \in Cartridge
  BY DEF TypeInv, TypeOK
<1>2. Retired(R)[c] \in {cart[c], [cart[c] EXCEPT !.removed = TRUE, !.retiring = "draining"],
                         [cart[c] EXCEPT !.removed = TRUE, !.retiring = cart[c].retiring]}
  BY DEF Retired
<1>3. PICK x : x = Retired(R)[c]
  OBVIOUS
<1>4. x \in Cartridge /\ x.reason = cart[c].reason
  BY <1>1, <1>2, <1>3 DEF Cartridge
<1>5. Restored(Retired(R), R)[c] \in {x, [x EXCEPT !.retiring = "no", !.removed = FALSE]}
  BY <1>3 DEF Restored
<1>6. QED  BY <1>4, <1>5 DEF Cartridge

\* The roster kills a process only if its install is not wanted, and only when
\* nothing is in flight or the drain has run out of time (retire_kill).
THEOREM DrainSparedAlways == Spec => DrainSpared
<1> DEFINE Spared == \A c \in Slots : cart'[c].reason = "retired" /\ cart[c].reason # "retired" =>
                        /\ cart[c].install \notin roster'
                        /\ Drained(c) \/ cart[c].retiring = "expired"
<1>1. IInv /\ [Next]_vars => [Spared]_vars
  <2> SUFFICES ASSUME IInv, Next, NEW c \in Slots,
                      cart'[c].reason = "retired", cart[c].reason # "retired"
               PROVE  /\ cart[c].install \notin roster'
                      /\ Drained(c) \/ cart[c].retiring = "expired"
    BY DEF vars
  <2>0. /\ cart \in [Slots -> Cartridge] /\ cart[c] \in Cartridge
        /\ \A d \in Slots : cart[d] \in Cartridge
    BY DEF IInv, TypeInv, TypeOK
  <2>1. CASE \E R \in SUBSET Installs : SyncRoster(R)
    <3>1. PICK R \in SUBSET Installs : SyncRoster(R)
      BY <2>1
    <3> DEFINE kept == Restored(Retired(R), R)
               new == R \ {kept[d].install : d \in Usable(kept)}
               D == {d \in Leaving(R) : cart[d].running /\ Drained(d)}
    <3>2. PICK s \in Orders(new) : RetireKill(Added(kept, s), D)
      BY <3>1 DEF SyncRoster
    <3>3. c \in D
      <4>1. SUFFICES ASSUME c \notin D PROVE FALSE
        OBVIOUS
      <4>2. cart'[c] = Added(kept, s)[c]
        BY <3>2, <4>1 DEF RetireKill
      <4>3. Added(kept, s)[c] = kept[c] \/ \E i : Added(kept, s)[c] = Registered(i)
        BY DEF Added
      <4>4. kept[c].reason = cart[c].reason
        BY KeptReason DEF IInv
      <4>5. \A i : Registered(i).reason = "none"
        BY DEF Registered
      <4> HIDE DEF kept
      <4>6. QED  BY <2>0, <4>2, <4>3, <4>4, <4>5
    <3>4. QED  BY <3>1, <3>3 DEF Leaving, SyncRoster
  <2>2. CASE ReapDrained
    <3> DEFINE carts == [d \in Slots |-> IF d \in Ready THEN [cart[d] EXCEPT !.retiring = "no"] ELSE cart[d]]
               D == {d \in Ready : cart[d].running}
    <3>1. RetireKill(carts, D) /\ roster' = roster
      BY <2>2 DEF ReapDrained
    <3>2. carts[c].reason = cart[c].reason
      BY <2>0 DEF Cartridge
    <3>3. c \in D
      BY <3>1, <3>2 DEF RetireKill
    <3>4. cart[c].install \notin roster'
      BY <3>1, <3>3 DEF Ready, IInv, Slotting, RetiringUnwanted
    <3>5. QED  BY <3>3, <3>4 DEF Ready
  <2>3. CASE RelayStep \/ EventStep \/ HeartbeatTick
    <3>1. cart'[c].reason \in {cart[c].reason, "none", "cancelled"}
      <4>1. CASE Serve
        BY <2>0, <4>1 DEF Serve, Spawned, Cartridge
      <4>2. CASE ServeFails
        BY <2>0, <4>2 DEF ServeFails, Stop, Cartridge
      <4>3. CASE ForceKill
        BY <2>0, <4>3 DEF ForceKill, Cartridge
      <4>4. CASE HearDeath \/ HeartbeatTick
        <5>1. cart'[c] = cart[c] \/
              cart'[c] = [cart[c] EXCEPT !.running = FALSE, !.generation = @ + 1, !.reason = "none",
                                         !.late = FALSE, !.writer = "open"]
          BY <4>4 DEF HearDeath, HeartbeatTick, Bury, Buried
        <5>2. QED  BY <2>0, <5>1 DEF Cartridge
      <4>5. CASE NoHandler \/ CancelRequest
        BY <4>5 DEF NoHandler, CancelRequest
      <4>8. CASE \E r \in Requests : Unrouted(r) \/ Deliver(r) \/ Undeliverable(r)
        <5>1. PICK r \in Requests : Unrouted(r) \/ Deliver(r) \/ Undeliverable(r)
          BY <4>8
        <5>2. CASE Unrouted(r)
          BY <5>2 DEF Unrouted
        <5>3. CASE Deliver(r)
          BY <5>3 DEF Deliver
        <5>4. CASE Undeliverable(r)
          BY <5>4 DEF Undeliverable
        <5>5. QED  BY <5>1, <5>2, <5>3, <5>4
      <4>6. CASE OldEvent \/ HearRequest \/ HearBody \/ HearResponse
        BY <4>6 DEF OldEvent, HearRequest, HearBody, HearResponse
      <4>7. QED  BY <2>3, <4>1, <4>2, <4>3, <4>4, <4>5, <4>6, <4>8 DEF RelayStep, EventStep
    <3>2. QED  BY <3>1
  <2>4. CASE \E d \in Slots : ProcessStep(d)
    <3>1. PICK d \in Slots : ProcessStep(d)
      BY <2>4
    <3>2. CASE WriterFails(d) \/ AnswerProbe(d)
      <4>1. CASE WriterFails(d)
        BY <2>0, <4>1 DEF WriterFails, Cartridge
      <4>2. CASE AnswerProbe(d)
        BY <2>0, <4>2 DEF AnswerProbe, Cartridge
      <4>3. QED  BY <3>2, <4>1, <4>2
    <3>3. CASE TakeFrame(d) \/ ReaderEof(d)
      BY <3>3 DEF TakeFrame, ReaderEof
    <3>4. CASE \E p \in Peers : MakePeer(d, p) \/ EndArgument(d, p)
      BY <3>4 DEF MakePeer, EndArgument
    <3>5. CASE \E r \in Served : Respond(d, r)
      BY <3>5 DEF Respond
    <3>6. QED  BY <3>1, <3>2, <3>3, <3>4, <3>5 DEF ProcessStep
  <2>5. CASE \/ \E r \in Calls : EngineRequest(r) \/ EngineBody(r)
             \/ \E r \in Calls, kind \in Kinds : EngineCancel(r, kind)
             \/ \E p \in Peers : RemoteAnswers(p)
    BY <2>5 DEF EngineRequest, EngineBody, EngineCancel, RemoteAnswers
  <2>6. CASE \E d \in Slots : Crash(d) \/ Hang(d) \/ ProbeLate(d) \/ KillCartridge(d) \/ DrainExpires(d)
    BY <2>0, <2>6 DEF Crash, Hang, ProbeLate, KillCartridge, DrainExpires, Cartridge
  <2>7. QED  BY <2>1, <2>2, <2>3, <2>4, <2>5, <2>6 DEF Next, Timers, Outside
<1>2. QED  BY <1>1, Invariant, PTL DEF Spec, DrainSpared


-----------------------------------------------------------------------------
(* Queues. What a queue holds is a set; the order matters only between two     *)
(* frames: every occurrence of one comes before those of the other.            *)
In(s) == {s[k] : k \in DOMAIN s}
Before(s, f, g) == \A j, k \in DOMAIN s : s[j] = f /\ s[k] = g => j =< k

\* A queue s becomes t: what it has at its head, H, is taken, the rest M stays,
\* and N is put behind it, bodies before responses.
Fits(f, g, M, N) ==
  /\ f \in N => g \notin M
  /\ f \in N /\ g \in N => f = g \/ (f.kind = "BODY" /\ g.kind = "RESPONSE")
Moved(s, t, H, M, N) ==
  /\ In(s) = H \cup M /\ In(t) = M \cup N
  /\ \A f, g : Before(s, f, g) /\ g \in H => f \notin M
  /\ \A f, g : Before(s, f, g) /\ Fits(f, g, M, N) => Before(t, f, g)

LEMMA QueuedIn ==
  ASSUME NEW s, NEW f
  PROVE  Queued(s, f) <=> f \in In(s)
  BY DEF Queued, In

LEMMA MovedNot ==
  ASSUME NEW s
  PROVE  Moved(s, s, {}, In(s), {})
  BY DEF Moved, Fits

LEMMA ConcatMoved ==
  ASSUME NEW T, NEW s \in Seq(T), NEW t \in Seq(T), NEW N, In(t) = N,
         \A f, g \in N : f = g \/ (f.kind = "BODY" /\ g.kind = "RESPONSE") => Before(t, f, g)
  PROVE  Moved(s, s \o t, {}, In(s), N)
<1> DEFINE u == s \o t
<1>1. /\ Len(u) = Len(s) + Len(t) /\ Len(s) \in Nat /\ Len(t) \in Nat
      /\ DOMAIN s = 1..Len(s) /\ DOMAIN t = 1..Len(t) /\ DOMAIN u = 1..Len(u)
  BY ConcatProperties, LenProperties
<1>2. \A k \in DOMAIN s : k \in DOMAIN u /\ u[k] = s[k]
  BY <1>1, ConcatProperties
<1>3. \A k \in DOMAIN u : k \notin DOMAIN s => k - Len(s) \in DOMAIN t /\ u[k] = t[k - Len(s)]
  BY <1>1, ConcatProperties
<1>4. \A k \in DOMAIN t : k + Len(s) \in DOMAIN u /\ u[k + Len(s)] = t[k]
  <2>1. ASSUME NEW k \in DOMAIN t PROVE k + Len(s) \in DOMAIN u /\ u[k + Len(s)] = t[k]
    <3>1. k + Len(s) \in DOMAIN u /\ k + Len(s) \notin DOMAIN s /\ (k + Len(s)) - Len(s) = k
      BY <1>1
    <3>2. QED  BY <1>3, <3>1
  <2>2. QED  BY <2>1
<1> HIDE DEF u
<1>5. In(u) = In(s) \cup N
  <2>1. In(u) = In(s) \cup In(t)
    BY <1>2, <1>3, <1>4 DEF In
  <2>2. QED  BY <2>1
<1>6. ASSUME NEW f, NEW g, Before(s, f, g), Fits(f, g, In(s), N)
      PROVE  Before(u, f, g)
  <2>1. SUFFICES ASSUME NEW j \in DOMAIN u, NEW k \in DOMAIN u, u[j] = f, u[k] = g
                 PROVE  j =< k
    BY DEF Before
  <2>2. CASE j \in DOMAIN s /\ k \in DOMAIN s
    BY <1>2, <1>6, <2>1, <2>2 DEF Before
  <2>3. CASE j \in DOMAIN s /\ k \notin DOMAIN s
    BY <1>1, <2>3
  <2>4. CASE j \notin DOMAIN s /\ k \in DOMAIN s
    <3>1. f \in N
      BY <1>3, <2>1, <2>4 DEF In
    <3>2. g \in In(s)
      BY <1>2, <2>1, <2>4 DEF In
    <3>3. QED  BY <1>6, <3>1, <3>2 DEF Fits
  <2>5. CASE j \notin DOMAIN s /\ k \notin DOMAIN s
    <3>1. f \in N /\ g \in N
      BY <1>3, <2>1, <2>5 DEF In
    <3>2. Before(t, f, g)
      BY <1>6, <3>1 DEF Fits
    <3>3. j - Len(s) =< k - Len(s)
      BY <1>3, <2>1, <2>5, <3>2 DEF Before
    <3>4. QED  BY <1>1, <3>3
  <2>6. QED  BY <2>2, <2>3, <2>4, <2>5
<1>7. QED  BY <1>5, <1>6 DEF Moved, u

LEMMA AppendMoved ==
  ASSUME NEW T, NEW s \in Seq(T), NEW x \in T
  PROVE  Moved(s, Append(s, x), {}, In(s), {x})
<1>1. <<x>> \in Seq(T) /\ Append(s, x) = s \o <<x>>
  OBVIOUS
<1>2. In(<<x>>) = {x} /\ \A f, g \in {x} : Before(<<x>>, f, g)
  BY DEF In, Before
<1>3. QED  BY <1>1, <1>2, ConcatMoved

LEMMA TailMoved ==
  ASSUME NEW T, NEW s \in Seq(T), s # <<>>
  PROVE  Moved(s, Tail(s), {Head(s)}, In(Tail(s)), {})
<1> DEFINE t == Tail(s)
<1>1. /\ Len(s) \in Nat \ {0} /\ t \in Seq(T) /\ Len(t) = Len(s) - 1
      /\ DOMAIN s = 1..Len(s) /\ DOMAIN t = 1..Len(t)
  BY EmptySeq, HeadTailProperties, LenProperties
<1>2. Head(s) = s[1] /\ \A k \in DOMAIN t : k + 1 \in DOMAIN s /\ t[k] = s[k + 1]
  BY <1>1, HeadTailProperties
<1>3. \A k \in DOMAIN s : k = 1 \/ (k - 1 \in DOMAIN t /\ s[k] = t[k - 1])
  <2>1. ASSUME NEW k \in DOMAIN s, k # 1 PROVE k - 1 \in DOMAIN t /\ s[k] = t[k - 1]
    <3>1. k - 1 \in DOMAIN t /\ (k - 1) + 1 = k
      BY <1>1, <2>1
    <3>2. QED  BY <1>2, <3>1
  <2>2. QED  BY <2>1
<1> HIDE DEF t
<1>4. In(s) = {Head(s)} \cup In(t)
  <2>1. 1 \in DOMAIN s
    BY <1>1
  <2>2. QED  BY <1>2, <1>3, <2>1 DEF In
<1>5. ASSUME NEW f, NEW g, Before(s, f, g), g = Head(s), f \in In(t) PROVE FALSE
  <2>1. PICK k \in DOMAIN t : t[k] = f
    BY <1>5 DEF In
  <2>2. k + 1 \in DOMAIN s /\ s[k + 1] = f /\ 1 \in DOMAIN s /\ s[1] = g
    BY <1>1, <1>2, <1>5, <2>1
  <2>3. k + 1 =< 1
    BY <1>5, <2>2 DEF Before
  <2>4. QED  BY <1>1, <2>3
<1>6. ASSUME NEW f, NEW g, Before(s, f, g) PROVE Before(t, f, g)
  <2>1. SUFFICES ASSUME NEW j \in DOMAIN t, NEW k \in DOMAIN t, t[j] = f, t[k] = g PROVE j =< k
    BY DEF Before
  <2>2. j + 1 =< k + 1
    BY <1>2, <1>6, <2>1 DEF Before
  <2>3. QED  BY <1>1, <2>2
<1>7. QED  BY <1>4, <1>5, <1>6 DEF Moved, t

LEMMA MovedOn ==
  ASSUME NEW s, NEW t, NEW u, NEW H, NEW M, NEW N, Moved(s, t, H, M, {}), Moved(t, u, {}, M, N)
  PROVE  Moved(s, u, H, M, N)
  BY DEF Moved, Fits

LEMMA OrdersMoved ==
  ASSUME NEW T, NEW S \in SUBSET T, IsFiniteSet(S), NEW s \in Orders(S)
  PROVE  /\ s \in Seq(T) /\ In(s) = S
         /\ \A f : Before(s, f, f)
<1>1. /\ s \in Seq(T) /\ DOMAIN s = 1..Cardinality(S) /\ \A k \in DOMAIN s : s[k] \in S
      /\ \A x \in S : \E k \in DOMAIN s : s[k] = x
  BY OrdersOf
<1>2. In(s) = S
  BY <1>1 DEF In
<1>3. Cardinality(S) \in Nat
  BY FS_CardinalityType
<1>4. s \in Surjection(1..Cardinality(S), S)
  BY <1>1 DEF Surjection, Orders
<1>5. IsFiniteSet(1..Cardinality(S)) /\ Cardinality(1..Cardinality(S)) = Cardinality(S)
  BY <1>3, FS_Interval
<1>6. s \in Injection(1..Cardinality(S), S)
  BY <1>4, <1>5, FS_SurjSameCardinalityImpliesInj
<1>7. \A j, k \in DOMAIN s : s[j] = s[k] => j = k
  BY <1>1, <1>6 DEF Injection, IsInjective
<1>8. QED  BY <1>1, <1>2, <1>3, <1>7 DEF Before

-----------------------------------------------------------------------------
(* What a step does to the queues                                            *)
Rel == In(relayIn)
Pipe(c) == In(proc[c].pipe)
Ev == In(events)
Tells(c, frame) == Event(c, frame) \in Ev
Said(frame) == \E e \in Ev : e.frame = frame

LEMMA Typed ==
  ASSUME TypeInv
  PROVE  /\ relayIn \in Seq(Frames) /\ events \in Seq(Events)
         /\ Rel \subseteq Frames /\ Ev \subseteq Events
         /\ \A c \in Slots : /\ proc[c] \in Process /\ proc[c].pipe \in Seq(Frames)
                             /\ Pipe(c) \subseteq Frames /\ cart[c] \in Cartridge
<1>1. relayIn \in Seq(Frames) /\ events \in Seq(Events)
  BY DEF TypeInv, TypeOK, Events
<1>2. Rel \subseteq Frames
  BY <1>1, ElementOfSeq DEF Rel, In
<1>3. Ev \subseteq Events
  BY <1>1, ElementOfSeq DEF Ev, In
<1>4. ASSUME NEW c \in Slots
      PROVE  /\ proc[c] \in Process /\ proc[c].pipe \in Seq(Frames)
             /\ Pipe(c) \subseteq Frames /\ cart[c] \in Cartridge
  <2>1. proc[c] \in Process /\ cart[c] \in Cartridge
    BY DEF TypeInv, TypeOK
  <2>2. proc[c].pipe \in Seq(Frames)
    BY <2>1 DEF Process
  <2>3. Pipe(c) \subseteq Frames
    BY <2>2, ElementOfSeq DEF Pipe, In
  <2>4. QED  BY <2>1, <2>2, <2>3
<1>5. QED  BY <1>1, <1>2, <1>3, <1>4

LEMMA RelayAdds ==
  ASSUME TypeInv, NEW f \in Frames, relayIn' = Append(relayIn, f)
  PROVE  Moved(relayIn, relayIn', {}, Rel, {f}) /\ Rel' = Rel \cup {f}
<1>1. Moved(relayIn, relayIn', {}, Rel, {f})
  BY Typed, AppendMoved DEF Rel
<1>2. QED  BY <1>1 DEF Moved, Rel

LEMMA RelayTakes ==
  ASSUME TypeInv, NEW kinds, Takes(kinds), relayIn' = Tail(relayIn)
  PROVE  Moved(relayIn, relayIn', {Head(relayIn)}, Rel', {}) /\ Rel = {Head(relayIn)} \cup Rel'
<1>1. Moved(relayIn, relayIn', {Head(relayIn)}, Rel', {})
  BY Typed, TailMoved DEF Rel, Takes
<1>2. QED  BY <1>1 DEF Moved, Rel

\* The frames of S, all of one kind, are put behind the relay's stream, or
\* behind what is left of it.
LEMMA OneKind ==
  ASSUME NEW kind, NEW S \in SUBSET Frames, IsFiniteSet(S), \A f \in S : f.kind = kind, NEW s \in Orders(S)
  PROVE  /\ s \in Seq(Frames) /\ In(s) = S
         /\ \A f, g \in S : f = g \/ (f.kind = "BODY" /\ g.kind = "RESPONSE") => Before(s, f, g)
<1>1. /\ s \in Seq(Frames) /\ In(s) = S
      /\ \A f : Before(s, f, f)
  BY OrdersMoved
<1>2. ASSUME NEW f \in S, NEW g \in S, f = g \/ (f.kind = "BODY" /\ g.kind = "RESPONSE")
      PROVE  Before(s, f, g)
  <2>1. f.kind = g.kind
    OBVIOUS
  <2>2. f = g
    BY <1>2, <2>1
  <2>3. QED  BY <1>1, <2>2
<1>3. QED  BY <1>1, <1>2

LEMMA RelayGoesOn ==
  ASSUME TypeInv, NEW kind, NEW S \in SUBSET Frames, IsFiniteSet(S), \A f \in S : f.kind = kind,
         NEW s \in Orders(S), relayIn' = relayIn \o s
  PROVE  Moved(relayIn, relayIn', {}, Rel, S) /\ Rel' = Rel \cup S
<1>1. /\ s \in Seq(Frames) /\ In(s) = S
      /\ \A f, g \in S : f = g \/ (f.kind = "BODY" /\ g.kind = "RESPONSE") => Before(s, f, g)
  BY OneKind
<1>2. Moved(relayIn, relayIn \o s, {}, In(relayIn), S)
  BY <1>1, Typed, ConcatMoved
<1>3. Moved(relayIn, relayIn', {}, Rel, S)
  BY <1>2 DEF Rel
<1>4. QED  BY <1>3 DEF Moved, Rel

LEMMA RelayTakesAndGoesOn ==
  ASSUME TypeInv, NEW kinds, Takes(kinds), NEW kind, NEW S \in SUBSET Frames, IsFiniteSet(S),
         \A f \in S : f.kind = kind,
         NEW s \in Orders(S), relayIn' = Tail(relayIn) \o s
  PROVE  /\ Moved(relayIn, relayIn', {Head(relayIn)}, In(Tail(relayIn)), S)
         /\ Rel = {Head(relayIn)} \cup In(Tail(relayIn)) /\ Rel' = In(Tail(relayIn)) \cup S
<1>1. /\ s \in Seq(Frames) /\ In(s) = S
      /\ \A f, g \in S : f = g \/ (f.kind = "BODY" /\ g.kind = "RESPONSE") => Before(s, f, g)
  BY OneKind
<1>2. relayIn \in Seq(Frames) /\ Tail(relayIn) \in Seq(Frames) /\ relayIn # <<>>
  BY Typed, TakenFrame DEF Takes
<1>3. Moved(relayIn, Tail(relayIn), {Head(relayIn)}, In(Tail(relayIn)), {})
  BY <1>2, TailMoved
<1>4. Moved(Tail(relayIn), Tail(relayIn) \o s, {}, In(Tail(relayIn)), S)
  BY <1>1, <1>2, ConcatMoved
<1>5. Moved(relayIn, relayIn', {Head(relayIn)}, In(Tail(relayIn)), S)
  BY <1>3, <1>4, MovedOn
<1>6. QED  BY <1>5 DEF Moved, Rel

LEMMA EventSaid ==
  ASSUME TypeInv, NEW c \in Slots, NEW frame \in Sayings, Says(c, frame)
  PROVE  Moved(events, events', {}, Ev, {Event(c, frame)}) /\ Ev' = Ev \cup {Event(c, frame)}
<1>1. Event(c, frame) \in Events
  BY DEF Event, Events, TypeInv, TypeOK, Cartridge
<1>2. Moved(events, events', {}, Ev, {Event(c, frame)})
  BY <1>1, Typed, AppendMoved DEF Ev, Says
<1>3. QED  BY <1>2 DEF Moved, Ev

LEMMA EventTaken ==
  ASSUME TypeInv, events # <<>>, events' = Tail(events)
  PROVE  Moved(events, events', {Head(events)}, Ev', {}) /\ Ev = {Head(events)} \cup Ev'
<1>1. Moved(events, events', {Head(events)}, Ev', {})
  BY Typed, TailMoved DEF Ev
<1>2. QED  BY <1>1 DEF Moved, Ev

\* A frame is given to the process of a slot.
LEMMA GivesOne ==
  ASSUME NEW processes \in [Slots -> Process], NEW c \in Slots, NEW frame \in Frames,
         NEW g, g = Give(processes, c, frame)
  PROVE  \A d \in Slots : d # c => g[d] = processes[d]
  BY DEF Give

LEMMA GivesSame ==
  ASSUME NEW processes \in [Slots -> Process], NEW c \in Slots, NEW frame \in Frames,
         NEW g, g = Give(processes, c, frame)
  PROVE  \A d \in Slots :
           /\ g[d].state = processes[d].state /\ g[d].taken = processes[d].taken
           /\ g[d].ended = processes[d].ended /\ g[d].told = processes[d].told
           /\ g[d].asked = processes[d].asked
  BY DEF Give, Process

LEMMA GivesQueue ==
  ASSUME NEW processes \in [Slots -> Process], NEW c \in Slots, NEW frame \in Frames,
         NEW g, g = Give(processes, c, frame)
  PROVE  Moved(processes[c].pipe, g[c].pipe, {}, In(processes[c].pipe), {frame})
<1>1. processes[c] \in Process /\ processes[c].pipe \in Seq(Frames)
  BY DEF Process
<1>2. g[c] = [processes[c] EXCEPT !.pipe = Append(processes[c].pipe, frame)]
  BY DEF Give
<1>3. g[c].pipe = Append(processes[c].pipe, frame)
  BY <1>1, <1>2 DEF Process
<1>4. QED  BY <1>1, <1>3, AppendMoved

\* A process takes a frame.
LEMMA TakeDoes ==
  ASSUME TypeInv, NEW c \in Slots, TakeFrame(c), NEW h, h = Head(proc[c].pipe)
  PROVE  /\ h \in Frames
         /\ Moved(proc[c].pipe, proc'[c].pipe, {h}, Pipe(c)', {})
         /\ Pipe(c) = {h} \cup Pipe(c)'
         /\ \A d \in Slots : d # c => proc'[d] = proc[d]
         /\ proc[c].state = "up" /\ proc'[c].state = "up"
         /\ proc'[c].taken = IF h.kind = "REQ" THEN proc[c].taken \cup {h.req} ELSE proc[c].taken
         /\ proc'[c].told = IF h.kind = "CANCEL" THEN proc[c].told \cup ({h.req} \cap proc[c].taken)
                            ELSE proc[c].told
         /\ proc'[c].ended = IF h.kind \notin {"REQ", "CANCEL"} /\ h.req \in proc[c].taken
                             THEN proc[c].ended \cup {h.req} ELSE proc[c].ended
         /\ proc'[c].asked = IF h.kind \notin {"REQ", "CANCEL"} /\ h.req \notin proc[c].taken
                             THEN proc[c].asked \ {h.req} ELSE proc[c].asked
<1> DEFINE rest == [proc[c] EXCEPT !.pipe = Tail(@)]
           t == CASE h.kind = "REQ" -> [rest EXCEPT !.taken = @ \cup {h.req}]
                  [] h.kind = "CANCEL" -> [rest EXCEPT !.told = @ \cup ({h.req} \cap rest.taken)]
                  [] OTHER -> IF h.req \in rest.taken THEN [rest EXCEPT !.ended = @ \cup {h.req}]
                              ELSE [rest EXCEPT !.asked = @ \ {h.req}]
<1>1. proc[c] \in Process /\ proc[c].pipe \in Seq(Frames) /\ proc[c].pipe # <<>> /\ proc \in [Slots -> Process]
  BY Typed DEF TakeFrame, TypeInv, TypeOK
<1>2. h \in Frames
  BY <1>1, HeadTailProperties
<1>4. proc' = [proc EXCEPT ![c] = t]
  BY DEF TakeFrame
<1>5. proc'[c] = t /\ \A d \in Slots : d # c => proc'[d] = proc[d]
  BY <1>1, <1>4
<1>6. rest \in Process
      /\ rest.pipe = Tail(proc[c].pipe) /\ rest.state = proc[c].state /\ rest.taken = proc[c].taken
      /\ rest.ended = proc[c].ended /\ rest.told = proc[c].told /\ rest.asked = proc[c].asked
  <2>1. Tail(proc[c].pipe) \in Seq(Frames)
    BY <1>1, HeadTailProperties
  <2>2. QED  BY <1>1, <2>1 DEF Process
<1>7. proc[c].state = "up"
  BY DEF TakeFrame, Alive
<1>8. /\ t.pipe = rest.pipe /\ t.state = rest.state
      /\ t.taken = IF h.kind = "REQ" THEN rest.taken \cup {h.req} ELSE rest.taken
      /\ t.told = IF h.kind = "CANCEL" THEN rest.told \cup ({h.req} \cap rest.taken) ELSE rest.told
      /\ t.ended = IF h.kind \notin {"REQ", "CANCEL"} /\ h.req \in rest.taken
                   THEN rest.ended \cup {h.req} ELSE rest.ended
      /\ t.asked = IF h.kind \notin {"REQ", "CANCEL"} /\ h.req \notin rest.taken
                   THEN rest.asked \ {h.req} ELSE rest.asked
  <2> HIDE DEF rest
  <2>1. QED  BY <1>6 DEF Process
<1> HIDE DEF t
<1>9. Moved(proc[c].pipe, proc'[c].pipe, {h}, Pipe(c)', {}) /\ Pipe(c) = {h} \cup Pipe(c)'
  <2>1. Moved(proc[c].pipe, Tail(proc[c].pipe), {h}, In(Tail(proc[c].pipe)), {})
    BY <1>1, TailMoved
  <2>2. proc'[c].pipe = Tail(proc[c].pipe)
    BY <1>5, <1>6, <1>8
  <2>3. QED  BY <2>1, <2>2 DEF Moved, Pipe
<1> HIDE DEF rest
<1>10. QED  BY <1>2, <1>5, <1>6, <1>7, <1>8, <1>9

\* Processes fail, are killed or hang, rosters and timers pass: no entry, no queue
\* and no running process changes.
Ails ==
  /\ UNCHANGED <<up, events, incoming, outgoing, bodyDone, responseDone, links, requested, bodySent,
                 answers, cancelled>>
  /\ \A c \in Slots :
       /\ proc'[c].pipe = proc[c].pipe
       /\ \/ UNCHANGED <<proc[c].state, proc[c].taken, proc[c].told, proc[c].ended, proc[c].asked>>
          \/ /\ proc[c].state = "up" /\ proc'[c].state = "hung"
             /\ UNCHANGED <<proc[c].taken, proc[c].told, proc[c].ended, proc[c].asked>>
          \/ /\ proc[c].state \in {"up", "hung"} /\ proc'[c].state = "dead"
             /\ proc'[c].taken = {} /\ proc'[c].told = {} /\ proc'[c].ended = {} /\ proc'[c].asked = {}
       /\ cart'[c].running = cart[c].running
       /\ cart[c].install # NoInstall => /\ cart'[c].generation = cart[c].generation
                                         /\ cart'[c].writer = cart[c].writer
                                         /\ cart'[c].install = cart[c].install
       /\ cart'[c].writer = "gone" => cart[c].writer = "gone"

LEMMA KilledParts ==
  ASSUME NEW x \in Process
  PROVE  /\ Killed(x).pipe = x.pipe /\ Killed(x).state = "dead"
         /\ Killed(x).taken = {} /\ Killed(x).told = {} /\ Killed(x).ended = {} /\ Killed(x).asked = {}
  BY DEF Killed, Process

LEMMA KillDoes ==
  ASSUME TypeInv, NEW c \in Slots
  PROVE  /\ \A d \in Slots : d # c => Kill(proc, c)[d] = proc[d]
         /\ Kill(proc, c)[c] = IF proc[c].state \in {"up", "hung"} THEN Killed(proc[c]) ELSE proc[c]
  BY DEF Kill, TypeInv, TypeOK

\* Who is running is registered.
LEMMA RunningRegistered ==
  ASSUME IInv, NEW c \in Slots, cart[c].running \/ proc[c].state # "none"
  PROVE  cart[c].install # NoInstall
  BY DEF IInv, Lives, RunningHasProcess, Slotting, SlotsInOrder

\* A writer that has ended was that of a process that is no more, which holds
\* nothing.
DeadHoldNothing ==
  \A c \in Slots :
    /\ cart[c].writer = "gone" => proc[c].state \in {"dead", "read"} /\ Pipe(c) = {}
    /\ proc[c].state \notin {"up", "hung"} =>
         proc[c].taken = {} /\ proc[c].told = {} /\ proc[c].ended = {} /\ proc[c].asked = {}
    /\ proc[c].state = "none" => Pipe(c) = {}

LEMMA KeptParts ==
  ASSUME TypeInv, NEW R, NEW c \in Slots, NEW x, x = Restored(Retired(R), R)[c]
  PROVE  /\ x.install = cart[c].install /\ x.running = cart[c].running
         /\ x.generation = cart[c].generation /\ x.writer = cart[c].writer
<1>1. cart[c] \in Cartridge
  BY DEF TypeInv, TypeOK
<1>2. Retired(R)[c] \in {cart[c], [cart[c] EXCEPT !.removed = TRUE, !.retiring = "draining"],
                         [cart[c] EXCEPT !.removed = TRUE, !.retiring = cart[c].retiring]}
  BY DEF Retired
<1>3. PICK y : y = Retired(R)[c]
  OBVIOUS
<1>4. y \in Cartridge /\ y.install = cart[c].install /\ y.running = cart[c].running
         /\ y.generation = cart[c].generation /\ y.writer = cart[c].writer
  BY <1>1, <1>2, <1>3 DEF Cartridge
<1>5. x \in {y, [y EXCEPT !.retiring = "no", !.removed = FALSE]}
  BY <1>3 DEF Restored
<1>6. QED  BY <1>4, <1>5 DEF Cartridge

\* Of what is retired, the processes are killed and the rest goes on.
LEMMA RetireKillParts ==
  ASSUME TypeInv, NEW carts, NEW D \in SUBSET Slots, RetireKill(carts, D), NEW c \in Slots, carts[c] \in Cartridge
  PROVE  /\ cart'[c].running = carts[c].running /\ cart'[c].install = carts[c].install
         /\ cart'[c].generation = carts[c].generation /\ cart'[c].writer = carts[c].writer
         /\ proc'[c] = proc[c] \/ (proc[c].state \in {"up", "hung"} /\ proc'[c] = Killed(proc[c]))
<1>1. cart'[c] = IF c \in D THEN [carts[c] EXCEPT !.retiring = "no", !.reason = "retired"] ELSE carts[c]
  BY DEF RetireKill
<1>2. proc'[c] = IF c \in D THEN Kill(proc, c)[c] ELSE proc[c]
  BY DEF RetireKill
<1>3. Kill(proc, c)[c] = IF proc[c].state \in {"up", "hung"} THEN Killed(proc[c]) ELSE proc[c]
  BY KillDoes
<1>4. /\ cart'[c].running = carts[c].running /\ cart'[c].install = carts[c].install
      /\ cart'[c].generation = carts[c].generation /\ cart'[c].writer = carts[c].writer
  BY <1>1 DEF Cartridge
<1>5. QED  BY <1>2, <1>3, <1>4

LEMMA SyncAils ==
  ASSUME IInv, DeadHoldNothing, NEW R \in SUBSET Installs, SyncRoster(R)
  PROVE  Ails /\ UNCHANGED relayIn
<1> DEFINE kept == Restored(Retired(R), R)
           new == R \ {kept[c].install : c \in Usable(kept)}
           D == {c \in Leaving(R) : cart[c].running /\ Drained(c)}
<1>1. PICK s \in Orders(new) : RetireKill(Added(kept, s), D)
  BY DEF SyncRoster
<1>2. PICK n \in 0..MaxSlots : FirstSlots(n)
  BY DEF IInv, Slotting, SlotsInOrder
<1>3. TypeInv /\ cart \in [Slots -> Cartridge] /\ kept \in [Slots -> Cartridge]
  BY RosterChangesTyped DEF IInv, TypeInv, TypeOK
<1>4. \A c \in Slots : /\ kept[c].install = cart[c].install /\ kept[c].running = cart[c].running
                       /\ kept[c].generation = cart[c].generation /\ kept[c].writer = cart[c].writer
  BY <1>3, KeptParts
<1>5. Cardinality(Taken(kept)) = n
  BY <1>2, <1>4, TakenSlots DEF FirstSlots
<1>6. new \in SUBSET Installs /\ IsFiniteSet(new) /\ Cardinality(new) \in Nat
  BY InstallsType, FS_Subset, FS_CardinalityType
<1>7. D \in SUBSET Slots
  BY DEF Leaving, Usable
<1> HIDE DEF kept, new, D
<1>8. DOMAIN s = 1..Cardinality(new) /\ \A k \in DOMAIN s : s[k] \in new
  BY <1>6, OrdersOnce
<1>9. Added(kept, s) \in [Slots -> Cartridge]
  BY <1>3, <1>6, AddedTyped
<1> DEFINE carts == Added(kept, s)
<1>10. ASSUME NEW c \in Slots, cart[c].install # NoInstall PROVE carts[c] = kept[c]
  <2>1. c =< n /\ c \in Nat /\ n \in Nat
    BY <1>2, <1>10, BoundsType DEF FirstSlots, Slots
  <2>2. c - Cardinality(Taken(kept)) \notin DOMAIN s
    BY <1>5, <1>6, <1>8, <2>1
  <2>3. QED  BY <2>2 DEF Added
<1>11. ASSUME NEW c \in Slots, cart[c].install = NoInstall
       PROVE  carts[c].running = cart[c].running /\ (carts[c].writer = "gone" => cart[c].writer = "gone")
  <2>1. cart[c].running = FALSE
    BY <1>3, <1>11, Typed DEF Cartridge, IInv, Slotting, SlotsInOrder
  <2>2. carts[c] = kept[c] \/ \E i : carts[c] = Registered(i)
    BY DEF Added
  <2>3. \A i : Registered(i).running = FALSE /\ Registered(i).writer = "open"
    BY DEF Registered
  <2>4. QED  BY <1>4, <2>1, <2>2, <2>3
<1>12. \A c \in Slots : carts[c] \in Cartridge
  BY <1>9
<1> HIDE DEF carts
<1>13. ASSUME NEW c \in Slots
       PROVE  /\ cart'[c].running = carts[c].running /\ cart'[c].install = carts[c].install
              /\ cart'[c].generation = carts[c].generation /\ cart'[c].writer = carts[c].writer
              /\ proc'[c] = proc[c] \/ (proc[c].state \in {"up", "hung"} /\ proc'[c] = Killed(proc[c]))
  <2>1. RetireKill(carts, D)
    BY <1>1 DEF carts
  <2>2. QED  BY <1>3, <1>7, <1>12, <2>1, RetireKillParts
<1>14. ASSUME NEW c \in Slots
       PROVE  /\ cart'[c].running = cart[c].running
              /\ cart[c].install # NoInstall => /\ cart'[c].generation = cart[c].generation
                                                /\ cart'[c].writer = cart[c].writer
                                                /\ cart'[c].install = cart[c].install
              /\ cart'[c].writer = "gone" => cart[c].writer = "gone"
  BY <1>4, <1>10, <1>11, <1>13
<1>15. \A c \in Slots : proc[c] \in Process
  BY <1>3, Typed
<1>16. QED  BY <1>13, <1>14, <1>15, KilledParts DEF Ails, SyncRoster, tables, switch

LEMMA AilsDoes ==
  ASSUME IInv, DeadHoldNothing,
         \/ UNCHANGED vars \/ ReapDrained \/ \E R \in SUBSET Installs : SyncRoster(R)
         \/ \E c \in Slots : \/ Crash(c) \/ Hang(c) \/ ProbeLate(c) \/ AnswerProbe(c) \/ KillCartridge(c)
                             \/ DrainExpires(c)
  PROVE  Ails /\ UNCHANGED relayIn
<1> USE DEF tables, switch, outside
<1>0. /\ TypeInv /\ cart \in [Slots -> Cartridge] /\ proc \in [Slots -> Process]
      /\ \A c \in Slots : cart[c] \in Cartridge /\ proc[c] \in Process
  BY DEF IInv, TypeInv, TypeOK
<1>1. CASE UNCHANGED vars
  BY <1>1 DEF vars, Ails
<1>2. CASE ReapDrained
  <2> DEFINE carts == [c \in Slots |-> IF c \in Ready THEN [cart[c] EXCEPT !.retiring = "no"] ELSE cart[c]]
             D == {c \in Ready : cart[c].running}
  <2>1. D \in SUBSET Slots /\ RetireKill(carts, D)
    BY <1>2 DEF Ready, ReapDrained
  <2>2. \A c \in Slots :
          /\ carts[c] \in Cartridge
          /\ carts[c].running = cart[c].running /\ carts[c].install = cart[c].install
          /\ carts[c].generation = cart[c].generation /\ carts[c].writer = cart[c].writer
    BY <1>0 DEF Cartridge
  <2> HIDE DEF carts, D
  <2>3. \A c \in Slots :
         /\ cart'[c].running = carts[c].running /\ cart'[c].install = carts[c].install
         /\ cart'[c].generation = carts[c].generation /\ cart'[c].writer = carts[c].writer
         /\ proc'[c] = proc[c] \/ (proc[c].state \in {"up", "hung"} /\ proc'[c] = Killed(proc[c]))
    BY <1>0, <2>1, <2>2, RetireKillParts
  <2>4. QED  BY <1>0, <1>2, <2>2, <2>3, KilledParts DEF Ails, ReapDrained
<1>3. CASE \E R \in SUBSET Installs : SyncRoster(R)
  BY <1>3, SyncAils
<1>4. ASSUME NEW c \in Slots,
             Crash(c) \/ Hang(c) \/ ProbeLate(c) \/ AnswerProbe(c) \/ KillCartridge(c) \/ DrainExpires(c)
      PROVE  Ails /\ UNCHANGED relayIn
  <2>1. CASE Crash(c)
    <3>1. proc'[c] = Killed(proc[c]) /\ proc[c].state = "up" /\ \A d \in Slots : d # c => proc'[d] = proc[d]
      BY <1>0, <2>1 DEF Crash, Alive
    <3>2. QED  BY <1>0, <2>1, <3>1, KilledParts DEF Crash, Ails
  <2>2. CASE Hang(c)
    <3>1. proc'[c] = [proc[c] EXCEPT !.state = "hung"] /\ proc[c].state = "up" /\ \A d \in Slots : d # c => proc'[d] = proc[d]
      BY <1>0, <2>2 DEF Hang, Alive
    <3>2. /\ proc'[c].state = "hung" /\ proc'[c].pipe = proc[c].pipe
          /\ UNCHANGED <<proc[c].taken, proc[c].told, proc[c].ended, proc[c].asked>>
      BY <1>0, <3>1 DEF Process
    <3>3. QED  BY <1>0, <2>2, <3>1, <3>2 DEF Hang, Ails
  <2>3. CASE ProbeLate(c) \/ AnswerProbe(c) \/ DrainExpires(c)
    <3>1. \A d \in Slots : /\ cart'[d].running = cart[d].running /\ cart'[d].generation = cart[d].generation
                           /\ cart'[d].writer = cart[d].writer /\ cart'[d].install = cart[d].install
      <4>1. CASE ProbeLate(c)
        BY <1>0, <4>1 DEF ProbeLate, Cartridge
      <4>2. CASE AnswerProbe(c)
        BY <1>0, <4>2 DEF AnswerProbe, Cartridge
      <4>3. CASE DrainExpires(c)
        BY <1>0, <4>3 DEF DrainExpires, Cartridge
      <4>4. QED  BY <2>3, <4>1, <4>2, <4>3
    <3>2. /\ UNCHANGED <<proc, relayIn, up, events, incoming, outgoing, bodyDone, responseDone, links>>
          /\ UNCHANGED <<requested, bodySent, answers, cancelled>>
      BY <2>3 DEF ProbeLate, AnswerProbe, DrainExpires
    <3>3. QED  BY <3>1, <3>2 DEF Ails
  <2>4. CASE KillCartridge(c)
    <3>1. \A d \in Slots : /\ cart'[d].running = cart[d].running /\ cart'[d].generation = cart[d].generation
                           /\ cart'[d].writer = cart[d].writer /\ cart'[d].install = cart[d].install
      BY <1>0, <2>4 DEF KillCartridge, Cartridge
    <3>2. \A d \in Slots :
            proc'[d] = proc[d] \/ (proc[d].state \in {"up", "hung"} /\ proc'[d] = Killed(proc[d]))
      BY <1>0, <2>4, KillDoes DEF KillCartridge
    <3>3. QED  BY <1>0, <2>4, <3>1, <3>2, KilledParts DEF Ails, KillCartridge
  <2>5. QED  BY <1>4, <2>1, <2>2, <2>3, <2>4
<1>5. QED  BY <1>1, <1>2, <1>3, <1>4

\* A cancel that kills.
LEMMA ForceKillDoes ==
  ASSUME IInv, ForceKill
  PROVE  /\ Ails /\ Moved(relayIn, relayIn', {Head(relayIn)}, Rel', {})
         /\ Rel = {Head(relayIn)} \cup Rel' /\ Head(relayIn).kind = "KILL"
<1>0. /\ TypeInv /\ cart \in [Slots -> Cartridge]
      /\ \A d \in Slots : cart[d] \in Cartridge /\ proc[d] \in Process
  BY DEF IInv, TypeInv, TypeOK
<1> DEFINE c == incoming[Head(relayIn).req]
<1>1. Takes({"KILL"}) /\ relayIn' = Tail(relayIn) /\ Head(relayIn).req \in Served /\ Head(relayIn).kind = "KILL"
  <2>1. Takes({"KILL"}) /\ relayIn' = Tail(relayIn)
    BY DEF ForceKill
  <2>2. QED  BY <1>0, <2>1, TakenFrame
<1>2. c \in Slots \cup {0}
  BY <1>1 DEF IInv, TypeInv, TypeOK
<1>3. \A d \in Slots : /\ cart'[d].running = cart[d].running /\ cart'[d].generation = cart[d].generation
                       /\ cart'[d].writer = cart[d].writer /\ cart'[d].install = cart[d].install
  BY <1>0, <1>2 DEF ForceKill, Cartridge
<1>4. \A d \in Slots : proc'[d] = proc[d] \/ (proc[d].state \in {"up", "hung"} /\ proc'[d] = Killed(proc[d]))
  <2>1. CASE c = 0
    BY <2>1 DEF ForceKill
  <2>2. CASE c # 0
    <3>1. proc' = Kill(proc, c) /\ c \in Slots
      BY <1>2, <2>2 DEF ForceKill
    <3> HIDE DEF c
    <3>2. QED  BY <1>0, <3>1, KillDoes
  <2>3. QED  BY <2>1, <2>2
<1>5. Ails
  BY <1>0, <1>3, <1>4, KilledParts DEF Ails, ForceKill, tables, switch, outside
<1>6. QED  BY <1>0, <1>1, <1>5, RelayTakes

\* The host stops.
LEMMA StopDoes ==
  ASSUME TypeInv, Stop
  PROVE  /\ ~up' /\ Rel' = {} /\ Ev' = {} /\ relayIn' = <<>> /\ events' = <<>>
         /\ \A c \in Slots : /\ Pipe(c)' = {} /\ proc'[c].pipe = <<>> /\ proc'[c].state = "none"
                             /\ proc'[c].taken = {} /\ proc'[c].told = {}
                             /\ proc'[c].ended = {} /\ proc'[c].asked = {}
                             /\ cart'[c].writer = "open" /\ cart'[c].install = cart[c].install
                             /\ cart'[c].generation = cart[c].generation
         /\ UNCHANGED <<incoming, outgoing, bodyDone, responseDone, links, requested, bodySent,
                        answers, cancelled>>
<1>1. In(<<>>) = {}
  BY DEF In
<1>2. \A c \in Slots : proc'[c] = NoProcess
  BY DEF Stop
<1>3. \A c \in Slots : cart[c] \in Cartridge
  BY Typed
<1>4. \A c \in Slots : cart'[c].writer = "open" /\ cart'[c].install = cart[c].install
                       /\ cart'[c].generation = cart[c].generation
  BY <1>3 DEF Stop, Cartridge
<1>5. QED  BY <1>1, <1>2, <1>4 DEF Stop, Rel, Ev, Pipe, NoProcess, tables, switch, outside

LEMMA FrameIs ==
  ASSUME NEW f \in Frames
  PROVE  f = Frame(f.kind, f.req) /\ f.req \in Requests
<1>1. Served \subseteq Requests
  BY LocalType DEF Served, Requests
<1>2. QED  BY <1>1 DEF Frames, Frame

\* What goes to the relay is of one kind.
LEMMA SentKinds ==
  ASSUME TypeInv, NEW R, NEW B \in SUBSET Peers, NEW r
  PROVE  /\ Back(R) \in SUBSET Frames /\ IsFiniteSet(Back(R)) /\ \A f \in Back(R) : f.kind = "RESPONSE"
         /\ Forth(B) \in SUBSET Frames /\ IsFiniteSet(Forth(B)) /\ \A f \in Forth(B) : f.kind = "BODY"
         /\ Cascade(r) \in SUBSET Frames /\ IsFiniteSet(Cascade(r)) /\ \A f \in Cascade(r) : f.kind = "CANCEL"
<1>1. \A f \in Back(R) : f.kind = "RESPONSE"
  BY DEF Back, Frame
<1>2. \A f \in Forth(B) : f.kind = "BODY"
  BY DEF Forth, Frame
<1>3. \A f \in Cascade(r) : f.kind = "CANCEL"
  <2>1. \A p : Frame("CANCEL", p).kind = "CANCEL"
    BY DEF Frame
  <2>2. QED  BY <2>1 DEF Cascade
<1>4. QED  BY <1>1, <1>2, <1>3, BackTyped, ForthTyped, CascadeTyped

LEMMA NoHandlerDoes ==
  ASSUME TypeInv, NoHandler, NEW r, r = Head(relayIn).req
  PROVE  /\ Head(relayIn) = Frame("REQ", r) /\ r \in Served
         /\ Moved(relayIn, relayIn', {Head(relayIn)}, In(Tail(relayIn)), Back({r}))
         /\ Rel = {Head(relayIn)} \cup In(Tail(relayIn)) /\ Rel' = In(Tail(relayIn)) \cup Back({r})
<1>1. Takes({"REQ"}) /\ \E s \in Orders(Back({r})) : relayIn' = Tail(relayIn) \o s
  BY DEF NoHandler
<1>2. Head(relayIn) = Frame("REQ", r) /\ r \in Served
  BY <1>1, TakenFrame, FrameIs
<1>3. PICK s \in Orders(Back({r})) : relayIn' = Tail(relayIn) \o s
  BY <1>1
<1>4. /\ Back({r}) \in SUBSET Frames /\ IsFiniteSet(Back({r})) /\ \A f \in Back({r}) : f.kind = "RESPONSE"
  BY SentKinds
<1>5. QED  BY <1>1, <1>2, <1>3, <1>4, RelayTakesAndGoesOn

Serves(r, c) ==
  /\ Head(relayIn) = Frame("REQ", r) /\ r \in Served
  /\ c \in Slots /\ cart[c].install = Wants[r] /\ cart[c].install # NoInstall
  /\ Moved(relayIn, relayIn', {Head(relayIn)}, Rel', {}) /\ Rel = {Head(relayIn)} \cup Rel'
  /\ incoming' = [incoming EXCEPT ![r] = c]
  /\ \A d \in Slots : d # c => proc'[d] = proc[d] /\ cart'[d] = cart[d]
  /\ cart'[c].install = cart[c].install
  /\ cart'[c].writer = cart[c].writer
  /\ cart[c].running =>
       /\ cart'[c] = cart[c] /\ CanSend(c)
       /\ proc[c].state # "none"
       /\ Moved(proc[c].pipe, proc'[c].pipe, {}, Pipe(c), {Frame("REQ", r)})
       /\ Pipe(c)' = Pipe(c) \cup {Frame("REQ", r)}
       /\ UNCHANGED <<proc[c].state, proc[c].taken, proc[c].told, proc[c].ended, proc[c].asked>>
  /\ ~cart[c].running =>
       /\ proc[c].state = "none" /\ cart'[c].generation = cart[c].generation + 1
       /\ \A x \in Served : incoming[x] # c
       /\ Moved(<<>>, proc'[c].pipe, {}, {}, {Frame("REQ", r)})
       /\ Pipe(c)' = {Frame("REQ", r)} /\ proc'[c].state = "up"
       /\ proc'[c].taken = {} /\ proc'[c].told = {} /\ proc'[c].ended = {} /\ proc'[c].asked = {}

LEMMA ServeDoes ==
  ASSUME IInv, Serve, NEW r, r = Head(relayIn).req, NEW c, c = First(Offering(Wants[r]))
  PROVE  Serves(r, c)
<1>0. TypeInv /\ cart \in [Slots -> Cartridge] /\ \A d \in Slots : cart[d] \in Cartridge
  BY DEF IInv, TypeInv, TypeOK
<1>1. Takes({"REQ"}) /\ relayIn' = Tail(relayIn) /\ Offering(Wants[r]) # {} /\ up
  BY DEF Serve, Takes
<1>2. Head(relayIn) = Frame("REQ", r) /\ r \in Served /\ Head(relayIn) \in Frames
  BY <1>0, <1>1, TakenFrame, FrameIs
<1>3. c \in Slots /\ cart[c].install = Wants[r]
  BY <1>0, <1>1, FirstOffering DEF Offering
<1>4. cart[c].install # NoInstall
  BY <1>2, <1>3, InstallsType, WantsType
<1>5. Moved(relayIn, relayIn', {Head(relayIn)}, Rel', {}) /\ Rel = {Head(relayIn)} \cup Rel'
  BY <1>0, <1>1, RelayTakes
<1> DEFINE process == IF cart[c].running THEN proc ELSE [proc EXCEPT ![c] = NewProcess]
<1>6. /\ proc' = Give(process, c, Head(relayIn)) /\ cart' = Spawned(c)
      /\ incoming' = [incoming EXCEPT ![r] = c] /\ (cart[c].running => CanSend(c))
  BY DEF Serve
<1>7. process \in [Slots -> Process]
  BY <1>3, ProcessesTyped DEF IInv, TypeInv, TypeOK
<1>8. \A d \in Slots : d # c => process[d] = proc[d]
  BY <1>3 DEF IInv, TypeInv, TypeOK
<1>9. process[c] = IF cart[c].running THEN proc[c] ELSE NewProcess
  BY <1>3 DEF IInv, TypeInv, TypeOK
<1> HIDE DEF process
<1>10. /\ \A d \in Slots : d # c => proc'[d] = process[d]
       /\ Moved(process[c].pipe, proc'[c].pipe, {}, In(process[c].pipe), {Frame("REQ", r)})
       /\ In(proc'[c].pipe) = In(process[c].pipe) \cup {Frame("REQ", r)}
       /\ proc'[c].state = process[c].state /\ proc'[c].taken = process[c].taken
       /\ proc'[c].ended = process[c].ended /\ proc'[c].told = process[c].told
       /\ proc'[c].asked = process[c].asked
  <2>1. PICK g, p, f : g = proc' /\ p = process /\ f = Frame("REQ", r)
    OBVIOUS
  <2>2. g = Give(p, c, f) /\ f \in Frames /\ p \in [Slots -> Process]
    BY <1>2, <1>6, <1>7, <2>1
  <2>3. \A d \in Slots : d # c => g[d] = p[d]
    BY <1>3, <2>2, GivesOne
  <2>4. Moved(p[c].pipe, g[c].pipe, {}, In(p[c].pipe), {f})
    BY <1>3, <2>2, GivesQueue
  <2>5. \A d \in Slots :
              /\ g[d].state = p[d].state /\ g[d].taken = p[d].taken
              /\ g[d].ended = p[d].ended /\ g[d].told = p[d].told
              /\ g[d].asked = p[d].asked
    BY <1>3, <2>2, GivesSame
  <2>6. In(g[c].pipe) = In(p[c].pipe) \cup {f}
    BY <2>4 DEF Moved
  <2>7. QED  BY <1>3, <2>1, <2>3, <2>4, <2>5, <2>6
<1>11. \A d \in Slots : d # c => proc'[d] = proc[d] /\ cart'[d] = cart[d]
  BY <1>0, <1>3, <1>6, <1>8, <1>10 DEF Spawned
<1>12. CASE cart[c].running
  <2>1. proc[c].state # "none"
    BY <1>3, <1>12 DEF IInv, Lives, RunningHasProcess
  <2>2. cart'[c] = cart[c]
    BY <1>6, <1>12 DEF Spawned
  <2>3. QED  BY <1>2, <1>3, <1>4, <1>5, <1>6, <1>9, <1>10, <1>11, <1>12, <2>1, <2>2 DEF Pipe, Serves
<1>13. CASE ~cart[c].running
  <2>1. proc[c].state = "none"
    BY <1>3, <1>13 DEF IInv, Lives, RunningHasProcess
  <2>2. \A x \in Served : incoming[x] # c
    <3>1. 0 \notin Slots
      BY DEF Slots
    <3>2. QED  BY <1>1, <1>3, <1>13, <3>1 DEF IInv, Lives, EntriesRunning
  <2>3. cart'[c].generation = cart[c].generation + 1 /\ cart'[c].install = cart[c].install
        /\ cart'[c].writer = cart[c].writer
    <3>1. cart' = [cart EXCEPT ![c].running = TRUE, ![c].generation = @ + 1]
      BY <1>6, <1>13 DEF Spawned
    <3>2. QED  BY <1>0, <1>3, <3>1 DEF Cartridge
  <2>4. In(<<>>) = {}
    BY DEF In
  <2>5. /\ process[c].pipe = <<>> /\ process[c].state = "up"
        /\ process[c].taken = {} /\ process[c].told = {} /\ process[c].ended = {} /\ process[c].asked = {}
    BY <1>9, <1>13 DEF NewProcess, NoProcess
  <2>6. Moved(<<>>, proc'[c].pipe, {}, {}, {Frame("REQ", r)}) /\ Pipe(c)' = {Frame("REQ", r)}
    BY <1>10, <2>4, <2>5 DEF Pipe
  <2>7. /\ proc'[c].state = "up"
        /\ proc'[c].taken = {} /\ proc'[c].told = {} /\ proc'[c].ended = {} /\ proc'[c].asked = {}
    BY <1>10, <2>5
  <2>8. QED  BY <1>2, <1>3, <1>4, <1>5, <1>6, <1>11, <1>13, <2>1, <2>2, <2>3, <2>6, <2>7 DEF Serves
<1>14. QED  BY <1>12, <1>13

\* A frame is put into the pipe of a process.
Gets(c, f) ==
  /\ \A d \in Slots : d # c => proc'[d] = proc[d]
  /\ Moved(proc[c].pipe, proc'[c].pipe, {}, Pipe(c), {f}) /\ Pipe(c)' = Pipe(c) \cup {f}
  /\ UNCHANGED <<proc[c].state, proc[c].taken, proc[c].told, proc[c].ended, proc[c].asked>>

LEMMA GiveGets ==
  ASSUME TypeInv, NEW c \in Slots, NEW f \in Frames, proc' = Give(proc, c, f)
  PROVE  Gets(c, f)
<1>1. PICK g, p : g = proc' /\ p = proc
  OBVIOUS
<1>2. g = Give(p, c, f) /\ p \in [Slots -> Process]
  BY <1>1 DEF TypeInv, TypeOK
<1>3. \A d \in Slots : d # c => g[d] = p[d]
  BY <1>2, GivesOne
<1>4. Moved(p[c].pipe, g[c].pipe, {}, In(p[c].pipe), {f})
  BY <1>2, GivesQueue
<1>5. \A d \in Slots :
        /\ g[d].state = p[d].state /\ g[d].taken = p[d].taken /\ g[d].ended = p[d].ended
        /\ g[d].told = p[d].told /\ g[d].asked = p[d].asked
  BY <1>2, GivesSame
<1>6. In(g[c].pipe) = In(p[c].pipe) \cup {f}
  BY <1>4 DEF Moved
<1>7. QED  BY <1>1, <1>3, <1>4, <1>5, <1>6 DEF Gets, Pipe

\* The head of the relay's stream is taken.
Pops == Moved(relayIn, relayIn', {Head(relayIn)}, Rel', {}) /\ Rel = {Head(relayIn)} \cup Rel'
\* Frames are put behind it, and also taken.
Grows(S) == Moved(relayIn, relayIn', {}, Rel, S) /\ Rel' = Rel \cup S
PopsAndGrows(S) ==
  /\ Moved(relayIn, relayIn', {Head(relayIn)}, In(Tail(relayIn)), S)
  /\ Rel = {Head(relayIn)} \cup In(Tail(relayIn)) /\ Rel' = In(Tail(relayIn)) \cup S

LEMMA DeliverDoes ==
  ASSUME TypeInv, NEW r \in Requests, Deliver(r), NEW c, c = IF ToServer(r) THEN Server(r) ELSE Maker(r)
  PROVE  /\ c \in Slots /\ CanSend(c) /\ Head(relayIn) \in Rel /\ Head(relayIn) \in Frames
         /\ Head(relayIn) = Frame(Head(relayIn).kind, r) /\ Head(relayIn).kind \in {"BODY", "RESPONSE"}
         /\ ToServer(r) => r \in Served /\ c = incoming[r]
         /\ ~ToServer(r) => r \in Peers /\ c = outgoing[r]
         /\ Pops /\ Gets(c, Head(relayIn))
<1>1. /\ Terminal(r) /\ (ToServer(r) \/ ToMaker(r)) /\ CanSend(c)
      /\ proc' = Give(proc, c, Head(relayIn)) /\ relayIn' = Tail(relayIn)
  BY DEF Deliver
<1>2. Takes({"BODY", "RESPONSE"}) /\ Head(relayIn).req = r
  BY <1>1 DEF Terminal
<1>3. Head(relayIn) \in Frames /\ Head(relayIn).kind \in {"BODY", "RESPONSE"}
  BY <1>2, TakenFrame
<1>4. Head(relayIn) = Frame(Head(relayIn).kind, r)
  BY <1>2, <1>3, FrameIs
<1>5. /\ c \in Slots
      /\ ToServer(r) => r \in Served /\ c = incoming[r]
      /\ ~ToServer(r) => r \in Peers /\ c = outgoing[r]
  BY <1>1 DEF ToServer, ToMaker, Server, Maker, TypeInv, TypeOK
<1>6. Pops /\ Head(relayIn) \in Rel
  BY <1>1, <1>2, RelayTakes DEF Pops
<1>7. Gets(c, Head(relayIn))
  BY <1>1, <1>3, <1>5, GiveGets
<1>8. QED  BY <1>1, <1>3, <1>4, <1>5, <1>6, <1>7

LEMMA UnroutedDoes ==
  ASSUME TypeInv, NEW r \in Requests, Unrouted(r)
  PROVE  Pops /\ Head(relayIn) \in Rel /\ Head(relayIn) = Frame(Head(relayIn).kind, r)
         /\ Head(relayIn).kind \in {"BODY", "RESPONSE"}
<1>1. Takes({"BODY", "RESPONSE"}) /\ Head(relayIn).req = r /\ relayIn' = Tail(relayIn)
  BY DEF Unrouted, Terminal
<1>2. Head(relayIn) \in Frames /\ Head(relayIn).kind \in {"BODY", "RESPONSE"}
  BY <1>1, TakenFrame
<1>3. Pops /\ Head(relayIn) \in Rel
  BY <1>1, RelayTakes DEF Pops
<1>4. QED  BY <1>1, <1>2, <1>3, FrameIs

LEMMA UndeliverableDoes ==
  ASSUME TypeInv, NEW r \in Requests, Undeliverable(r)
  PROVE  /\ Head(relayIn) \in Rel /\ Head(relayIn) \in Frames
         /\ Head(relayIn) = Frame(Head(relayIn).kind, r) /\ Head(relayIn).kind \in {"BODY", "RESPONSE"}
         /\ \/ r \in Served /\ incoming[r] \in Slots /\ ~CanSend(incoming[r])
            \/ ToMaker(r) /\ r \in Peers /\ outgoing[r] \in Slots /\ ~CanSend(outgoing[r])
         /\ PopsAndGrows(Back({r}))
<1>1. PICK s \in Orders(Back({r})) : relayIn' = Tail(relayIn) \o s
  BY DEF Undeliverable
<1>2. Takes({"BODY", "RESPONSE"}) /\ Head(relayIn).req = r
  BY DEF Undeliverable, Terminal
<1>3. Head(relayIn) \in Frames /\ Head(relayIn).kind \in {"BODY", "RESPONSE"}
  BY <1>2, TakenFrame
<1>4. Head(relayIn) = Frame(Head(relayIn).kind, r)
  BY <1>2, <1>3, FrameIs
<1>5. \/ r \in Served /\ incoming[r] \in Slots /\ ~CanSend(incoming[r])
      \/ ToMaker(r) /\ r \in Peers /\ outgoing[r] \in Slots /\ ~CanSend(outgoing[r])
  BY DEF Undeliverable, ToServer, ToMaker, Server, Maker, TypeInv, TypeOK
<1>6. /\ Back({r}) \in SUBSET Frames /\ IsFiniteSet(Back({r})) /\ \A f \in Back({r}) : f.kind = "RESPONSE"
  BY SentKinds
<1>7. PopsAndGrows(Back({r}))
  BY <1>1, <1>2, <1>6, RelayTakesAndGoesOn DEF PopsAndGrows
<1>8. QED  BY <1>3, <1>4, <1>5, <1>7 DEF PopsAndGrows

LEMMA CancelDoes ==
  ASSUME TypeInv, CancelRequest, NEW r, r = Head(relayIn).req
  PROVE  /\ Head(relayIn) = Frame("CANCEL", r) /\ r \in Served /\ Head(relayIn) \in Rel
         /\ \/ Pops /\ proc' = proc
            \/ /\ PopsAndGrows(Cascade(r)) /\ incoming[r] \in Slots
               /\ \/ proc' = proc
                  \/ \E c \in Slots : c = incoming[r] /\ CanSend(c) /\ Gets(c, Frame("CANCEL", r))
<1>1. Takes({"CANCEL"})
  BY DEF CancelRequest
<1>2. Head(relayIn) \in Frames /\ Head(relayIn).kind = "CANCEL" /\ r \in Served
  BY <1>1, TakenFrame
<1>3. Head(relayIn) = Frame("CANCEL", r)
  BY <1>2, FrameIs
<1>4. PICK c : c = incoming[r] /\ c \in Slots \cup {0}
  BY <1>2 DEF TypeInv, TypeOK
<1>5. CASE incoming[r] = 0
  <2>1. relayIn' = Tail(relayIn) /\ proc' = proc
    BY <1>5 DEF CancelRequest
  <2>2. Pops /\ Head(relayIn) \in Rel
    BY <1>1, <2>1, RelayTakes DEF Pops
  <2>3. QED  BY <1>2, <1>3, <2>1, <2>2
<1>6. CASE incoming[r] # 0
  <2>1. PICK s \in Orders(Cascade(r)) : relayIn' = Tail(relayIn) \o s
    BY <1>6 DEF CancelRequest
  <2>2. Cascade(r) \in SUBSET Frames /\ IsFiniteSet(Cascade(r)) /\ \A f \in Cascade(r) : f.kind = "CANCEL"
    BY SentKinds
  <2>3. PopsAndGrows(Cascade(r))
    BY <1>1, <2>1, <2>2, RelayTakesAndGoesOn DEF PopsAndGrows
  <2>4. proc' = IF CanSend(c) THEN Give(proc, c, Frame("CANCEL", r)) ELSE proc
    BY <1>3, <1>4, <1>6 DEF CancelRequest
  <2>5. c \in Slots /\ Frame("CANCEL", r) \in Frames
    BY <1>2, <1>3, <1>4, <1>6
  <2>6. proc' = proc \/ (CanSend(c) /\ Gets(c, Frame("CANCEL", r)))
    BY <2>4, <2>5, GiveGets
  <2>7. Head(relayIn) \in Rel
    BY <2>3 DEF PopsAndGrows
  <2>8. QED  BY <1>2, <1>3, <1>4, <2>3, <2>5, <2>6, <2>7
<1>7. QED  BY <1>4, <1>5, <1>6

\* The head of the events is taken.
Drops == Moved(events, events', {Head(events)}, Ev', {}) /\ Ev = {Head(events)} \cup Ev'
\* An event is put behind them.
Tell(c, f) == Moved(events, events', {}, Ev, {Event(c, f)}) /\ Ev' = Ev \cup {Event(c, f)}

LEMMA OldEventDoes ==
  ASSUME TypeInv, OldEvent
  PROVE  Drops /\ \A c \in Slots : \A f : Event(c, f) # Head(events)
<1>1. Drops
  BY EventTaken DEF OldEvent, Drops
<1>2. Head(events).generation # cart[Head(events).slot].generation
  BY DEF OldEvent, Current
<1>3. \A c \in Slots : \A f : Event(c, f).slot = c /\ Event(c, f).generation = cart[c].generation
  BY DEF Event
<1>4. ASSUME NEW c \in Slots, NEW f, Event(c, f) = Head(events) PROVE FALSE
  <2>1. Event(c, f).slot = c /\ Event(c, f).generation = cart[c].generation
    BY <1>3
  <2>2. QED  BY <1>2, <1>4, <2>1
<1>5. QED  BY <1>1, <1>4

LEMMA HearsDoes ==
  ASSUME TypeInv, NEW kind, Hears(kind), events' = Tail(events),
         NEW c, c = Head(events).slot, NEW r, r = Head(events).frame.req
  PROVE  /\ Drops /\ c \in Slots /\ Head(events) \in Ev
         /\ Head(events) = Event(c, Frame(kind, r)) /\ Head(events).frame = Frame(kind, r)
         /\ kind \in {"REQ", "BODY"} => r \in Peers
         /\ kind = "RESPONSE" => r \in Served
<1>1. Drops /\ Head(events) \in Ev
  BY EventTaken DEF Hears, Drops
<1>2. /\ Head(events) \in Events /\ c \in Slots /\ Head(events).frame.kind = kind
      /\ kind \in {"REQ", "BODY"} => r \in Peers
      /\ kind = "RESPONSE" => r \in Served
  BY HeardEvent
<1>3. Head(events).generation = cart[c].generation
  BY DEF Hears, Current
<1>4. Head(events).frame = Frame(kind, r)
  <2>1. Head(events).frame \in Sayings
    BY <1>2 DEF Events
  <2>2. \A x \in Sayings : x = Frame(x.kind, x.req)
    BY DEF Sayings, Frame, Death
  <2>3. QED  BY <1>2, <2>1, <2>2
<1>5. Head(events) = Event(c, Frame(kind, r))
  BY <1>2, <1>3, <1>4 DEF Events, Event
<1>6. QED  BY <1>1, <1>2, <1>4, <1>5

LEMMA HearRequestDoes ==
  ASSUME TypeInv, HearRequest, NEW c, c = Head(events).slot, NEW p, p = Head(events).frame.req
  PROVE  /\ up /\ Drops /\ c \in Slots /\ Head(events) \in Ev
         /\ Head(events) = Event(c, Frame("REQ", p)) /\ p \in Peers
         /\ outgoing' = [outgoing EXCEPT ![p] = c]
         /\ links' \subseteq links \cup {<<Parent[p], p>>}
         /\ \/ /\ p \in Local /\ requested' = [requested EXCEPT ![p] = "live"]
               /\ Grows({Frame("REQ", p)})
            \/ /\ p \in Away /\ requested' = [requested EXCEPT ![p] = "away"]
               /\ UNCHANGED relayIn
<1>1. Hears("REQ") /\ events' = Tail(events) /\ up
  BY DEF HearRequest, Hears
<1>2. /\ Drops /\ c \in Slots /\ Head(events) \in Ev
      /\ Head(events) = Event(c, Frame("REQ", p)) /\ p \in Peers /\ Head(events).frame = Frame("REQ", p)
  BY <1>1, HearsDoes
<1>3. p \in Local => Frame("REQ", p) \in Frames
  BY <1>1, <1>2, HeardEvent
<1>4. p \in Local /\ relayIn' = Append(relayIn, Head(events).frame) => Grows({Frame("REQ", p)})
  BY <1>2, <1>3, RelayAdds DEF Grows
<1>5. QED  BY <1>1, <1>2, <1>4 DEF HearRequest

LEMMA HearBodyDoes ==
  ASSUME TypeInv, HearBody, NEW c, c = Head(events).slot, NEW p, p = Head(events).frame.req
  PROVE  /\ up /\ Drops /\ c \in Slots /\ Head(events) \in Ev
         /\ Head(events) = Event(c, Frame("BODY", p)) /\ p \in Peers
         /\ Grows(Forth({p}))
<1>1. Hears("BODY") /\ events' = Tail(events) /\ up
  BY DEF HearBody, Hears
<1>2. /\ Drops /\ c \in Slots /\ Head(events) \in Ev
      /\ Head(events) = Event(c, Frame("BODY", p)) /\ p \in Peers
  BY <1>1, HearsDoes
<1>3. PICK s \in Orders(Forth({p})) : relayIn' = relayIn \o s
  BY DEF HearBody
<1>4. Forth({p}) \in SUBSET Frames /\ IsFiniteSet(Forth({p})) /\ \A f \in Forth({p}) : f.kind = "BODY"
  BY <1>2, SentKinds
<1>5. Grows(Forth({p}))
  BY <1>3, <1>4, RelayGoesOn DEF Grows
<1>6. QED  BY <1>1, <1>2, <1>5

LEMMA HearResponseDoes ==
  ASSUME TypeInv, HearResponse, NEW c, c = Head(events).slot, NEW r, r = Head(events).frame.req
  PROVE  /\ up /\ Drops /\ c \in Slots /\ Head(events) \in Ev
         /\ Head(events) = Event(c, Frame("RESPONSE", r)) /\ r \in Served
         /\ Release(r) /\ Answer({r}) /\ Grows(Back({r}))
<1>1. Hears("RESPONSE") /\ events' = Tail(events) /\ up
  BY DEF HearResponse, Hears
<1>2. /\ Drops /\ c \in Slots /\ Head(events) \in Ev
      /\ Head(events) = Event(c, Frame("RESPONSE", r)) /\ r \in Served
  BY <1>1, HearsDoes
<1>3. PICK s \in Orders(Back({r})) : relayIn' = relayIn \o s
  BY DEF HearResponse
<1>4. Back({r}) \in SUBSET Frames /\ IsFiniteSet(Back({r})) /\ \A f \in Back({r}) : f.kind = "RESPONSE"
  BY SentKinds
<1>5. Grows(Back({r}))
  BY <1>3, <1>4, RelayGoesOn DEF Grows
<1>6. QED  BY <1>1, <1>2, <1>5 DEF HearResponse

\* Processes of the slots D are done away with.
Buries(D) ==
  /\ \A c \in Slots : c \notin D => proc'[c] = proc[c] /\ cart'[c] = cart[c]
  /\ \A c \in D : /\ proc'[c].state = "none" /\ proc'[c].pipe = <<>> /\ Pipe(c)' = {}
                  /\ proc'[c].taken = {} /\ proc'[c].told = {} /\ proc'[c].ended = {} /\ proc'[c].asked = {}
                  /\ cart'[c].generation = cart[c].generation + 1
                  /\ cart'[c].writer = "open" /\ cart'[c].install = cart[c].install
  /\ incoming' = [r \in Served |-> IF r \in Lost(D) THEN 0 ELSE incoming[r]]
  /\ outgoing' = [p \in Peers |-> IF p \in Orphaned(D) THEN 0 ELSE outgoing[p]]
  /\ bodyDone' = bodyDone \ Lost(D) /\ responseDone' = responseDone \ Lost(D)
  /\ links' \subseteq links
  /\ Answer(Lost(D)) /\ Grows(Forth(Orphaned(D)) \cup Back(Lost(D)))
  /\ UNCHANGED <<up, bodySent, cancelled>>

LEMMA TwoKinds ==
  ASSUME NEW S \in SUBSET Frames, IsFiniteSet(S), \A f \in S : f.kind = "BODY", NEW s \in Orders(S),
         NEW T \in SUBSET Frames, IsFiniteSet(T), \A f \in T : f.kind = "RESPONSE", NEW t \in Orders(T)
  PROVE  /\ s \o t \in Seq(Frames) /\ In(s \o t) = S \cup T
         /\ \A f, g \in S \cup T : f = g \/ (f.kind = "BODY" /\ g.kind = "RESPONSE") => Before(s \o t, f, g)
<1>1. /\ s \in Seq(Frames) /\ In(s) = S
      /\ \A f, g \in S : f = g \/ (f.kind = "BODY" /\ g.kind = "RESPONSE") => Before(s, f, g)
  BY OneKind
<1>2. /\ t \in Seq(Frames) /\ In(t) = T
      /\ \A f, g \in T : f = g \/ (f.kind = "BODY" /\ g.kind = "RESPONSE") => Before(t, f, g)
  BY OneKind
<1>3. Moved(s, s \o t, {}, In(s), T)
  BY <1>1, <1>2, ConcatMoved
<1>4. In(s \o t) = S \cup T
  BY <1>1, <1>3 DEF Moved
<1>5. ASSUME NEW f \in S \cup T, NEW g \in S \cup T, f = g \/ (f.kind = "BODY" /\ g.kind = "RESPONSE")
      PROVE  Before(s \o t, f, g)
  <2>1. ASSUME NEW x \in In(s) PROVE x.kind = "BODY"
    BY <1>1, <2>1
  <2>2. Before(s, f, g)
    <3>1. CASE f \in S /\ g \in S
      BY <1>1, <1>5, <3>1
    <3>2. CASE f \notin S \/ g \notin S
      BY <1>1, <3>2 DEF Before, In
    <3>3. QED  BY <3>1, <3>2
  <2>3. Fits(f, g, In(s), T)
    BY <1>1, <1>5 DEF Fits
  <2>4. QED  BY <1>3, <2>2, <2>3 DEF Moved
<1>6. s \o t \in Seq(Frames)
  BY <1>1, <1>2, ConcatProperties
<1>7. QED  BY <1>4, <1>5, <1>6

LEMMA BuryDoes ==
  ASSUME TypeInv, NEW D \in SUBSET Slots, Bury(cart, D), UNCHANGED <<up, bodySent, cancelled>>
  PROVE  Buries(D)
<1>1. \A c \in Slots : c \notin D => proc'[c] = proc[c] /\ cart'[c] = cart[c]
  BY DEF Bury, Buried
<1>2. ASSUME NEW c \in D
      PROVE  /\ proc'[c].state = "none" /\ proc'[c].pipe = <<>> /\ Pipe(c)' = {}
             /\ proc'[c].taken = {} /\ proc'[c].told = {} /\ proc'[c].ended = {} /\ proc'[c].asked = {}
             /\ cart'[c].generation = cart[c].generation + 1
             /\ cart'[c].writer = "open" /\ cart'[c].install = cart[c].install
  <2>1. c \in Slots /\ cart[c] \in Cartridge
    BY Typed
  <2>2. proc'[c] = NoProcess
    BY <2>1 DEF Bury
  <2>3. cart'[c] = [cart[c] EXCEPT !.running = FALSE, !.generation = @ + 1, !.reason = "none",
                                   !.late = FALSE, !.writer = "open"]
    BY <2>1 DEF Bury, Buried
  <2>4. /\ cart'[c].generation = cart[c].generation + 1
        /\ cart'[c].writer = "open" /\ cart'[c].install = cart[c].install
    BY <2>1, <2>3 DEF Cartridge
  <2>5. In(<<>>) = {}
    BY DEF In
  <2>6. QED  BY <2>2, <2>4, <2>5 DEF NoProcess, Pipe
<1>3. PICK s \in Orders(Forth(Orphaned(D))), t \in Orders(Back(Lost(D))) : relayIn' = relayIn \o s \o t
  BY DEF Bury
<1> DEFINE S == Forth(Orphaned(D))
           T == Back(Lost(D))
<1>4. Orphaned(D) \in SUBSET Peers
  BY DEF Orphaned, Asked
<1>5. /\ S \in SUBSET Frames /\ IsFiniteSet(S) /\ \A f \in S : f.kind = "BODY"
      /\ T \in SUBSET Frames /\ IsFiniteSet(T) /\ \A f \in T : f.kind = "RESPONSE"
  BY <1>4, SentKinds
<1>6. s \in Orders(S) /\ t \in Orders(T) /\ s \in Seq(Frames) /\ t \in Seq(Frames)
  BY <1>5, OneKind
<1> HIDE DEF S, T
<1>7. /\ s \o t \in Seq(Frames) /\ In(s \o t) = S \cup T
      /\ \A f, g \in S \cup T : f = g \/ (f.kind = "BODY" /\ g.kind = "RESPONSE") => Before(s \o t, f, g)
  BY <1>5, <1>6, TwoKinds
<1>8. relayIn' = relayIn \o (s \o t) /\ relayIn \in Seq(Frames)
  BY <1>3, <1>6, Typed, ConcatAssociative
<1>9. Moved(relayIn, relayIn', {}, Rel, S \cup T)
  BY <1>7, <1>8, ConcatMoved DEF Rel
<1>10. Grows(S \cup T)
  BY <1>9 DEF Grows, Moved, Rel
<1>11. QED  BY <1>1, <1>2, <1>10 DEF Buries, Bury, S, T

-----------------------------------------------------------------------------
(* The steps, by what they do to what the host routes                        *)
maps == <<incoming, outgoing, bodyDone, responseDone, links>>
says == <<requested, bodySent, answers, cancelled>>

\* The engine, and other hosts.
DoRequest(r) ==
  /\ r \in Calls /\ requested[r] = "no" /\ requested' = [requested EXCEPT ![r] = "live"]
  /\ Grows({Frame("REQ", r)})
  /\ UNCHANGED <<up, cart, proc, maps, events, bodySent, answers, cancelled>>
DoBody(r) ==
  /\ r \in Calls /\ requested[r] = "live" /\ bodySent' = bodySent \cup {r}
  /\ Grows({Frame("BODY", r)})
  /\ UNCHANGED <<up, cart, proc, maps, events, requested, answers, cancelled>>
DoCancelCall(r, kind) ==
  /\ r \in Cancels /\ kind \in Kinds /\ requested[r] = "live" /\ cancelled' = cancelled \cup {r}
  /\ Grows({Frame(kind, r)})
  /\ UNCHANGED <<up, cart, proc, maps, events, requested, bodySent, answers>>
DoRemote(p) ==
  /\ p \in Peers /\ requested[p] = "away" /\ requested' = [requested EXCEPT ![p] = "over"]
  /\ Grows({Frame("RESPONSE", p)})
  /\ UNCHANGED <<up, cart, proc, maps, events, bodySent, answers, cancelled>>

\* Processes.
DoTake(c) ==
  /\ proc[c].state = "up" /\ TakeFrame(c)
  /\ UNCHANGED <<up, cart, maps, relayIn, events, says>>
DoMake(c, p) ==
  /\ MakePeer(c, p) /\ Tell(c, Frame("REQ", p))
  /\ \A d \in Slots : d # c => proc'[d] = proc[d]
  /\ proc'[c].asked = proc[c].asked \cup {p}
  /\ UNCHANGED <<proc[c].state, proc[c].pipe, proc[c].taken, proc[c].told, proc[c].ended>>
  /\ UNCHANGED <<up, cart, maps, relayIn, says>>
DoArgument(c, p) ==
  /\ proc[c].state = "up" /\ p \in proc[c].asked /\ p \notin bodySent /\ bodySent' = bodySent \cup {p}
  /\ Tell(c, Frame("BODY", p))
  /\ UNCHANGED <<up, cart, proc, maps, relayIn, requested, answers, cancelled>>
DoRespond(c, r) ==
  /\ Respond(c, r) /\ Tell(c, Frame("RESPONSE", r))
  /\ \A d \in Slots : d # c => proc'[d] = proc[d]
  /\ proc'[c].taken = proc[c].taken \ {r} /\ proc'[c].ended = proc[c].ended \ {r}
  /\ proc'[c].told = proc[c].told \ {r} /\ proc'[c].asked = proc[c].asked \ Children(c, r)
  /\ UNCHANGED <<proc[c].state, proc[c].pipe>>
  /\ UNCHANGED <<up, cart, maps, relayIn, says>>
DoEof(c) ==
  /\ proc[c].state = "dead" /\ proc'[c].state = "read" /\ Tell(c, Death)
  /\ \A d \in Slots : d # c => proc'[d] = proc[d]
  /\ UNCHANGED <<proc[c].pipe, proc[c].taken, proc[c].told, proc[c].ended, proc[c].asked>>
  /\ UNCHANGED <<up, cart, maps, relayIn, says>>
DoWriterFails(c) ==
  /\ proc[c].state \in {"dead", "read"} /\ cart[c].install # NoInstall
  /\ Pipe(c)' = {} /\ proc'[c].pipe = <<>>
  /\ UNCHANGED <<proc[c].state, proc[c].taken, proc[c].told, proc[c].ended, proc[c].asked>>
  /\ cart'[c].install = cart[c].install /\ cart'[c].generation = cart[c].generation
  /\ cart'[c].writer = "gone"
  /\ \A d \in Slots : d # c => proc'[d] = proc[d] /\ cart'[d] = cart[d]
  /\ UNCHANGED <<up, maps, relayIn, events, says>>

\* The relay's frames.
DoStop ==
  /\ ~up' /\ Rel' = {} /\ Ev' = {} /\ relayIn' = <<>> /\ events' = <<>>
  /\ \A c \in Slots : /\ Pipe(c)' = {} /\ proc'[c].pipe = <<>> /\ proc'[c].state = "none"
                      /\ proc'[c].taken = {} /\ proc'[c].told = {}
                      /\ proc'[c].ended = {} /\ proc'[c].asked = {}
                      /\ cart'[c].writer = "open" /\ cart'[c].install = cart[c].install
                      /\ cart'[c].generation = cart[c].generation
  /\ UNCHANGED <<maps, says>>
DoNoHandler(r) ==
  /\ up /\ r \in Served /\ Head(relayIn) = Frame("REQ", r) /\ Offering(Wants[r]) = {}
  /\ PopsAndGrows(Back({r})) /\ Answer({r})
  /\ UNCHANGED <<up, cart, proc, maps, events, bodySent, cancelled>>
DoServe(r, c) ==
  /\ r \in Served /\ Head(relayIn) = Frame("REQ", r) /\ Pops
  /\ c \in Slots /\ cart[c].install = Wants[r] /\ cart[c].install # NoInstall
  /\ incoming' = [incoming EXCEPT ![r] = c]
  /\ \A d \in Slots : d # c => proc'[d] = proc[d] /\ cart'[d] = cart[d]
  /\ cart'[c].install = cart[c].install /\ cart'[c].writer = cart[c].writer
  /\ \/ /\ cart'[c] = cart[c] /\ CanSend(c) /\ proc[c].state # "none" /\ Gets(c, Frame("REQ", r))
     \/ /\ proc[c].state = "none" /\ cart'[c].generation = cart[c].generation + 1
        /\ \A x \in Served : incoming[x] # c
        /\ Moved(<<>>, proc'[c].pipe, {}, {}, {Frame("REQ", r)})
        /\ Pipe(c)' = {Frame("REQ", r)} /\ proc'[c].state = "up"
        /\ proc'[c].taken = {} /\ proc'[c].told = {} /\ proc'[c].ended = {} /\ proc'[c].asked = {}
  /\ UNCHANGED <<up, outgoing, bodyDone, responseDone, links, events, says>>
DoUnrouted(r) ==
  /\ r \in Requests /\ Head(relayIn) = Frame(Head(relayIn).kind, r)
  /\ Head(relayIn).kind \in {"BODY", "RESPONSE"} /\ Pops
  /\ UNCHANGED <<up, cart, proc, maps, events, says>>
DoDeliver(r, c) ==
  /\ r \in Requests /\ Head(relayIn) \in Rel /\ Head(relayIn) = Frame(Head(relayIn).kind, r)
  /\ Head(relayIn).kind \in {"BODY", "RESPONSE"} /\ Pops
  /\ c \in Slots /\ CanSend(c) /\ Gets(c, Head(relayIn))
  /\ \/ /\ ToServer(r) /\ r \in Served /\ c = incoming[r] /\ UNCHANGED outgoing
        /\ IF r \in responseDone
           THEN incoming' = [incoming EXCEPT ![r] = 0] /\ responseDone' = responseDone \ {r} /\ UNCHANGED bodyDone
           ELSE bodyDone' = bodyDone \cup {r} /\ UNCHANGED <<incoming, responseDone>>
     \/ /\ ToMaker(r) /\ r \in Peers /\ c = outgoing[r] /\ outgoing' = [outgoing EXCEPT ![r] = 0]
        /\ UNCHANGED <<incoming, bodyDone, responseDone>>
  /\ UNCHANGED <<up, cart, links, events, says>>
DoUndeliver(r) ==
  /\ up
  /\ r \in Requests /\ Head(relayIn) \in Rel /\ Head(relayIn) = Frame(Head(relayIn).kind, r)
  /\ Head(relayIn).kind \in {"BODY", "RESPONSE"} /\ PopsAndGrows(Back({r})) /\ Answer({r})
  /\ \/ r \in Served /\ incoming[r] \in Slots /\ ~CanSend(incoming[r])
     \/ ToMaker(r) /\ r \in Peers /\ outgoing[r] \in Slots /\ ~CanSend(outgoing[r])
  /\ incoming' = [q \in Served |-> IF q = r THEN 0 ELSE incoming[q]]
  /\ outgoing' = [p \in Peers |-> IF p = r THEN 0 ELSE outgoing[p]]
  /\ bodyDone' = bodyDone \ {r} /\ responseDone' = responseDone \ {r}
  /\ UNCHANGED <<up, cart, proc, links, events, bodySent, cancelled>>
DoCancel(r) ==
  /\ r \in Served /\ Head(relayIn) = Frame("CANCEL", r) /\ Head(relayIn) \in Rel
  /\ \/ Pops /\ proc' = proc
     \/ /\ PopsAndGrows(Cascade(r)) /\ incoming[r] \in Slots
        /\ \/ proc' = proc
           \/ \E c \in Slots : c = incoming[r] /\ CanSend(c) /\ Gets(c, Frame("CANCEL", r))
  /\ UNCHANGED <<up, cart, maps, events, says>>
DoKill == Ails /\ Pops /\ Head(relayIn).kind = "KILL"

\* The cartridges' events, and the end of processes.
DoOld ==
  /\ Drops /\ \A c \in Slots : \A f : Event(c, f) # Head(events)
  /\ UNCHANGED <<up, cart, proc, maps, relayIn, says>>
DoHearRequest(c, p) ==
  /\ Drops /\ c \in Slots /\ Head(events) \in Ev
  /\ Head(events) = Event(c, Frame("REQ", p)) /\ p \in Peers
  /\ outgoing' = [outgoing EXCEPT ![p] = c]
  /\ links' \subseteq links \cup {<<Parent[p], p>>}
  /\ \/ /\ p \in Local /\ requested' = [requested EXCEPT ![p] = "live"] /\ Grows({Frame("REQ", p)})
     \/ /\ p \in Away /\ requested' = [requested EXCEPT ![p] = "away"] /\ UNCHANGED relayIn
  /\ UNCHANGED <<up, cart, proc, incoming, bodyDone, responseDone, bodySent, answers, cancelled>>
DoHearBody(c, p) ==
  /\ Drops /\ c \in Slots /\ Head(events) \in Ev
  /\ Head(events) = Event(c, Frame("BODY", p)) /\ p \in Peers /\ Grows(Forth({p}))
  /\ UNCHANGED <<up, cart, proc, maps, says>>
DoHearResponse(c, r) ==
  /\ Drops /\ c \in Slots /\ Head(events) \in Ev /\ Hears("RESPONSE") /\ Head(events).frame.req = r
  /\ Head(events).slot = c
  /\ Head(events) = Event(c, Frame("RESPONSE", r)) /\ r \in Served
  /\ Release(r) /\ Answer({r}) /\ Grows(Back({r}))
  /\ UNCHANGED <<up, cart, proc, outgoing, links, bodySent, cancelled>>
DoBury(D) ==
  /\ D \in SUBSET Slots /\ Buries(D)
  /\ (Drops /\ Head(events).frame.kind = "DEATH") \/ UNCHANGED events
  /\ up /\ \A c \in D : cart[c].late \/ Tells(c, Death)

DoAil == Ails /\ UNCHANGED relayIn

Steps ==
  \/ \E r \in Calls : DoRequest(r) \/ DoBody(r) \/ \E kind \in Kinds : DoCancelCall(r, kind)
  \/ \E p \in Peers : DoRemote(p)
  \/ \E c \in Slots : DoTake(c) \/ DoEof(c) \/ DoWriterFails(c)
  \/ \E c \in Slots, p \in Peers : DoMake(c, p) \/ DoArgument(c, p)
  \/ \E c \in Slots, r \in Served : DoRespond(c, r)
  \/ DoStop \/ DoKill \/ DoAil \/ DoOld
  \/ \E r \in Served : DoNoHandler(r) \/ DoCancel(r) \/ \E c \in Slots : DoServe(r, c)
  \/ \E r \in Requests : DoUnrouted(r) \/ DoUndeliver(r) \/ \E c \in Slots : DoDeliver(r, c)
  \/ \E c \in Slots, p \in Peers : DoHearRequest(c, p) \/ DoHearBody(c, p)
  \/ \E c \in Slots, r \in Served : DoHearResponse(c, r)
  \/ \E D \in SUBSET Slots : DoBury(D)

LEMMA OutsideDoes ==
  ASSUME IInv, DeadHoldNothing, Outside
  PROVE  Steps
<1> USE DEF tables, switch, outside, maps, says
<1>0. TypeInv
  BY DEF IInv
<1>1. ASSUME NEW r \in Calls, EngineRequest(r) PROVE Steps
  <2>1. Frame("REQ", r) \in Frames
    BY DEF Frame, Frames, Served
  <2>2. Grows({Frame("REQ", r)})
    BY <1>0, <1>1, <2>1, RelayAdds DEF EngineRequest, Grows
  <2>3. DoRequest(r)
    BY <1>1, <2>2 DEF DoRequest, EngineRequest
  <2>4. QED  BY <2>3 DEF Steps
<1>2. ASSUME NEW r \in Calls, EngineBody(r) PROVE Steps
  <2>1. Frame("BODY", r) \in Frames
    BY DEF Frame, Frames, Requests
  <2>2. Grows({Frame("BODY", r)})
    BY <1>0, <1>2, <2>1, RelayAdds DEF EngineBody, Grows
  <2>3. DoBody(r)
    BY <1>2, <2>2 DEF DoBody, EngineBody
  <2>4. QED  BY <2>3 DEF Steps
<1>3. ASSUME NEW r \in Calls, NEW kind \in Kinds, EngineCancel(r, kind) PROVE Steps
  <2>1. Frame(kind, r) \in Frames
    BY CancelsType DEF Frame, Frames, Served
  <2>2. Grows({Frame(kind, r)})
    BY <1>0, <1>3, <2>1, RelayAdds DEF EngineCancel, Grows
  <2>3. DoCancelCall(r, kind)
    BY <1>3, <2>2 DEF DoCancelCall, EngineCancel
  <2>4. QED  BY <2>3 DEF Steps
<1>4. ASSUME NEW p \in Peers, RemoteAnswers(p) PROVE Steps
  <2>1. Frame("RESPONSE", p) \in Frames
    BY DEF Frame, Frames, Requests
  <2>2. Grows({Frame("RESPONSE", p)})
    BY <1>0, <1>4, <2>1, RelayAdds DEF RemoteAnswers, Grows
  <2>3. DoRemote(p)
    BY <1>4, <2>2 DEF DoRemote, RemoteAnswers
  <2>4. QED  BY <2>3 DEF Steps
<1>5. CASE \/ \E R \in SUBSET Installs : SyncRoster(R)
           \/ \E c \in Slots : Crash(c) \/ Hang(c) \/ ProbeLate(c) \/ KillCartridge(c) \/ DrainExpires(c)
  <2>1. Ails /\ UNCHANGED relayIn
    BY <1>5, AilsDoes
  <2>2. QED  BY <2>1 DEF Steps, DoAil
<1>6. QED  BY <1>1, <1>2, <1>3, <1>4, <1>5 DEF Outside

LEMMA ProcessDoes ==
  ASSUME IInv, DeadHoldNothing, NEW c \in Slots, ProcessStep(c)
  PROVE  Steps
<1> USE DEF tables, switch, outside, maps, says
<1>0. TypeInv /\ proc \in [Slots -> Process] /\ proc[c] \in Process /\ cart \in [Slots -> Cartridge] /\ cart[c] \in Cartridge
  BY DEF IInv, TypeInv, TypeOK
<1>1. CASE TakeFrame(c)
  <2>1. DoTake(c)
    BY <1>1 DEF DoTake, TakeFrame, Alive
  <2>2. QED  BY <2>1 DEF Steps
<1>2. CASE ReaderEof(c)
  <2>1. Tell(c, Death)
    BY <1>0, <1>2, EventSaid DEF ReaderEof, Tell, Sayings
  <2>2. proc'[c] = [proc[c] EXCEPT !.state = "read"] /\ \A d \in Slots : d # c => proc'[d] = proc[d]
    BY <1>0, <1>2 DEF ReaderEof
  <2>3. /\ proc'[c].state = "read"
        /\ UNCHANGED <<proc[c].pipe, proc[c].taken, proc[c].told, proc[c].ended, proc[c].asked>>
    BY <1>0, <2>2 DEF Process
  <2>4. DoEof(c)
    BY <1>2, <2>1, <2>2, <2>3 DEF DoEof, ReaderEof
  <2>5. QED  BY <2>4 DEF Steps
<1>3. CASE WriterFails(c)
  <2>1. proc'[c] = [proc[c] EXCEPT !.pipe = <<>>] /\ \A d \in Slots : d # c => proc'[d] = proc[d] /\ cart'[d] = cart[d]
    BY <1>0, <1>3 DEF WriterFails
  <2>2. cart'[c] = [cart[c] EXCEPT !.writer = "gone"]
    BY <1>0, <1>3 DEF WriterFails
  <2>3. /\ proc'[c].pipe = <<>>
        /\ UNCHANGED <<proc[c].state, proc[c].taken, proc[c].told, proc[c].ended, proc[c].asked>>
    BY <1>0, <2>1 DEF Process
  <2>4. /\ cart'[c].install = cart[c].install /\ cart'[c].generation = cart[c].generation
        /\ cart'[c].writer = "gone"
    BY <1>0, <2>2 DEF Cartridge
  <2>5. Pipe(c)' = {}
    BY <2>3 DEF Pipe, In
  <2>6. cart[c].install # NoInstall /\ proc[c].state \in {"dead", "read"}
    BY <1>3, RunningRegistered DEF WriterFails
  <2>7. DoWriterFails(c)
    BY <1>3, <2>1, <2>3, <2>4, <2>5, <2>6 DEF DoWriterFails, WriterFails
  <2>8. QED  BY <2>7 DEF Steps
<1>4. CASE AnswerProbe(c)
  <2>1. Ails /\ UNCHANGED relayIn
    BY <1>4, AilsDoes
  <2>2. QED  BY <2>1 DEF Steps, DoAil
<1>5. ASSUME NEW p \in Peers, MakePeer(c, p) PROVE Steps
  <2>1. Frame("REQ", p) \in Sayings
    BY DEF Sayings, Frame
  <2>2. Tell(c, Frame("REQ", p))
    BY <1>0, <1>5, <2>1, EventSaid DEF MakePeer, Tell
  <2>3. /\ proc'[c] = [proc[c] EXCEPT !.asked = proc[c].asked \cup {p}]
        /\ \A d \in Slots : d # c => proc'[d] = proc[d]
    BY <1>0, <1>5 DEF MakePeer
  <2>4. /\ proc'[c].asked = proc[c].asked \cup {p}
        /\ UNCHANGED <<proc[c].state, proc[c].pipe, proc[c].taken, proc[c].told, proc[c].ended>>
    BY <1>0, <2>3 DEF Process
  <2>5. DoMake(c, p)
    BY <1>5, <2>2, <2>3, <2>4 DEF DoMake, MakePeer
  <2>6. QED  BY <2>5 DEF Steps
<1>6. ASSUME NEW p \in Peers, EndArgument(c, p) PROVE Steps
  <2>1. Frame("BODY", p) \in Sayings
    BY DEF Sayings, Frame
  <2>2. Tell(c, Frame("BODY", p))
    BY <1>0, <1>6, <2>1, EventSaid DEF EndArgument, Tell
  <2>3. DoArgument(c, p)
    BY <1>6, <2>2 DEF DoArgument, EndArgument, Alive
  <2>4. QED  BY <2>3 DEF Steps
<1>7. ASSUME NEW r \in Served, Respond(c, r) PROVE Steps
  <2>1. Frame("RESPONSE", r) \in Sayings
    BY DEF Sayings, Frame
  <2>2. Tell(c, Frame("RESPONSE", r))
    BY <1>0, <1>7, <2>1, EventSaid DEF Respond, Tell
  <2>3. /\ proc'[c] = [proc[c] EXCEPT !.taken = proc[c].taken \ {r}, !.ended = proc[c].ended \ {r},
                                      !.told = proc[c].told \ {r}, !.asked = proc[c].asked \ Children(c, r)]
        /\ \A d \in Slots : d # c => proc'[d] = proc[d]
    BY <1>0, <1>7 DEF Respond
  <2>4. /\ proc'[c].taken = proc[c].taken \ {r} /\ proc'[c].ended = proc[c].ended \ {r}
        /\ proc'[c].told = proc[c].told \ {r} /\ proc'[c].asked = proc[c].asked \ Children(c, r)
        /\ UNCHANGED <<proc[c].state, proc[c].pipe>>
    BY <1>0, <2>3 DEF Process
  <2>5. DoRespond(c, r)
    BY <1>7, <2>2, <2>3, <2>4 DEF DoRespond, Respond
  <2>6. QED  BY <2>5 DEF Steps
<1>8. QED  BY <1>1, <1>2, <1>3, <1>4, <1>5, <1>6, <1>7 DEF ProcessStep

LEMMA RelayDoes ==
  ASSUME IInv, RelayStep
  PROVE  Steps
<1> USE DEF tables, switch, outside, maps, says
<1>0. TypeInv
  BY DEF IInv
<1>1. CASE NoHandler
  <2> DEFINE r == Head(relayIn).req
  <2>1. /\ Head(relayIn) = Frame("REQ", r) /\ r \in Served /\ PopsAndGrows(Back({r}))
    BY <1>0, <1>1, NoHandlerDoes DEF PopsAndGrows
  <2>2. DoNoHandler(r)
    BY <1>1, <2>1 DEF DoNoHandler, NoHandler, Takes
  <2>3. QED  BY <2>1, <2>2 DEF Steps
<1>2. CASE Serve
  <2>0. PICK r, c : r = Head(relayIn).req /\ c = First(Offering(Wants[r]))
    OBVIOUS
  <2>10. Serves(r, c)
    BY <1>2, <2>0, ServeDoes
  <2>1. DoServe(r, c)
    <3>1. UNCHANGED <<up, outgoing, bodyDone, responseDone, links, events, says>>
      BY <1>2 DEF Serve
    <3>2. /\ Head(relayIn) = Frame("REQ", r) /\ r \in Served
          /\ c \in Slots /\ cart[c].install = Wants[r] /\ cart[c].install # NoInstall
          /\ Pops /\ incoming' = [incoming EXCEPT ![r] = c]
          /\ \A d \in Slots : d # c => proc'[d] = proc[d] /\ cart'[d] = cart[d]
          /\ cart'[c].install = cart[c].install /\ cart'[c].writer = cart[c].writer
      BY <2>10 DEF Serves, Pops
    <3>3. CASE cart[c].running
      <4>1. cart'[c] = cart[c] /\ CanSend(c) /\ proc[c].state # "none" /\ Gets(c, Frame("REQ", r))
        BY <2>10, <3>2, <3>3 DEF Serves, Gets
      <4>2. QED  BY <3>1, <3>2, <4>1 DEF DoServe
    <3>4. CASE ~cart[c].running
      <4>1. /\ proc[c].state = "none" /\ cart'[c].generation = cart[c].generation + 1
            /\ \A x \in Served : incoming[x] # c
            /\ Moved(<<>>, proc'[c].pipe, {}, {}, {Frame("REQ", r)})
            /\ Pipe(c)' = {Frame("REQ", r)} /\ proc'[c].state = "up"
            /\ proc'[c].taken = {} /\ proc'[c].told = {} /\ proc'[c].ended = {} /\ proc'[c].asked = {}
        BY <2>10, <3>4 DEF Serves
      <4>2. QED  BY <3>1, <3>2, <4>1 DEF DoServe
    <3>5. QED  BY <3>3, <3>4
  <2>2. r \in Served /\ c \in Slots
    BY <2>1 DEF DoServe
  <2>3. QED  BY <2>1, <2>2 DEF Steps
<1>3. CASE ServeFails
  <2>1. DoStop
    BY <1>0, <1>3, StopDoes DEF ServeFails, DoStop
  <2>2. QED  BY <2>1 DEF Steps
<1>4. CASE CancelRequest
  <2> DEFINE r == Head(relayIn).req
  <2>1. DoCancel(r)
    BY <1>0, <1>4, CancelDoes DEF DoCancel, CancelRequest
  <2>2. r \in Served
    BY <2>1 DEF DoCancel
  <2>3. QED  BY <2>1, <2>2 DEF Steps
<1>5. CASE ForceKill
  <2>1. DoKill
    BY <1>5, ForceKillDoes DEF DoKill, Pops
  <2>2. QED  BY <2>1 DEF Steps
<1>6. ASSUME NEW r \in Requests, Unrouted(r) PROVE Steps
  <2>1. DoUnrouted(r)
    BY <1>0, <1>6, UnroutedDoes DEF DoUnrouted, Unrouted
  <2>2. QED  BY <2>1 DEF Steps
<1>7. ASSUME NEW r \in Requests, Deliver(r) PROVE Steps
  <2>0. PICK c : c = IF ToServer(r) THEN Server(r) ELSE Maker(r)
    OBVIOUS
  <2>1. /\ c \in Slots /\ CanSend(c) /\ Head(relayIn) \in Rel
        /\ Head(relayIn) = Frame(Head(relayIn).kind, r) /\ Head(relayIn).kind \in {"BODY", "RESPONSE"}
        /\ ToServer(r) => r \in Served /\ c = incoming[r]
        /\ ~ToServer(r) => r \in Peers /\ c = outgoing[r]
        /\ Pops /\ Gets(c, Head(relayIn))
    BY <1>0, <1>7, <2>0, DeliverDoes
  <2>2. UNCHANGED <<up, cart, links, events, says>> /\ (ToServer(r) \/ ToMaker(r))
    BY <1>7 DEF Deliver
  <2>3. IF ToServer(r)
        THEN /\ IF r \in responseDone
                THEN incoming' = [incoming EXCEPT ![r] = 0] /\ responseDone' = responseDone \ {r} /\ UNCHANGED bodyDone
                ELSE bodyDone' = bodyDone \cup {r} /\ UNCHANGED <<incoming, responseDone>>
             /\ UNCHANGED outgoing
        ELSE outgoing' = [outgoing EXCEPT ![r] = 0] /\ UNCHANGED <<incoming, bodyDone, responseDone>>
    BY <1>7 DEF Deliver
  <2>4. DoDeliver(r, c)
    BY <2>1, <2>2, <2>3 DEF DoDeliver
  <2>5. QED  BY <2>1, <2>4 DEF Steps
<1>8. ASSUME NEW r \in Requests, Undeliverable(r) PROVE Steps
  <2>1. DoUndeliver(r)
    BY <1>0, <1>8, UndeliverableDoes DEF DoUndeliver, Undeliverable, Terminal, Takes
  <2>2. QED  BY <2>1 DEF Steps
<1>9. QED  BY <1>1, <1>2, <1>3, <1>4, <1>5, <1>6, <1>7, <1>8 DEF RelayStep

LEMMA EventDoes ==
  ASSUME TypeInv, EventStep
  PROVE  Steps
<1> USE DEF tables, switch, outside, maps, says
<1> DEFINE c == Head(events).slot
           r == Head(events).frame.req
<1>1. CASE OldEvent
  <2>1. DoOld
    BY <1>1, OldEventDoes DEF DoOld, OldEvent
  <2>2. QED  BY <2>1 DEF Steps
<1>2. CASE HearRequest
  <2>1. DoHearRequest(c, r)
    BY <1>2, HearRequestDoes DEF DoHearRequest, HearRequest
  <2>2. c \in Slots /\ r \in Peers
    BY <2>1 DEF DoHearRequest
  <2>3. QED  BY <2>1, <2>2 DEF Steps
<1>3. CASE HearBody
  <2>1. DoHearBody(c, r)
    BY <1>3, HearBodyDoes DEF DoHearBody, HearBody
  <2>2. c \in Slots /\ r \in Peers
    BY <2>1 DEF DoHearBody
  <2>3. QED  BY <2>1, <2>2 DEF Steps
<1>4. CASE HearResponse
  <2>1. DoHearResponse(c, r)
    BY <1>4, HearResponseDoes DEF DoHearResponse, HearResponse
  <2>2. c \in Slots /\ r \in Served
    BY <2>1 DEF DoHearResponse
  <2>3. QED  BY <2>1, <2>2 DEF Steps
<1>5. CASE HearDeath
  <2>1. Hears("DEATH") /\ Bury(cart, {c}) /\ events' = Tail(events) /\ UNCHANGED <<up, bodySent, cancelled>>
    BY <1>5 DEF HearDeath
  <2>2. c \in Slots /\ Drops /\ Head(events).frame.kind = "DEATH"
    BY <2>1, HearsDoes DEF Hears
  <2>3. Buries({c})
    BY <2>1, <2>2, BuryDoes
  <2>4. up /\ Tells(c, Death)
    <3>1. up /\ Head(events) \in Ev /\ Head(events) = Event(c, Frame("DEATH", r))
      BY <2>1, HearsDoes DEF Hears
    <3>2. Ev \subseteq Events
      BY Typed
    <3>3. Frame("DEATH", r) \in Sayings
      BY <3>1, <3>2 DEF Events, Event
    <3>4. Frame("DEATH", r) = Death
      BY <3>3 DEF Sayings, Death, Frame
    <3>5. QED  BY <3>1, <3>4 DEF Tells
  <2>6. DoBury({c})
    BY <2>2, <2>3, <2>4 DEF DoBury
  <2>7. QED  BY <2>2, <2>6 DEF Steps
<1>6. QED  BY <1>1, <1>2, <1>3, <1>4, <1>5 DEF EventStep

LEMMA StepDoes ==
  ASSUME IInv, DeadHoldNothing, [Next]_vars
  PROVE  Steps
<1>1. CASE RelayStep
  BY <1>1, RelayDoes
<1>2. CASE EventStep
  BY <1>2, EventDoes DEF IInv
<1>3. CASE HeartbeatTick
  <2>1. /\ Late \in SUBSET Slots /\ Bury(cart, Late) /\ UNCHANGED <<up, bodySent, cancelled, events>>
        /\ up /\ \A c \in Late : cart[c].late
    BY <1>3 DEF HeartbeatTick, Late, outside
  <2>2. DoBury(Late)
    BY <2>1, BuryDoes DEF DoBury, IInv
  <2>3. QED  BY <2>1, <2>2 DEF Steps
<1>4. CASE ReapDrained \/ UNCHANGED vars
  <2>1. DoAil
    BY <1>4, AilsDoes DEF DoAil
  <2>2. QED  BY <2>1 DEF Steps
<1>5. CASE Outside
  BY <1>5, OutsideDoes
<1>6. CASE \E c \in Slots : ProcessStep(c)
  BY <1>6, ProcessDoes
<1>7. QED  BY <1>1, <1>2, <1>3, <1>4, <1>5, <1>6 DEF Next, Timers

-----------------------------------------------------------------------------
(* What cartridges say, from one step to the next                            *)
\* Events come from slots that were registered, and never from a process that
\* is yet to be spawned.
EventSlots ==
  \A e \in Ev : cart[e.slot].install # NoInstall /\ e.generation =< cart[e.slot].generation

LEMMA EventIs ==
  ASSUME NEW c, NEW f, NEW d, NEW g
  PROVE  /\ Event(c, f).slot = c /\ Event(c, f).frame = f /\ Event(c, f).generation = cart[c].generation
         /\ Event(c, f) = Event(d, g) => c = d /\ f = g
  BY DEF Event

LEMMA TellsSame ==
  ASSUME UNCHANGED events, NEW c, cart'[c].generation = cart[c].generation, NEW f
  PROVE  Tells(c, f)' <=> Tells(c, f)
  BY DEF Tells, Event, Ev

LEMMA TellsGone ==
  ASSUME IInv, EventSlots, Ev' \subseteq Ev, NEW c \in Slots,
         cart'[c].generation = cart[c].generation + 1, NEW f
  PROVE  ~Tells(c, f)'
<1>1. SUFFICES ASSUME NEW e, e = Event(c, f)', e \in Ev PROVE FALSE
  BY DEF Tells
<1>2. e.slot = c /\ e.generation = cart[c].generation + 1
  BY <1>1 DEF Event
<1>3. cart[c].generation \in Nat
  BY DEF IInv, TypeInv, TypeOK, Cartridge
<1>4. QED  BY <1>1, <1>2, <1>3 DEF EventSlots

LEMMA TellsOn ==
  ASSUME NEW c, NEW f, Tell(c, f), UNCHANGED cart, NEW d, NEW g
  PROVE  Tells(d, g)' <=> Tells(d, g) \/ (d = c /\ g = f)
<1>1. Event(d, g)' = Event(d, g)
  BY DEF Event
<1>2. QED  BY <1>1, EventIs DEF Tells, Tell

LEMMA TellsLess ==
  ASSUME Drops, UNCHANGED cart, NEW d, NEW g
  PROVE  /\ Tells(d, g)' => Tells(d, g)
         /\ Tells(d, g) => Tells(d, g)' \/ Head(events) = Event(d, g)
<1>1. Event(d, g)' = Event(d, g)
  BY DEF Event
<1>2. QED  BY <1>1 DEF Tells, Drops

LEMMA AilsTells ==
  ASSUME EventSlots, Ails, NEW c \in Slots, NEW f
  PROVE  Tells(c, f)' <=> Tells(c, f)
<1>1. UNCHANGED events
  BY DEF Ails
<1>2. CASE cart[c].install # NoInstall
  <2>1. cart'[c].generation = cart[c].generation
    BY <1>2 DEF Ails
  <2>2. QED  BY <1>1, <2>1, TellsSame
<1>3. CASE cart[c].install = NoInstall
  <2>1. \A e \in Ev : e.slot # c
    BY <1>3 DEF EventSlots
  <2>2. Event(c, f).slot = c /\ Event(c, f)'.slot = c
    BY DEF Event
  <2>3. Ev' = Ev
    BY <1>1 DEF Ev
  <2>4. QED  BY <2>1, <2>2, <2>3 DEF Tells
<1>4. QED  BY <1>2, <1>3

LEMMA BuryTells ==
  ASSUME IInv, EventSlots, NEW D, DoBury(D), NEW c \in Slots, NEW f
  PROVE  IF c \in D THEN ~Tells(c, f)' ELSE Tells(c, f)' => Tells(c, f)
<1>1. Ev' \subseteq Ev
  BY DEF DoBury, Drops, Ev
<1>2. CASE c \in D
  <2>1. cart'[c].generation = cart[c].generation + 1
    BY <1>2 DEF DoBury, Buries
  <2>2. QED  BY <1>1, <1>2, <2>1, TellsGone
<1>3. CASE c \notin D
  <2>1. Event(c, f)' = Event(c, f)
    BY <1>3 DEF DoBury, Buries, Event
  <2>2. QED  BY <1>1, <1>3, <2>1 DEF Tells
<1>4. QED  BY <1>2, <1>3

LEMMA ServeTells ==
  ASSUME IInv, EventSlots, NEW r, NEW c \in Slots, DoServe(r, c), NEW d \in Slots, NEW f
  PROVE  IF d = c /\ proc[c].state = "none" THEN ~Tells(d, f)' ELSE Tells(d, f)' <=> Tells(d, f)
<1>1. UNCHANGED events /\ Ev' = Ev
  BY DEF DoServe, Ev
<1>2. CASE d = c /\ proc[c].state = "none"
  <2>1. cart'[c].generation = cart[c].generation + 1
    BY <1>2 DEF DoServe
  <2>2. QED  BY <1>1, <1>2, <2>1, TellsGone
<1>3. CASE ~(d = c /\ proc[c].state = "none")
  <2>1. cart'[d].generation = cart[d].generation
    BY <1>3 DEF DoServe
  <2>2. QED  BY <1>1, <1>3, <2>1, TellsSame
<1>4. QED  BY <1>2, <1>3

HoldsNothing(c) ==
  /\ cart[c].writer = "gone" => proc[c].state \in {"dead", "read"} /\ Pipe(c) = {}
  /\ proc[c].state \notin {"up", "hung"} =>
       proc[c].taken = {} /\ proc[c].told = {} /\ proc[c].ended = {} /\ proc[c].asked = {}
  /\ proc[c].state = "none" => Pipe(c) = {}

LEMMA DeadStill ==
  ASSUME IInv, DeadHoldNothing, Steps
  PROVE  DeadHoldNothing'
<1>a. \A c \in Slots : HoldsNothing(c)
  BY DEF DeadHoldNothing, HoldsNothing
<1>b. SUFFICES \A c \in Slots : HoldsNothing(c)'
  BY DEF DeadHoldNothing, HoldsNothing
<1>c. ASSUME NEW c \in Slots, cart'[c] = cart[c], proc'[c] = proc[c] PROVE HoldsNothing(c)'
  BY <1>a, <1>c DEF HoldsNothing, Pipe
<1>d. \A c \in Slots : proc[c].state \in {"none", "up", "hung", "dead", "read"}
  BY DEF IInv, TypeInv, TypeOK, Process
<1>1. ASSUME NEW c \in Slots, \A d \in Slots : d # c => cart'[d] = cart[d] /\ proc'[d] = proc[d],
             HoldsNothing(c)'
      PROVE  \A d \in Slots : HoldsNothing(d)'
  BY <1>c, <1>1
<1> DEFINE Goal == \A c \in Slots : HoldsNothing(c)'
<1>2. ASSUME NEW c \in Slots, DoTake(c) PROVE Goal
  <2>1. PICK h : h = Head(proc[c].pipe)
    OBVIOUS
  <2>2. /\ \A d \in Slots : d # c => proc'[d] = proc[d]
        /\ proc'[c].state = "up" /\ cart' = cart /\ proc[c].state = "up"
    BY <1>2, <2>1, TakeDoes DEF DoTake, IInv
  <2>3. HoldsNothing(c)'
    BY <1>a, <2>2 DEF HoldsNothing
  <2>4. QED  BY <1>1, <2>2, <2>3
<1>3. ASSUME NEW c \in Slots, DoEof(c) PROVE Goal
  <2>1. Pipe(c)' = Pipe(c)
    BY <1>3 DEF DoEof, Pipe
  <2>2. HoldsNothing(c)'
    BY <1>a, <1>3, <2>1 DEF HoldsNothing, DoEof
  <2>3. QED  BY <1>1, <1>3, <2>2 DEF DoEof
<1>4. ASSUME NEW c \in Slots, DoWriterFails(c) PROVE Goal
  <2>1. HoldsNothing(c)'
    BY <1>a, <1>4 DEF HoldsNothing, DoWriterFails
  <2>2. QED  BY <1>1, <1>4, <2>1 DEF DoWriterFails
<1>5. ASSUME NEW c \in Slots, NEW p \in Peers, DoMake(c, p) PROVE Goal
  <2>1. proc[c].state = "up" /\ cart' = cart
    BY <1>5 DEF DoMake, MakePeer, Alive
  <2>2. HoldsNothing(c)'
    BY <1>a, <1>5, <2>1 DEF HoldsNothing, DoMake
  <2>3. QED  BY <1>1, <1>5, <2>1, <2>2 DEF DoMake
<1>6. ASSUME NEW c \in Slots, NEW r \in Served, DoRespond(c, r) PROVE Goal
  <2>1. proc[c].state = "up" /\ cart' = cart
    BY <1>6 DEF DoRespond, Respond, Alive
  <2>2. HoldsNothing(c)'
    BY <1>a, <1>6, <2>1 DEF HoldsNothing, DoRespond
  <2>3. QED  BY <1>1, <1>6, <2>1, <2>2 DEF DoRespond
<1>7. CASE DoStop
  BY <1>7 DEF DoStop, HoldsNothing
<1>8. ASSUME Ails, NEW c \in Slots PROVE HoldsNothing(c)'
  <2>2. Pipe(c)' = Pipe(c) /\ (cart'[c].writer = "gone" => cart[c].writer = "gone")
    BY <1>8 DEF Ails, Pipe
  <2>3. QED  BY <1>a, <1>8, <2>2 DEF Ails, HoldsNothing
<1>10. ASSUME NEW c \in Slots, NEW f, CanSend(c), Gets(c, f), UNCHANGED cart PROVE Goal
  <2>1. proc[c].state # "none"
    BY <1>10 DEF CanSend, IInv, Lives, RunningHasProcess
  <2>2. HoldsNothing(c)'
    BY <1>a, <1>10, <2>1 DEF Gets, CanSend, HoldsNothing
  <2>3. QED  BY <1>1, <1>10, <2>2 DEF Gets
<1>9. ASSUME NEW r, NEW c \in Slots, DoServe(r, c) PROVE Goal
  <2>1. \A d \in Slots : d # c => cart'[d] = cart[d] /\ proc'[d] = proc[d]
    BY <1>9 DEF DoServe
  <2>2. HoldsNothing(c)'
    <3>1. CASE cart'[c] = cart[c] /\ CanSend(c) /\ proc[c].state # "none" /\ Gets(c, Frame("REQ", r))
      BY <1>a, <3>1 DEF Gets, CanSend, HoldsNothing
    <3>2. CASE proc[c].state = "none" /\ proc'[c].state = "up" /\ cart'[c].writer = cart[c].writer
      BY <1>a, <3>2 DEF HoldsNothing
    <3>3. QED  BY <1>9, <3>1, <3>2 DEF DoServe
  <2>3. QED  BY <1>1, <2>1, <2>2
<1>11. ASSUME NEW D, DoBury(D), NEW c \in Slots PROVE HoldsNothing(c)'
  <2>1. CASE c \in D
    BY <1>11, <2>1 DEF DoBury, Buries, HoldsNothing
  <2>2. CASE c \notin D
    BY <1>c, <1>11, <2>2 DEF DoBury, Buries
  <2>3. QED  BY <2>1, <2>2
<1>12. ASSUME NEW r, DoCancel(r) PROVE Goal
  BY <1>c, <1>10, <1>12 DEF DoCancel
<1>13. ASSUME NEW r, NEW c \in Slots, DoDeliver(r, c) PROVE Goal
  BY <1>10, <1>13 DEF DoDeliver
<1>14. CASE \/ \E r \in Calls : DoRequest(r) \/ DoBody(r) \/ \E kind \in Kinds : DoCancelCall(r, kind)
            \/ \E p \in Peers : DoRemote(p)
            \/ \E c \in Slots, p \in Peers : DoArgument(c, p) \/ DoHearRequest(c, p) \/ DoHearBody(c, p)
            \/ DoOld \/ \E r \in Served : DoNoHandler(r)
            \/ \E r \in Requests : DoUnrouted(r) \/ DoUndeliver(r)
            \/ \E c \in Slots, r \in Served : DoHearResponse(c, r)
  <2>1. UNCHANGED <<cart, proc>>
    BY <1>14 DEF DoRequest, DoBody, DoCancelCall, DoRemote, DoArgument, DoHearRequest, DoHearBody, DoOld,
                 DoNoHandler, DoUnrouted, DoUndeliver, DoHearResponse
  <2>2. QED  BY <1>c, <2>1
<1>15. QED
  BY <1>2, <1>3, <1>4, <1>5, <1>6, <1>7, <1>8, <1>9, <1>11, <1>12, <1>13, <1>14 DEF Steps, DoKill, DoAil

LEMMA SlotsOfEvents ==
  ASSUME IInv, EventSlots, DeadHoldNothing, Steps
  PROVE  EventSlots'
<1>0. /\ \A c \in Slots : cart[c].generation \in Nat
      /\ \A e \in Ev : e.slot \in Slots /\ e.generation \in Nat
  BY Typed DEF IInv, Cartridge, Events
<1>1. ASSUME Ev' \subseteq Ev,
             \A c \in Slots : cart[c].install # NoInstall =>
                /\ cart'[c].install = cart[c].install
                /\ cart'[c].generation \in {cart[c].generation, cart[c].generation + 1}
      PROVE  EventSlots'
  BY <1>0, <1>1 DEF EventSlots
<1>2. ASSUME NEW c \in Slots, NEW f, Tell(c, f), UNCHANGED cart, proc[c].state # "none" PROVE EventSlots'
  <2>1. \A e \in Ev' : e \in Ev \/ e = Event(c, f)
    BY <1>2 DEF Tell
  <2>2. cart[c].install # NoInstall
    BY <1>2, RunningRegistered
  <2>3. QED  BY <1>0, <1>2, <2>1, <2>2, EventIs DEF EventSlots
<1>3. CASE Ails
  <2>1. Ev' \subseteq Ev
    BY <1>3 DEF Ails, Ev
  <2>2. QED  BY <1>1, <1>3, <2>1 DEF Ails
<1>4. CASE DoStop
  BY <1>1, <1>4 DEF DoStop
<1>5. ASSUME NEW c \in Slots, DoWriterFails(c) PROVE EventSlots'
  <2>1. Ev' \subseteq Ev
    BY <1>5 DEF DoWriterFails, Ev
  <2>2. QED  BY <1>1, <1>5, <2>1 DEF DoWriterFails
<1>6. ASSUME NEW r, NEW c \in Slots, DoServe(r, c) PROVE EventSlots'
  <2>1. Ev' \subseteq Ev
    BY <1>6 DEF DoServe, Ev
  <2>2. QED  BY <1>1, <1>6, <2>1 DEF DoServe
<1>7. ASSUME NEW D \in SUBSET Slots, DoBury(D) PROVE EventSlots'
  <2>1. Ev' \subseteq Ev
    BY <1>7 DEF DoBury, Drops, Ev
  <2>2. \A c \in Slots : cart'[c].install = cart[c].install
                        /\ cart'[c].generation \in {cart[c].generation, cart[c].generation + 1}
    BY <1>7 DEF DoBury, Buries
  <2>3. QED  BY <1>1, <2>1, <2>2
<1>8. ASSUME NEW c \in Slots, NEW p \in Peers, DoMake(c, p) \/ DoArgument(c, p) PROVE EventSlots'
  BY <1>2, <1>8 DEF DoMake, DoArgument, MakePeer, Alive
<1>9. ASSUME NEW c \in Slots, NEW r \in Served, DoRespond(c, r) PROVE EventSlots'
  BY <1>2, <1>9 DEF DoRespond, Respond, Alive
<1>10. ASSUME NEW c \in Slots, DoEof(c) PROVE EventSlots'
  BY <1>2, <1>10 DEF DoEof
<1>11. CASE \/ \E r \in Calls : DoRequest(r) \/ DoBody(r) \/ \E kind \in Kinds : DoCancelCall(r, kind)
            \/ \E p \in Peers : DoRemote(p)
            \/ \E c \in Slots : DoTake(c)
            \/ \E c \in Slots, p \in Peers : DoHearRequest(c, p) \/ DoHearBody(c, p)
            \/ DoOld \/ \E r \in Served : DoNoHandler(r) \/ DoCancel(r)
            \/ \E r \in Requests : DoUnrouted(r) \/ DoUndeliver(r) \/ \E c \in Slots : DoDeliver(r, c)
            \/ \E c \in Slots, r \in Served : DoHearResponse(c, r)
  <2>1. UNCHANGED cart /\ Ev' \subseteq Ev
    BY <1>11 DEF DoRequest, DoBody, DoCancelCall, DoRemote, DoTake, DoHearRequest, DoHearBody, DoOld,
                 DoNoHandler, DoUnrouted, DoUndeliver, DoHearResponse, DoCancel, DoDeliver, Drops, Ev
  <2>2. QED  BY <1>1, <2>1
<1>12. QED
  BY <1>3, <1>4, <1>5, <1>6, <1>7, <1>8, <1>9, <1>10, <1>11 DEF Steps, DoKill, DoAil

-----------------------------------------------------------------------------
(* What is queued, held and recorded of a request                            *)
LEMMA AnswerDoes ==
  ASSUME NEW R, Answer(R), NEW q \in Requests
  PROVE  /\ answers'[q] = IF q \in R THEN answers[q] + 1 ELSE answers[q]
         /\ requested'[q] = IF q \in R /\ requested[q] = "live" THEN "over" ELSE requested[q]
  BY DEF Answer, Live

LEMMA SentAbout ==
  /\ \A R : \A f \in Back(R) : f = Frame("RESPONSE", f.req) /\ f.req \in R /\ f.req \in Peers /\ requested[f.req] = "live"
  /\ \A B : \A f \in Forth(B) : f = Frame("BODY", f.req) /\ f.req \in B /\ requested[f.req] = "live"
  /\ \A r : \A f \in Cascade(r) : /\ f = Frame("CANCEL", f.req) /\ f.req \in Peers /\ requested[f.req] = "live"
                                  /\ <<r, f.req>> \in links
<1>1. ASSUME NEW R, NEW f \in Back(R)
      PROVE  f = Frame("RESPONSE", f.req) /\ f.req \in R /\ f.req \in Peers /\ requested[f.req] = "live"
  BY DEF Back, Live, Frame
<1>2. ASSUME NEW B, NEW f \in Forth(B)
      PROVE  f = Frame("BODY", f.req) /\ f.req \in B /\ requested[f.req] = "live"
  BY DEF Forth, Live, Frame
<1>3. ASSUME NEW r, NEW f \in Cascade(r)
      PROVE  /\ f = Frame("CANCEL", f.req) /\ f.req \in Peers /\ requested[f.req] = "live"
             /\ <<r, f.req>> \in links
  <2>1. PICK q \in Live(Peers) : f = Frame("CANCEL", q) /\ <<r, q>> \in links
    BY <1>3 DEF Cascade
  <2>2. f.req = q
    BY <2>1 DEF Frame
  <2>3. QED  BY <2>1, <2>2 DEF Live
<1>4. QED  BY <1>1, <1>2, <1>3

\* A frame, by its kind and its request.
LEMMA FrameParts ==
  ASSUME NEW kind, NEW r, NEW k, NEW q
  PROVE  /\ Frame(kind, r).kind = kind /\ Frame(kind, r).req = r
         /\ Frame(kind, r) = Frame(k, q) => kind = k /\ r = q
  BY DEF Frame

\* Of a request that nobody has made there is no trace.
Clean(r) ==
  /\ \A f \in Rel : f.req # r
  /\ \A c \in Slots : r \notin proc[c].taken /\ \A f \in Pipe(c) : f.req # r
  /\ \A e \in Ev : e.frame # Frame("RESPONSE", r)
  /\ r \in Served => incoming[r] = 0 /\ r \notin bodyDone /\ r \notin responseDone
  /\ r \in Peers => outgoing[r] = 0
  /\ answers[r] = 0
Unmade == \A r \in Requests : requested[r] = "no" => Clean(r)

LEMMA CleanCalls ==
  ASSUME IInv, NEW r \in Requests, Clean(r), requested'[r] = "no", requested[r] = "no",
         \/ \E q \in Calls : DoRequest(q) \/ DoBody(q) \/ \E kind \in Kinds : DoCancelCall(q, kind)
         \/ \E p \in Peers : DoRemote(p)
  PROVE  Clean(r)'
<1>0. Calls \subseteq Requests /\ Peers \subseteq Requests /\ Cancels \subseteq Requests
      /\ requested \in [Requests -> {"no", "live", "away", "over"}]
  BY CancelsType DEF Requests, IInv, TypeInv, TypeOK
<1>1. ASSUME NEW q, NEW kind, Grows({Frame(kind, q)}), q # r,
             UNCHANGED <<proc, maps, events, answers>>
      PROVE  Clean(r)'
  BY <1>1, FrameParts DEF Clean, Grows, Pipe, Ev, maps
<1>2. ASSUME NEW q \in Calls, DoRequest(q) PROVE Clean(r)'
  BY <1>0, <1>1, <1>2 DEF DoRequest
<1>3. ASSUME NEW q \in Calls, DoBody(q) PROVE Clean(r)'
  BY <1>0, <1>1, <1>3 DEF DoBody
<1>4. ASSUME NEW q \in Calls, NEW kind \in Kinds, DoCancelCall(q, kind) PROVE Clean(r)'
  BY <1>0, <1>1, <1>4 DEF DoCancelCall
<1>5. ASSUME NEW p \in Peers, DoRemote(p) PROVE Clean(r)'
  BY <1>0, <1>1, <1>5 DEF DoRemote
<1>6. QED  BY <1>2, <1>3, <1>4, <1>5

LEMMA CleanProcesses ==
  ASSUME IInv, NEW r \in Requests, Clean(r),
         \/ \E c \in Slots : DoTake(c) \/ DoEof(c) \/ DoWriterFails(c)
         \/ \E c \in Slots, p \in Peers : DoMake(c, p) \/ DoArgument(c, p)
         \/ \E c \in Slots, q \in Served : DoRespond(c, q)
         \/ DoStop \/ DoKill \/ DoAil
  PROVE  Clean(r)'
<1> USE DEF says, maps
<1>1. ASSUME NEW c \in Slots, DoTake(c) PROVE Clean(r)'
  <2>1. PICK h : h = Head(proc[c].pipe)
    OBVIOUS
  <2>2. /\ Pipe(c) = {h} \cup Pipe(c)'
        /\ \A d \in Slots : d # c => proc'[d] = proc[d]
        /\ proc'[c].taken = IF h.kind = "REQ" THEN proc[c].taken \cup {h.req} ELSE proc[c].taken
    BY <1>1, <2>1, TakeDoes DEF DoTake, IInv
  <2>3. UNCHANGED <<maps, relayIn, events, answers>>
    BY <1>1 DEF DoTake
  <2>4. \A d \in Slots : r \notin proc'[d].taken /\ \A f \in Pipe(d)' : f.req # r
    BY <2>2 DEF Clean, Pipe
  <2>5. QED  BY <2>3, <2>4 DEF Clean, Rel, Ev
<1>2. ASSUME NEW c \in Slots, NEW f, Tell(c, f), f # Frame("RESPONSE", r),
             UNCHANGED <<maps, relayIn, answers>>,
             \A d \in Slots : proc'[d].taken \subseteq proc[d].taken /\ Pipe(d)' = Pipe(d)
      PROVE  Clean(r)'
  <2>1. \A e \in Ev' : e \in Ev \/ e.frame = f
    BY <1>2, EventIs DEF Tell
  <2>2. QED  BY <1>2, <2>1 DEF Clean, Rel
<1>3. ASSUME NEW c \in Slots, DoEof(c) PROVE Clean(r)'
  <2>1. \A d \in Slots : proc'[d].taken \subseteq proc[d].taken /\ Pipe(d)' = Pipe(d)
    BY <1>3 DEF DoEof, Pipe
  <2>2. Death # Frame("RESPONSE", r)
    BY DEF Death, Frame
  <2>3. QED  BY <1>2, <1>3, <2>1, <2>2 DEF DoEof
<1>4. ASSUME NEW c \in Slots, DoWriterFails(c) PROVE Clean(r)'
  <2>1. \A d \in Slots : proc'[d].taken = proc[d].taken /\ Pipe(d)' \subseteq Pipe(d)
    BY <1>4 DEF DoWriterFails, Pipe
  <2>2. QED  BY <1>4, <2>1 DEF DoWriterFails, Clean, Rel, Ev
<1>5. ASSUME NEW c \in Slots, NEW p \in Peers, DoMake(c, p) PROVE Clean(r)'
  <2>1. \A d \in Slots : proc'[d].taken \subseteq proc[d].taken /\ Pipe(d)' = Pipe(d)
    BY <1>5 DEF DoMake, Pipe
  <2>2. QED  BY <1>2, <1>5, <2>1, FrameParts DEF DoMake
<1>6. ASSUME NEW c \in Slots, NEW p \in Peers, DoArgument(c, p) PROVE Clean(r)'
  <2>1. \A d \in Slots : proc'[d].taken \subseteq proc[d].taken /\ Pipe(d)' = Pipe(d)
    BY <1>6 DEF DoArgument, Pipe
  <2>2. QED  BY <1>2, <1>6, <2>1, FrameParts DEF DoArgument
<1>7. ASSUME NEW c \in Slots, NEW q \in Served, DoRespond(c, q) PROVE Clean(r)'
  <2>1. q # r
    BY <1>7 DEF Clean, DoRespond, Respond
  <2>2. \A d \in Slots : proc'[d].taken \subseteq proc[d].taken /\ Pipe(d)' = Pipe(d)
    BY <1>7 DEF DoRespond, Pipe
  <2>3. QED  BY <1>2, <1>7, <2>1, <2>2, FrameParts DEF DoRespond
<1>8. CASE DoStop
  BY <1>8 DEF DoStop, Clean
<1>9. CASE DoKill \/ DoAil
  <2>1. Ails /\ Rel' \subseteq Rel
    BY <1>9 DEF DoKill, DoAil, Pops, Rel
  <2>2. \A d \in Slots : proc'[d].taken \subseteq proc[d].taken /\ Pipe(d)' = Pipe(d)
    BY <2>1 DEF Ails, Pipe
  <2>3. QED  BY <2>1, <2>2 DEF Ails, Clean, Ev
<1>10. QED  BY <1>1, <1>3, <1>4, <1>5, <1>6, <1>7, <1>8, <1>9

\* A frame is given to a process, and it is of another request.
LEMMA CleanGets ==
  ASSUME NEW r, Clean(r), NEW c \in Slots, NEW f, Gets(c, f), f.req # r
  PROVE  \A d \in Slots : r \notin proc'[d].taken /\ \A g \in Pipe(d)' : g.req # r
<1>1. SUFFICES ASSUME NEW d \in Slots
               PROVE  r \notin proc'[d].taken /\ \A g \in Pipe(d)' : g.req # r
  OBVIOUS
<1>2. CASE d = c
  BY <1>2 DEF Gets, Clean
<1>3. CASE d # c
  BY <1>3 DEF Gets, Clean, Pipe
<1>4. QED  BY <1>2, <1>3

LEMMA CleanRelay ==
  ASSUME IInv, NEW r \in Requests, Clean(r), requested[r] = "no",
         \/ \E q \in Served : DoNoHandler(q) \/ DoCancel(q) \/ \E c \in Slots : DoServe(q, c)
         \/ \E q \in Requests : DoUnrouted(q) \/ DoUndeliver(q) \/ \E c \in Slots : DoDeliver(q, c)
  PROVE  Clean(r)'
<1> USE DEF says, maps
<1>0. /\ Served \subseteq Requests
      /\ requested \in [Requests -> {"no", "live", "away", "over"}]
      /\ incoming \in [Served -> Slots \cup {0}] /\ outgoing \in [Peers -> Slots \cup {0}]
  BY LocalType DEF Requests, Served, IInv, TypeInv, TypeOK
<1>1. ASSUME NEW q \in Served, DoNoHandler(q) PROVE Clean(r)'
  <2>1. /\ Rel = {Frame("REQ", q)} \cup In(Tail(relayIn)) /\ Rel' = In(Tail(relayIn)) \cup Back({q}) /\ Answer({q})
        /\ UNCHANGED <<proc, maps, events>>
    BY <1>1 DEF DoNoHandler, PopsAndGrows
  <2>2. q # r
    BY <2>1, FrameParts DEF Clean
  <2>3. answers'[r] = answers[r]
    BY <2>1, <2>2, AnswerDoes
  <2>4. \A f \in Rel' : f.req # r
    BY <2>1, <2>2, SentAbout DEF Clean
  <2>5. QED  BY <2>1, <2>3, <2>4 DEF Clean, Pipe, Ev
<1>2. ASSUME NEW q \in Served, DoCancel(q) PROVE Clean(r)'
  <2>1. /\ Frame("CANCEL", q) \in Rel /\ UNCHANGED <<maps, events, answers>>
    BY <1>2 DEF DoCancel
  <2>2. q # r
    BY <2>1, FrameParts DEF Clean
  <2>3. \A f \in Rel' : f.req # r
    BY <1>2, SentAbout DEF DoCancel, PopsAndGrows, Pops, Clean
  <2>4. \A d \in Slots : r \notin proc'[d].taken /\ \A f \in Pipe(d)' : f.req # r
    <3>1. CASE proc' = proc
      BY <3>1 DEF Clean, Pipe
    <3>2. ASSUME NEW c \in Slots, Gets(c, Frame("CANCEL", q))
          PROVE  \A d \in Slots : r \notin proc'[d].taken /\ \A f \in Pipe(d)' : f.req # r
      BY <2>2, <3>2, FrameParts, CleanGets
    <3>3. QED  BY <1>2, <3>1, <3>2 DEF DoCancel
  <2>5. QED  BY <2>1, <2>3, <2>4 DEF Clean, Ev
<1>3. ASSUME NEW q \in Served, NEW c \in Slots, DoServe(q, c) PROVE Clean(r)'
  <2>1. /\ Rel = {Frame("REQ", q)} \cup Rel' /\ UNCHANGED <<outgoing, bodyDone, responseDone, events, answers>>
        /\ incoming' = [incoming EXCEPT ![q] = c]
    BY <1>3 DEF DoServe, Pops
  <2>2. q # r
    BY <2>1, FrameParts DEF Clean
  <2>3. \A d \in Slots : r \notin proc'[d].taken /\ \A f \in Pipe(d)' : f.req # r
    <3>1. CASE Gets(c, Frame("REQ", q))
      BY <2>2, <3>1, FrameParts, CleanGets
    <3>2. CASE Pipe(c)' = {Frame("REQ", q)} /\ proc'[c].taken = {}
      BY <1>3, <2>2, <3>2, FrameParts DEF DoServe, Clean, Pipe
    <3>3. QED  BY <1>3, <3>1, <3>2 DEF DoServe
  <2>4. QED  BY <1>0, <2>1, <2>2, <2>3 DEF Clean, Ev
<1>4. ASSUME NEW q \in Requests, DoUnrouted(q) PROVE Clean(r)'
  BY <1>4 DEF DoUnrouted, Pops, Clean, Pipe, Ev
<1>5. ASSUME NEW q \in Requests, DoUndeliver(q) PROVE Clean(r)'
  <2>1. /\ Frame(Head(relayIn).kind, q) \in Rel /\ PopsAndGrows(Back({q})) /\ Answer({q})
        /\ incoming' = [x \in Served |-> IF x = q THEN 0 ELSE incoming[x]]
        /\ outgoing' = [p \in Peers |-> IF p = q THEN 0 ELSE outgoing[p]]
        /\ bodyDone' = bodyDone \ {q} /\ responseDone' = responseDone \ {q}
        /\ UNCHANGED <<proc, events>>
    BY <1>5 DEF DoUndeliver
  <2>2. q # r
    BY <2>1, FrameParts DEF Clean
  <2>3. answers'[r] = answers[r]
    BY <2>1, <2>2, AnswerDoes
  <2>4. \A f \in Rel' : f.req # r
    BY <2>1, <2>2, SentAbout DEF Clean, PopsAndGrows
  <2>5. QED  BY <2>1, <2>3, <2>4 DEF Clean, Pipe, Ev
<1>6. ASSUME NEW q \in Requests, NEW c \in Slots, DoDeliver(q, c) PROVE Clean(r)'
  <2>1. /\ Head(relayIn) \in Rel /\ Head(relayIn) = Frame(Head(relayIn).kind, q) /\ Rel' \subseteq Rel
        /\ UNCHANGED <<events, answers>> /\ Gets(c, Head(relayIn))
    BY <1>6 DEF DoDeliver, Pops
  <2>2. q # r
    BY <2>1, FrameParts DEF Clean
  <2>3. \A d \in Slots : r \notin proc'[d].taken /\ \A f \in Pipe(d)' : f.req # r
    BY <2>1, <2>2, FrameParts, CleanGets
  <2>4. /\ r \in Served => incoming'[r] = 0 /\ r \notin bodyDone' /\ r \notin responseDone'
        /\ r \in Peers => outgoing'[r] = 0
    BY <1>0, <1>6, <2>2 DEF DoDeliver, Clean
  <2>5. QED  BY <2>1, <2>3, <2>4 DEF Clean, Ev
<1>7. QED  BY <1>1, <1>2, <1>3, <1>4, <1>5, <1>6

LEMMA CleanEvents ==
  ASSUME IInv, NEW r \in Requests, Clean(r), requested[r] = "no", requested'[r] = "no",
         \/ DoOld \/ \E c \in Slots, p \in Peers : DoHearRequest(c, p) \/ DoHearBody(c, p)
         \/ \E c \in Slots, q \in Served : DoHearResponse(c, q)
         \/ \E D \in SUBSET Slots : DoBury(D)
  PROVE  Clean(r)'
<1> USE DEF says, maps
<1>0. /\ Served \subseteq Requests /\ Peers \subseteq Requests
      /\ requested \in [Requests -> {"no", "live", "away", "over"}]
      /\ incoming \in [Served -> Slots \cup {0}] /\ outgoing \in [Peers -> Slots \cup {0}]
      /\ 0 \notin Slots
  BY LocalType DEF Requests, Served, IInv, TypeInv, TypeOK, Slots
<1>1. CASE DoOld
  BY <1>1 DEF DoOld, Drops, Clean, Rel, Pipe
<1>2. ASSUME NEW c \in Slots, NEW p \in Peers, DoHearRequest(c, p) PROVE Clean(r)'
  <2>1. p # r
    BY <1>0, <1>2 DEF DoHearRequest
  <2>2. \A f \in Rel' : f.req # r
    BY <1>2, <2>1, FrameParts DEF DoHearRequest, Clean, Grows, Rel
  <2>3. outgoing' = [outgoing EXCEPT ![p] = c] /\ Ev' \subseteq Ev
        /\ UNCHANGED <<proc, incoming, bodyDone, responseDone, answers>>
    BY <1>2 DEF DoHearRequest, Drops
  <2>4. QED  BY <1>0, <2>1, <2>2, <2>3 DEF Clean, Pipe
<1>3. ASSUME NEW c \in Slots, NEW p \in Peers, DoHearBody(c, p) PROVE Clean(r)'
  <2>1. \A f \in Rel' : f.req # r
    BY <1>3, SentAbout DEF DoHearBody, Clean, Grows
  <2>2. Ev' \subseteq Ev /\ UNCHANGED <<proc, maps, answers>>
    BY <1>3 DEF DoHearBody, Drops
  <2>3. QED  BY <2>1, <2>2 DEF Clean, Pipe
<1>4. ASSUME NEW c \in Slots, NEW q \in Served, DoHearResponse(c, q) PROVE Clean(r)'
  <2>1. /\ Head(events) \in Ev /\ Head(events) = Event(c, Frame("RESPONSE", q)) /\ Ev' \subseteq Ev
        /\ Answer({q}) /\ Grows(Back({q})) /\ Release(q) /\ UNCHANGED <<proc, outgoing>>
    BY <1>4 DEF DoHearResponse, Drops
  <2>2. q # r
    BY <2>1, EventIs DEF Clean
  <2>3. \A f \in Rel' : f.req # r
    BY <2>1, SentAbout DEF Clean, Grows
  <2>4. answers'[r] = answers[r]
    BY <2>1, <2>2, AnswerDoes
  <2>5. r \in Served => incoming'[r] = 0 /\ r \notin bodyDone' /\ r \notin responseDone'
    BY <1>0, <2>1, <2>2 DEF Clean, Release
  <2>6. QED  BY <2>1, <2>3, <2>4, <2>5 DEF Clean, Pipe
<1>5. ASSUME NEW D \in SUBSET Slots, DoBury(D) PROVE Clean(r)'
  <2>1. /\ Answer(Lost(D)) /\ Grows(Forth(Orphaned(D)) \cup Back(Lost(D))) /\ Ev' \subseteq Ev
        /\ incoming' = [q \in Served |-> IF q \in Lost(D) THEN 0 ELSE incoming[q]]
        /\ outgoing' = [p \in Peers |-> IF p \in Orphaned(D) THEN 0 ELSE outgoing[p]]
        /\ bodyDone' = bodyDone \ Lost(D) /\ responseDone' = responseDone \ Lost(D)
    BY <1>5 DEF DoBury, Buries, Drops, Ev
  <2>2. r \notin Lost(D)
    BY <1>0 DEF Clean, Lost, Entries
  <2>3. \A f \in Rel' : f.req # r
    BY <2>1, SentAbout DEF Clean, Grows
  <2>4. answers'[r] = answers[r]
    BY <2>1, <2>2, AnswerDoes
  <2>5. \A d \in Slots : r \notin proc'[d].taken /\ \A f \in Pipe(d)' : f.req # r
    <3>1. SUFFICES ASSUME NEW d \in Slots PROVE r \notin proc'[d].taken /\ \A f \in Pipe(d)' : f.req # r
      OBVIOUS
    <3>2. CASE d \in D
      BY <1>5, <3>2 DEF DoBury, Buries
    <3>3. CASE d \notin D
      BY <1>5, <3>3 DEF DoBury, Buries, Clean, Pipe
    <3>4. QED  BY <3>2, <3>3
  <2>6. QED  BY <2>1, <2>3, <2>4, <2>5 DEF Clean
<1>6. QED  BY <1>1, <1>2, <1>3, <1>4, <1>5

\* A request is made once.
LEMMA NeverUnmade ==
  ASSUME IInv, Steps, NEW r \in Requests, requested'[r] = "no"
  PROVE  requested[r] = "no"
<1> USE DEF says
<1>0. Calls \subseteq Requests /\ Peers \subseteq Requests
      /\ requested \in [Requests -> {"no", "live", "away", "over"}]
  BY DEF Requests, IInv, TypeInv, TypeOK
<1>1. ASSUME NEW R, Answer(R) PROVE requested[r] = "no"
  BY <1>1, AnswerDoes
<1>2. CASE UNCHANGED requested
  BY <1>2
<1>3. ASSUME NEW q \in Requests, NEW x, x # "no", requested' = [requested EXCEPT ![q] = x] PROVE requested[r] = "no"
  BY <1>0, <1>3
<1>4. CASE \/ \E c \in Slots : DoTake(c) \/ DoEof(c) \/ DoWriterFails(c)
           \/ \E c \in Slots, p \in Peers : DoMake(c, p) \/ DoArgument(c, p)
           \/ \E c \in Slots, q \in Served : DoRespond(c, q)
           \/ DoStop \/ DoKill \/ DoAil \/ DoOld
  BY <1>2, <1>4 DEF DoTake, DoEof, DoWriterFails, DoMake, DoArgument, DoRespond, DoStop, DoKill,
       DoAil, DoOld, Ails
<1>5. CASE \E q \in Calls : DoRequest(q) \/ DoBody(q) \/ \E kind \in Kinds : DoCancelCall(q, kind)
  BY <1>0, <1>2, <1>3, <1>5 DEF DoRequest, DoBody, DoCancelCall
<1>6. CASE \E p \in Peers : DoRemote(p)
  BY <1>0, <1>3, <1>6 DEF DoRemote
<1>7. CASE \E c \in Slots, p \in Peers : DoHearRequest(c, p) \/ DoHearBody(c, p)
  BY <1>0, <1>2, <1>3, <1>7 DEF DoHearRequest, DoHearBody
<1>8. CASE \E q \in Served : DoNoHandler(q) \/ DoCancel(q) \/ \E c \in Slots : DoServe(q, c)
  BY <1>1, <1>2, <1>8 DEF DoNoHandler, DoCancel, DoServe
<1>9. CASE \E q \in Requests : DoUnrouted(q) \/ DoUndeliver(q) \/ \E c \in Slots : DoDeliver(q, c)
  BY <1>1, <1>2, <1>9 DEF DoUndeliver, DoUnrouted, DoDeliver
<1>10. CASE \/ \E c \in Slots, q \in Served : DoHearResponse(c, q)
            \/ \E D \in SUBSET Slots : DoBury(D)
  BY <1>1, <1>10 DEF DoHearResponse, DoBury, Buries
<1>11. QED  BY <1>4, <1>5, <1>6, <1>7, <1>8, <1>9, <1>10 DEF Steps

LEMMA StillUnmade ==
  ASSUME IInv, Unmade, Steps
  PROVE  Unmade'
<1>1. SUFFICES ASSUME NEW r \in Requests, requested'[r] = "no" PROVE Clean(r)'
  BY DEF Unmade
<1>2. requested[r] = "no" /\ Clean(r)
  BY <1>1, NeverUnmade DEF Unmade
<1>3. QED  BY <1>1, <1>2, CleanCalls, CleanProcesses, CleanRelay, CleanEvents DEF Steps

\* A request is made by its own step.
LEMMA MadeBy ==
  ASSUME IInv, Steps, NEW r \in Requests, requested[r] = "no", requested'[r] # "no"
  PROVE  (r \in Calls /\ DoRequest(r)) \/ (r \in Peers /\ \E c \in Slots : DoHearRequest(c, r))
<1> USE DEF says
<1>0. Calls \subseteq Requests /\ Peers \subseteq Requests
      /\ requested \in [Requests -> {"no", "live", "away", "over"}]
  BY DEF Requests, IInv, TypeInv, TypeOK
<1>1. ASSUME NEW R, Answer(R) PROVE FALSE
  BY <1>1, AnswerDoes
<1>2. requested' # requested
  OBVIOUS
<1>3. ASSUME NEW q \in Requests, NEW x, q # r, requested' = [requested EXCEPT ![q] = x] PROVE FALSE
  BY <1>0, <1>3
<1>4. CASE \/ \E c \in Slots : DoTake(c) \/ DoEof(c) \/ DoWriterFails(c)
           \/ \E c \in Slots, p \in Peers : DoMake(c, p) \/ DoArgument(c, p)
           \/ \E c \in Slots, q \in Served : DoRespond(c, q)
           \/ DoStop \/ DoKill \/ DoAil \/ DoOld
  BY <1>2, <1>4 DEF DoTake, DoEof, DoWriterFails, DoMake, DoArgument, DoRespond, DoStop, DoKill,
       DoAil, DoOld, Ails
<1>5. CASE \E q \in Calls : DoRequest(q) \/ DoBody(q) \/ \E kind \in Kinds : DoCancelCall(q, kind)
  <2>1. PICK q \in Calls : DoRequest(q)
    BY <1>2, <1>5 DEF DoBody, DoCancelCall
  <2>2. q = r
    BY <1>0, <1>3, <2>1 DEF DoRequest
  <2>3. QED  BY <2>1, <2>2
<1>6. CASE \E p \in Peers : DoRemote(p)
  BY <1>0, <1>3, <1>6 DEF DoRemote
<1>7. CASE \E c \in Slots, p \in Peers : DoHearRequest(c, p) \/ DoHearBody(c, p)
  <2>1. PICK c \in Slots, p \in Peers : DoHearRequest(c, p)
    BY <1>2, <1>7 DEF DoHearBody
  <2>2. p = r
    BY <1>0, <1>3, <2>1 DEF DoHearRequest
  <2>3. QED  BY <2>1, <2>2
<1>8. CASE \E q \in Served : DoNoHandler(q) \/ DoCancel(q) \/ \E c \in Slots : DoServe(q, c)
  BY <1>1, <1>2, <1>8 DEF DoNoHandler, DoCancel, DoServe
<1>9. CASE \E q \in Requests : DoUnrouted(q) \/ DoUndeliver(q) \/ \E c \in Slots : DoDeliver(q, c)
  BY <1>1, <1>2, <1>9 DEF DoUndeliver, DoUnrouted, DoDeliver
<1>10. CASE \/ \E c \in Slots, q \in Served : DoHearResponse(c, q)
            \/ \E D \in SUBSET Slots : DoBury(D)
  BY <1>1, <1>10 DEF DoHearResponse, DoBury, Buries
<1>11. QED  BY <1>4, <1>5, <1>6, <1>7, <1>8, <1>9, <1>10 DEF Steps

\* A frame that the cartridges say once.
OneSaid(g) == \A d, e \in Ev : d.frame = g /\ e.frame = g => Before(events, d, e)
\* A peer request that is asked for has not been made, and is asked for once.
AskedFor(p) == OneSaid(Frame("REQ", p))
Asks == \A p \in Peers : Said(Frame("REQ", p)) => requested[p] = "no" /\ AskedFor(p)

LEMMA SaidLess ==
  ASSUME Drops, NEW g, OneSaid(g)
  PROVE  /\ OneSaid(g)' /\ (Said(g)' => Said(g))
         /\ Head(events).frame = g => ~Said(g)'
<1>1. OneSaid(g)'
  BY DEF Drops, Moved, Fits, OneSaid
<1>2. ASSUME Head(events).frame = g, NEW e \in Ev', e.frame = g PROVE FALSE
  BY <1>2 DEF Drops, Moved, OneSaid
<1>3. QED  BY <1>1, <1>2 DEF Said, Drops

LEMMA SaidMore ==
  ASSUME NEW c, NEW f, Tell(c, f), NEW g, OneSaid(g), f = g => ~Said(g)
  PROVE  OneSaid(g)' /\ (Said(g)' => Said(g) \/ f = g)
<1>1. Event(c, f).frame = f
  BY EventIs
<1>2. PICK x : x = Event(c, f)
  OBVIOUS
<1>3. \A e \in Ev' : e \in Ev \/ e = x
  BY <1>2 DEF Tell
<1>4. Said(g)' => Said(g) \/ f = g
  BY <1>1, <1>2, <1>3 DEF Said
<1>5. ASSUME NEW d \in Ev', NEW e \in Ev', d.frame = g, e.frame = g
      PROVE  Before(events', d, e)
  <2>1. CASE d \in Ev /\ e \in Ev
    <3>1. Before(events, d, e)
      BY <1>5, <2>1 DEF OneSaid
    <3>2. d # x
      BY <1>1, <1>2, <1>5, <2>1 DEF Said
    <3>3. Fits(d, e, Ev, {x})
      BY <3>2 DEF Fits
    <3>4. QED  BY <1>2, <3>1, <3>3 DEF Tell, Moved
  <2>2. CASE d \notin Ev \/ e \notin Ev
    <3>1. d \notin Ev /\ e \notin Ev /\ d = x /\ e = x
      BY <1>1, <1>2, <1>3, <1>5, <2>2 DEF Said
    <3>2. Before(events, d, e)
      BY <3>1 DEF Before, Ev, In
    <3>3. Fits(d, e, Ev, {x})
      BY <3>1 DEF Fits
    <3>4. QED  BY <1>2, <3>2, <3>3 DEF Tell, Moved
  <2>3. QED  BY <2>1, <2>2
<1>6. QED  BY <1>4, <1>5 DEF OneSaid

LEMMA AskedKept ==
  ASSUME IInv, Asks, Steps, NEW p \in Peers
  PROVE  AskedFor(p)' /\ (Said(Frame("REQ", p))' => Said(Frame("REQ", p)) \/ requested[p] = "no")
<1>0. AskedFor(p)
  BY DEF Asks, Said, AskedFor, OneSaid
<1>1. CASE UNCHANGED events
  BY <1>0, <1>1 DEF AskedFor, OneSaid, Said, Ev
<1>2. CASE Drops
  BY <1>0, <1>2, SaidLess DEF AskedFor
<1>3. CASE DoStop
  BY <1>3 DEF DoStop, AskedFor, OneSaid, Said
<1>4. ASSUME NEW c \in Slots, NEW q \in Peers, DoMake(c, q)
      PROVE  AskedFor(p)' /\ (Said(Frame("REQ", p))' => Said(Frame("REQ", p)) \/ requested[p] = "no")
  <2>1. q = p => requested[p] = "no" /\ ~Said(Frame("REQ", p))
    BY <1>4 DEF DoMake, MakePeer, Said, Ev, In
  <2>2. Frame("REQ", q) = Frame("REQ", p) => q = p
    BY FrameParts
  <2>3. Tell(c, Frame("REQ", q))
    BY <1>4 DEF DoMake
  <2>4. QED  BY <1>0, <2>1, <2>2, <2>3, SaidMore DEF AskedFor
<1>5. ASSUME NEW c \in Slots, NEW f, Tell(c, f), f # Frame("REQ", p)
      PROVE  AskedFor(p)' /\ (Said(Frame("REQ", p))' => Said(Frame("REQ", p)) \/ requested[p] = "no")
  BY <1>0, <1>5, SaidMore DEF AskedFor
<1>6. CASE \/ \E c \in Slots, q \in Peers : DoArgument(c, q)
           \/ \E c \in Slots, r \in Served : DoRespond(c, r)
           \/ \E c \in Slots : DoEof(c)
  <2>1. Death # Frame("REQ", p) /\ \A q : Frame("BODY", q) # Frame("REQ", p) /\ Frame("RESPONSE", q) # Frame("REQ", p)
    BY DEF Death, Frame
  <2>2. QED  BY <1>5, <1>6, <2>1 DEF DoArgument, DoRespond, DoEof
<1>7. CASE \/ \E q \in Calls : DoRequest(q) \/ DoBody(q) \/ \E kind \in Kinds : DoCancelCall(q, kind)
           \/ \E q \in Peers : DoRemote(q)
           \/ \E c \in Slots : DoTake(c) \/ DoWriterFails(c)
           \/ DoKill \/ DoAil
  BY <1>1, <1>7 DEF DoRequest, DoBody, DoCancelCall, DoRemote, DoTake, DoWriterFails, DoKill, DoAil, Ails
<1>8. CASE \/ \E q \in Served : DoNoHandler(q) \/ DoCancel(q) \/ \E c \in Slots : DoServe(q, c)
           \/ \E q \in Requests : DoUnrouted(q) \/ DoUndeliver(q) \/ \E c \in Slots : DoDeliver(q, c)
  BY <1>1, <1>8 DEF DoNoHandler, DoCancel, DoServe, DoUnrouted, DoUndeliver, DoDeliver
<1>9. CASE \/ DoOld \/ \E c \in Slots, q \in Peers : DoHearRequest(c, q) \/ DoHearBody(c, q)
           \/ \E c \in Slots, q \in Served : DoHearResponse(c, q)
           \/ \E D \in SUBSET Slots : DoBury(D)
  BY <1>1, <1>2, <1>9 DEF DoOld, DoHearRequest, DoHearBody, DoHearResponse, DoBury
<1>10. QED  BY <1>3, <1>4, <1>6, <1>7, <1>8, <1>9 DEF Steps

LEMMA StillAsks ==
  ASSUME IInv, Asks, Steps
  PROVE  Asks'
<1>1. SUFFICES ASSUME NEW p \in Peers, Said(Frame("REQ", p))'
               PROVE  requested'[p] = "no" /\ AskedFor(p)'
  BY DEF Asks
<1>2. AskedFor(p)' /\ requested[p] = "no"
  BY <1>1, AskedKept DEF Asks
<1>3. ASSUME requested'[p] # "no" PROVE FALSE
  <2>1. p \in Requests /\ p \notin Calls
    BY RequestsType DEF Requests
  <2>2. PICK c \in Slots : DoHearRequest(c, p)
    BY <1>2, <1>3, <2>1, MadeBy
  <2>3. Drops /\ Head(events) \in Ev /\ Head(events).frame = Frame("REQ", p)
    BY <2>2, EventIs DEF DoHearRequest
  <2>4. AskedFor(p)
    BY <2>3 DEF Asks, Said
  <2>5. QED  BY <1>1, <2>3, <2>4, SaidLess DEF AskedFor
<1>4. QED  BY <1>2, <1>3

-----------------------------------------------------------------------------
(* Entries, and what waits to be given                                       *)
LEMMA Domains ==
  ASSUME IInv
  PROVE  /\ Served \subseteq Requests /\ Calls \subseteq Requests /\ Peers \subseteq Requests
         /\ Calls \subseteq Served /\ Local \subseteq Served /\ Local \subseteq Peers
         /\ Cancels \subseteq Calls /\ Calls \cap Peers = {}
         /\ requested \in [Requests -> {"no", "live", "away", "over"}] /\ answers \in [Requests -> Nat]
         /\ incoming \in [Served -> Slots \cup {0}] /\ outgoing \in [Peers -> Slots \cup {0}]
         /\ bodyDone \subseteq Served /\ responseDone \subseteq Served
         /\ 0 \notin Slots
  BY LocalType, CancelsType, RequestsType DEF Requests, Served, IInv, TypeInv, TypeOK, Slots

\* An entry is made when its request is served; a mark needs an entry.
IsServed(r) == \E c \in Slots : incoming'[r] = c /\ DoServe(r, c)
Enters(r) ==
  /\ incoming'[r] \in {0, incoming[r]} \/ IsServed(r)
  /\ r \in bodyDone' => r \in bodyDone \/ incoming[r] # 0
  /\ r \in responseDone' => r \in responseDone \/ (incoming[r] # 0 /\ requested'[r] # "live")

LEMMA EntriesMove ==
  ASSUME IInv, Steps, NEW r \in Served
  PROVE  Enters(r)
<1> USE DEF says, maps
<1>0. /\ r \in Requests /\ incoming \in [Served -> Slots \cup {0}] /\ 0 \notin Slots
      /\ requested \in [Requests -> {"no", "live", "away", "over"}]
  BY Domains
<1>1. CASE UNCHANGED <<incoming, bodyDone, responseDone>>
  BY <1>1 DEF Enters
<1>2. CASE \/ \E q \in Calls : DoRequest(q) \/ DoBody(q) \/ \E kind \in Kinds : DoCancelCall(q, kind)
           \/ \E p \in Peers : DoRemote(p)
           \/ \E c \in Slots : DoTake(c) \/ DoEof(c) \/ DoWriterFails(c)
           \/ \E c \in Slots, p \in Peers : DoMake(c, p) \/ DoArgument(c, p)
           \/ \E c \in Slots, q \in Served : DoRespond(c, q)
           \/ DoStop \/ DoKill \/ DoAil \/ DoOld
  BY <1>1, <1>2 DEF DoRequest, DoBody, DoCancelCall, DoRemote, DoTake, DoEof, DoWriterFails, DoMake,
       DoArgument, DoRespond, DoStop, DoKill, DoAil, DoOld, Ails
<1>3. ASSUME NEW q \in Served, NEW c \in Slots, DoServe(q, c) PROVE Enters(r)
  <2>1. incoming' = [incoming EXCEPT ![q] = c] /\ UNCHANGED <<bodyDone, responseDone>>
    BY <1>3 DEF DoServe
  <2>2. q = r => IsServed(r)
    <3>1. SUFFICES ASSUME q = r PROVE IsServed(r)
      OBVIOUS
    <3>2. incoming'[r] = c
      BY <1>0, <2>1, <3>1
    <3>3. QED  BY <1>3, <3>1, <3>2 DEF IsServed
  <2>3. q # r => incoming'[r] = incoming[r]
    BY <1>0, <2>1
  <2>4. QED  BY <2>1, <2>2, <2>3 DEF Enters
<1>4. CASE \E q \in Served : DoNoHandler(q) \/ DoCancel(q) \/ \E c \in Slots : DoServe(q, c)
  BY <1>1, <1>3, <1>4 DEF DoNoHandler, DoCancel
<1>5. ASSUME NEW q \in Requests, NEW c \in Slots, DoDeliver(q, c) PROVE Enters(r)
  <2>1. /\ incoming'[r] \in {0, incoming[r]} /\ responseDone' \subseteq responseDone
        /\ r \in bodyDone' => r \in bodyDone \/ incoming[r] # 0
    BY <1>0, <1>5 DEF DoDeliver
  <2>2. QED  BY <2>1 DEF Enters
<1>6. CASE \E q \in Requests : DoUnrouted(q) \/ DoUndeliver(q) \/ \E c \in Slots : DoDeliver(q, c)
  <2>1. ASSUME NEW q \in Requests, DoUndeliver(q) PROVE Enters(r)
    BY <2>1 DEF DoUndeliver, Enters
  <2>2. QED  BY <1>1, <1>5, <1>6, <2>1 DEF DoUnrouted
<1>7. CASE \E c \in Slots, p \in Peers : DoHearRequest(c, p) \/ DoHearBody(c, p)
  BY <1>1, <1>7 DEF DoHearRequest, DoHearBody
<1>8. ASSUME NEW c \in Slots, NEW q \in Served, DoHearResponse(c, q) PROVE Enters(r)
  <2>1. Release(q) /\ Answer({q})
    BY <1>8 DEF DoHearResponse
  <2>2. requested'[q] # "live"
    BY <2>1, AnswerDoes, Domains
  <2>3. QED  BY <1>0, <2>1, <2>2 DEF Release, Enters
<1>9. ASSUME NEW D \in SUBSET Slots, DoBury(D) PROVE Enters(r)
  BY <1>9 DEF DoBury, Buries, Enters
<1>10. QED  BY <1>2, <1>4, <1>6, <1>7, <1>8, <1>9 DEF Steps

\* What the relay's stream gains and loses, of one frame f.
LEMMA FrameStays ==
  ASSUME NEW f, Before(relayIn, f, f), NEW N, f \notin N,
         Grows(N) \/ Pops \/ PopsAndGrows(N) \/ UNCHANGED relayIn
  PROVE  /\ Before(relayIn, f, f)' /\ (f \in Rel' => f \in Rel)
         /\ f \in Rel => f \in Rel' \/ (f = Head(relayIn) /\ ~Grows(N) /\ relayIn' # relayIn)
<1>1. CASE Grows(N)
  BY <1>1 DEF Grows, Moved, Fits
<1>2. CASE Pops
  <2>1. Rel = {Head(relayIn)} \cup Rel' /\ Before(relayIn', f, f)
    BY <1>2 DEF Pops, Moved, Fits
  <2>2. CASE relayIn' = relayIn
    BY <2>1, <2>2 DEF Rel
  <2>3. CASE Grows(N)
    BY <2>1, <2>3 DEF Grows
  <2>4. QED  BY <2>1, <2>2, <2>3
<1>3. CASE PopsAndGrows(N)
  <2>1. Rel = {Head(relayIn)} \cup In(Tail(relayIn)) /\ Rel' = In(Tail(relayIn)) \cup N /\ Before(relayIn', f, f)
    BY <1>3 DEF PopsAndGrows, Moved, Fits
  <2>2. CASE relayIn' = relayIn
    BY <2>1, <2>2 DEF Rel
  <2>3. CASE Grows(N)
    BY <2>1, <2>3 DEF Grows
  <2>4. QED  BY <2>1, <2>2, <2>3
<1>4. CASE UNCHANGED relayIn
  BY <1>4 DEF Rel
<1>5. QED  BY <1>1, <1>2, <1>3, <1>4

LEMMA FrameTaken ==
  ASSUME NEW f, Before(relayIn, f, f), f = Head(relayIn), NEW N, f \notin N, Pops \/ PopsAndGrows(N)
  PROVE  f \notin Rel'
<1>1. CASE Pops
  BY <1>1 DEF Pops, Moved
<1>2. CASE PopsAndGrows(N)
  BY <1>2 DEF PopsAndGrows, Moved
<1>3. QED  BY <1>1, <1>2

\* A request comes down the relay once.
ReqMoves(r) ==
  /\ Before(relayIn, Frame("REQ", r), Frame("REQ", r))'
  /\ Frame("REQ", r) \in Rel' => Frame("REQ", r) \in Rel \/ requested[r] = "no"
  /\ Frame("REQ", r) \in Rel =>
       \/ Frame("REQ", r) \in Rel' \/ ~up'
       \/ DoNoHandler(r) /\ requested'[r] # "live"
       \/ IsServed(r)

LEMMA SentNot ==
  ASSUME NEW r
  PROVE  /\ \A R : Frame("REQ", r) \notin Back(R)
         /\ \A B : Frame("REQ", r) \notin Forth(B)
         /\ \A q : Frame("REQ", r) \notin Cascade(q)
<1>1. \A q : Frame("REQ", r) # Frame("RESPONSE", q) /\ Frame("REQ", r) # Frame("BODY", q)
             /\ Frame("REQ", r) # Frame("CANCEL", q)
  BY FrameParts
<1>2. QED  BY <1>1, SentAbout

LEMMA RequestServed ==
  ASSUME NEW r, NEW c, DoServe(r, c), Before(relayIn, Frame("REQ", r), Frame("REQ", r))
  PROVE  Frame("REQ", r) \notin Rel'
  BY FrameTaken, SentNot DEF DoServe

LEMMA RequestComes ==
  ASSUME NEW r, DoRequest(r) \/ \E c \in Slots : DoHearRequest(c, r) /\ requested'[r] = "live",
         IInv, r \in Served
  PROVE  Frame("REQ", r) \in Rel'
<1>1. CASE DoRequest(r)
  BY <1>1 DEF DoRequest, Grows
<1>2. ASSUME NEW c \in Slots, DoHearRequest(c, r), requested'[r] = "live" PROVE Frame("REQ", r) \in Rel'
  BY <1>2, Domains DEF DoHearRequest, Grows
<1>3. QED  BY <1>1, <1>2

LEMMA RequestMoves ==
  ASSUME IInv, Unmade, Asks, Steps, NEW r \in Served, Before(relayIn, Frame("REQ", r), Frame("REQ", r))
  PROVE  ReqMoves(r)
<1> USE DEF says, maps
<1>f. PICK f : f = Frame("REQ", r)
  OBVIOUS
<1>0. /\ r \in Requests /\ incoming \in [Served -> Slots \cup {0}]
      /\ requested \in [Requests -> {"no", "live", "away", "over"}]
  BY Domains
<1>1. ASSUME f \notin Rel' \/ f \in Rel, f \in Rel => f \in Rel', Before(relayIn, f, f)' PROVE ReqMoves(r)
  BY <1>f, <1>1 DEF ReqMoves
<1>2. CASE UNCHANGED relayIn
  BY <1>1, <1>2, <1>f DEF Rel
<1>3. ASSUME NEW N, f \notin N, Grows(N) PROVE ReqMoves(r)
  <2>1. Before(relayIn, f, f)' /\ (f \in Rel' => f \in Rel)
    BY <1>3, <1>f, FrameStays
  <2>2. f \in Rel => f \in Rel'
    BY <1>3 DEF Grows
  <2>3. QED  BY <1>1, <2>1, <2>2
<1>4. ASSUME NEW N, f \notin N, Pops \/ PopsAndGrows(N), Head(relayIn) # f PROVE ReqMoves(r)
  <2>1. /\ Before(relayIn, f, f)' /\ (f \in Rel' => f \in Rel)
        /\ f \in Rel => f \in Rel'
    BY <1>4, <1>f, FrameStays
  <2>2. QED  BY <1>1, <2>1
<1>5. ASSUME NEW q \in Served, f = Frame("REQ", q), Grows({f}), requested[q] = "no" PROVE ReqMoves(r)
  <2>1. q = r /\ f \notin Rel
    BY <1>0, <1>5, <1>f, FrameParts DEF Unmade, Clean
  <2>2. Before(relayIn, f, f)'
    BY <1>5, <1>f, <2>1 DEF Grows, Moved, Fits
  <2>3. QED  BY <1>5, <1>f, <2>1, <2>2 DEF ReqMoves
<1>6. \A q : f \notin {Frame("BODY", q)} /\ f \notin {Frame("RESPONSE", q)} /\ f \notin {Frame("CANCEL", q)}
            /\ f \notin {Frame("KILL", q)} /\ (f \in {Frame("REQ", q)} <=> q = r)
  BY <1>f, FrameParts
<1>7. \A R : f \notin Back(R) /\ f \notin Forth(R) /\ f \notin Cascade(R)
  BY <1>f, SentNot
<1>8. CASE \/ \E c \in Slots : DoTake(c) \/ DoEof(c) \/ DoWriterFails(c)
           \/ \E c \in Slots, p \in Peers : DoMake(c, p) \/ DoArgument(c, p)
           \/ \E c \in Slots, q \in Served : DoRespond(c, q)
           \/ DoAil \/ DoOld
  BY <1>2, <1>8 DEF DoTake, DoEof, DoWriterFails, DoMake, DoArgument, DoRespond, DoAil, DoOld
<1>9. CASE DoStop
  BY <1>9, <1>f DEF DoStop, ReqMoves, Before
<1>10. CASE DoKill
  <2>1. Head(relayIn) # f
    BY <1>10, <1>f, FrameParts DEF DoKill
  <2>2. QED  BY <1>4, <1>7, <1>10, <2>1 DEF DoKill
<1>11. ASSUME NEW q \in Calls, DoRequest(q) PROVE ReqMoves(r)
  <2>1. Grows({Frame("REQ", q)}) /\ requested[q] = "no" /\ q \in Served
    BY <1>11, Domains DEF DoRequest
  <2>2. CASE q = r
    BY <1>5, <1>f, <2>1, <2>2
  <2>3. CASE q # r
    BY <1>3, <1>6, <2>1, <2>3
  <2>4. QED  BY <2>2, <2>3
<1>12. CASE \E q \in Calls : DoRequest(q) \/ DoBody(q) \/ \E kind \in Kinds : DoCancelCall(q, kind)
  <2>1. ASSUME NEW q \in Calls, NEW kind \in Kinds, DoCancelCall(q, kind) PROVE ReqMoves(r)
    <3>1. kind \in {"CANCEL", "KILL"} /\ Grows({Frame(kind, q)})
      BY <2>1, CancelsType DEF DoCancelCall
    <3>2. QED  BY <1>3, <1>6, <3>1
  <2>2. QED  BY <1>3, <1>6, <1>11, <1>12, <2>1 DEF DoBody
<1>13. CASE \E p \in Peers : DoRemote(p)
  BY <1>3, <1>6, <1>13 DEF DoRemote
<1>14. ASSUME NEW q \in Served, DoNoHandler(q) PROVE ReqMoves(r)
  <2>1. PopsAndGrows(Back({q})) /\ Head(relayIn) = Frame("REQ", q) /\ Answer({q})
    BY <1>14 DEF DoNoHandler
  <2>2. CASE q = r
    <3>1. f \notin Rel' /\ Before(relayIn, f, f)'
      BY <1>7, <1>f, <2>1, <2>2, FrameTaken, FrameStays
    <3>2. requested'[r] # "live"
      BY <1>0, <2>1, <2>2, AnswerDoes
    <3>3. QED  BY <1>f, <1>14, <2>2, <3>1, <3>2 DEF ReqMoves
  <2>3. CASE q # r
    BY <1>4, <1>6, <1>7, <2>1, <2>3
  <2>4. QED  BY <2>2, <2>3
<1>15. ASSUME NEW q \in Served, NEW c \in Slots, DoServe(q, c) PROVE ReqMoves(r)
  <2>1. Pops /\ Head(relayIn) = Frame("REQ", q) /\ incoming' = [incoming EXCEPT ![q] = c]
    BY <1>15 DEF DoServe
  <2>2. CASE q = r
    <3>1. f \notin Rel' /\ Before(relayIn, f, f)'
      BY <1>7, <1>f, <2>1, <2>2, FrameTaken, FrameStays
    <3>2. incoming'[r] = c
      BY <1>0, <2>1, <2>2
    <3>3. IsServed(r)
      BY <1>15, <2>2, <3>2 DEF IsServed
    <3>4. QED  BY <1>f, <3>1, <3>2, <3>3 DEF ReqMoves
  <2>3. CASE q # r
    BY <1>4, <1>6, <1>7, <2>1, <2>3
  <2>4. QED  BY <2>2, <2>3
<1>16. ASSUME NEW q \in Served, DoCancel(q) PROVE ReqMoves(r)
  BY <1>4, <1>6, <1>7, <1>16 DEF DoCancel
<1>17. ASSUME NEW q \in Requests, DoUnrouted(q) \/ DoUndeliver(q) \/ \E c \in Slots : DoDeliver(q, c) PROVE ReqMoves(r)
  <2>1. Head(relayIn).kind \in {"BODY", "RESPONSE"} /\ (Pops \/ PopsAndGrows(Back({q})))
    BY <1>17 DEF DoUnrouted, DoUndeliver, DoDeliver
  <2>2. Head(relayIn) # f
    BY <1>f, <2>1, FrameParts
  <2>3. QED  BY <1>4, <1>7, <2>1, <2>2
<1>18. ASSUME NEW c \in Slots, NEW p \in Peers, DoHearRequest(c, p) PROVE ReqMoves(r)
  <2>1. requested[p] = "no"
    BY <1>18, EventIs DEF DoHearRequest, Asks, Said
  <2>2. CASE UNCHANGED relayIn
    BY <1>2, <2>2
  <2>3. CASE p \in Local /\ Grows({Frame("REQ", p)})
    <3>1. CASE p = r
      BY <1>5, <1>f, <2>1, <2>3, <3>1
    <3>2. CASE p # r
      BY <1>3, <1>6, <2>3, <3>2
    <3>3. QED  BY <3>1, <3>2
  <2>4. QED  BY <1>18, <2>2, <2>3 DEF DoHearRequest
<1>19. CASE \E c \in Slots, p \in Peers : DoHearRequest(c, p) \/ DoHearBody(c, p)
  BY <1>3, <1>7, <1>18, <1>19 DEF DoHearBody
<1>20. CASE \E c \in Slots, q \in Served : DoHearResponse(c, q)
  BY <1>3, <1>7, <1>20 DEF DoHearResponse
<1>21. ASSUME NEW D \in SUBSET Slots, DoBury(D) PROVE ReqMoves(r)
  BY <1>3, <1>7, <1>21 DEF DoBury, Buries
<1>22. QED  BY <1>8, <1>9, <1>10, <1>12, <1>13, <1>14, <1>15, <1>16, <1>17, <1>19, <1>20, <1>21 DEF Steps

\* A request that has yet to be served has no entry and no mark, and comes once.
Fresh ==
  \A r \in Served :
    /\ Before(relayIn, Frame("REQ", r), Frame("REQ", r))
    /\ Frame("REQ", r) \in Rel => incoming[r] = 0 /\ r \notin bodyDone /\ r \notin responseDone
\* One that has been answered keeps its mark no longer than it is over.
OverOnce == \A r \in responseDone : requested[r] # "live"

LEMMA StillFresh ==
  ASSUME IInv, Unmade, Asks, Fresh, Steps
  PROVE  Fresh'
<1>1. SUFFICES ASSUME NEW r \in Served
      PROVE  /\ Before(relayIn, Frame("REQ", r), Frame("REQ", r))'
             /\ Frame("REQ", r) \in Rel' => incoming'[r] = 0 /\ r \notin bodyDone' /\ r \notin responseDone'
  BY DEF Fresh
<1>2. /\ Enters(r) /\ ReqMoves(r)
      /\ Before(relayIn, Frame("REQ", r), Frame("REQ", r))
  BY RequestMoves, EntriesMove DEF Fresh
<1>3. ASSUME Frame("REQ", r) \in Rel'
      PROVE  incoming'[r] = 0 /\ r \notin bodyDone' /\ r \notin responseDone'
  <2>1. incoming[r] = 0 /\ r \notin bodyDone /\ r \notin responseDone
    BY <1>2, <1>3, Domains DEF ReqMoves, Fresh, Unmade, Clean
  <2>2. ~IsServed(r)
    BY <1>2, <1>3, RequestServed DEF IsServed
  <2>3. QED  BY <1>2, <2>1, <2>2 DEF Enters
<1>4. QED  BY <1>2, <1>3 DEF ReqMoves

LEMMA BecomesLive ==
  ASSUME IInv, Asks, Steps, NEW r \in Requests, requested'[r] = "live", requested[r] # "live"
  PROVE  requested[r] = "no"
<1> USE DEF says
<1>0. Calls \subseteq Requests /\ Peers \subseteq Requests
      /\ requested \in [Requests -> {"no", "live", "away", "over"}]
  BY Domains
<1>1. ASSUME NEW R, Answer(R) PROVE FALSE
  BY <1>1, AnswerDoes
<1>2. requested' # requested
  OBVIOUS
<1>3. ASSUME NEW q \in Requests, NEW x, requested' = [requested EXCEPT ![q] = x],
             x = "live" => requested[q] = "no"
      PROVE  requested[r] = "no"
  BY <1>0, <1>3
<1>4. CASE \/ \E c \in Slots : DoTake(c) \/ DoEof(c) \/ DoWriterFails(c)
           \/ \E c \in Slots, p \in Peers : DoMake(c, p) \/ DoArgument(c, p)
           \/ \E c \in Slots, q \in Served : DoRespond(c, q)
           \/ DoStop \/ DoKill \/ DoAil \/ DoOld
  BY <1>2, <1>4 DEF DoTake, DoEof, DoWriterFails, DoMake, DoArgument, DoRespond, DoStop, DoKill,
       DoAil, DoOld, Ails
<1>5. CASE \E q \in Calls : DoRequest(q) \/ DoBody(q) \/ \E kind \in Kinds : DoCancelCall(q, kind)
  BY <1>0, <1>2, <1>3, <1>5 DEF DoRequest, DoBody, DoCancelCall
<1>6. CASE \E p \in Peers : DoRemote(p)
  BY <1>0, <1>3, <1>6 DEF DoRemote
<1>7. ASSUME NEW c \in Slots, NEW p \in Peers, DoHearRequest(c, p) \/ DoHearBody(c, p)
      PROVE  requested[r] = "no"
  <2>1. DoHearRequest(c, p)
    BY <1>2, <1>7 DEF DoHearBody
  <2>2. requested[p] = "no"
    BY <2>1, EventIs DEF DoHearRequest, Asks, Said
  <2>3. QED  BY <1>0, <1>3, <2>1, <2>2 DEF DoHearRequest
<1>8. CASE \E q \in Served : DoNoHandler(q) \/ DoCancel(q) \/ \E c \in Slots : DoServe(q, c)
  BY <1>1, <1>2, <1>8 DEF DoNoHandler, DoCancel, DoServe
<1>9. CASE \E q \in Requests : DoUnrouted(q) \/ DoUndeliver(q) \/ \E c \in Slots : DoDeliver(q, c)
  BY <1>1, <1>2, <1>9 DEF DoUndeliver, DoUnrouted, DoDeliver
<1>10. CASE \/ \E c \in Slots, q \in Served : DoHearResponse(c, q)
            \/ \E D \in SUBSET Slots : DoBury(D)
  BY <1>1, <1>10 DEF DoHearResponse, DoBury, Buries
<1>11. QED  BY <1>4, <1>5, <1>6, <1>7, <1>8, <1>9, <1>10 DEF Steps

LEMMA StillOver ==
  ASSUME IInv, TypeInv', Unmade, Asks, OverOnce, Steps
  PROVE  OverOnce'
<1>1. SUFFICES ASSUME NEW r \in responseDone', requested'[r] = "live" PROVE FALSE
  BY DEF OverOnce
<1>2. r \in Served /\ r \in Requests
  BY <1>1, Domains DEF TypeInv, TypeOK
<1>3. Enters(r)
  BY <1>2, EntriesMove
<1>4. requested[r] = "live" \/ requested[r] = "no"
  BY <1>1, <1>2, BecomesLive
<1>5. QED  BY <1>1, <1>2, <1>3, <1>4 DEF Enters, OverOnce, Unmade, Clean

-----------------------------------------------------------------------------
(* A request that is waited for is somewhere                                 *)
Has(c, r) ==
  \/ proc[c].state \in {"dead", "read"} \/ r \in proc[c].taken
  \/ Frame("REQ", r) \in Pipe(c) \/ Tells(c, Frame("RESPONSE", r))
Keeps(r) == Frame("REQ", r) \in Rel \/ \E c \in Slots : incoming[r] = c /\ Has(c, r)
HeldLive == up => \A r \in Served : requested[r] = "live" => Keeps(r)

LEMMA UpBefore ==
  ASSUME Steps, up'
  PROVE  up
<1>1. CASE UNCHANGED up
  BY <1>1
<1>2. CASE \/ \E q \in Calls : DoRequest(q) \/ DoBody(q) \/ \E kind \in Kinds : DoCancelCall(q, kind)
           \/ \E p \in Peers : DoRemote(p)
           \/ \E c \in Slots : DoTake(c) \/ DoEof(c) \/ DoWriterFails(c)
           \/ \E c \in Slots, p \in Peers : DoMake(c, p) \/ DoArgument(c, p)
           \/ \E c \in Slots, q \in Served : DoRespond(c, q)
           \/ DoStop \/ DoKill \/ DoAil \/ DoOld
  BY <1>1, <1>2 DEF DoRequest, DoBody, DoCancelCall, DoRemote, DoTake, DoEof, DoWriterFails, DoMake,
       DoArgument, DoRespond, DoStop, DoKill, DoAil, DoOld, Ails
<1>3. CASE \E q \in Served : DoNoHandler(q) \/ DoCancel(q) \/ \E c \in Slots : DoServe(q, c)
  BY <1>1, <1>3 DEF DoNoHandler, DoCancel, DoServe
<1>4. CASE \E q \in Requests : DoUnrouted(q) \/ DoUndeliver(q) \/ \E c \in Slots : DoDeliver(q, c)
  BY <1>1, <1>4 DEF DoUnrouted, DoUndeliver, DoDeliver
<1>5. CASE \E c \in Slots, p \in Peers : DoHearRequest(c, p) \/ DoHearBody(c, p)
  BY <1>1, <1>5 DEF DoHearRequest, DoHearBody
<1>6. CASE \/ \E c \in Slots, q \in Served : DoHearResponse(c, q)
           \/ \E D \in SUBSET Slots : DoBury(D)
  BY <1>1, <1>6 DEF DoHearResponse, DoBury, Buries
<1>7. QED  BY <1>2, <1>3, <1>4, <1>5, <1>6 DEF Steps

\* An entry goes when its request is over.
LEMMA EntryGoes ==
  ASSUME IInv, Steps, OverOnce, NEW r \in Served, incoming[r] # 0, incoming'[r] = 0
  PROVE  requested'[r] # "live"
<1> USE DEF says, maps
<1>0. /\ r \in Requests /\ incoming \in [Served -> Slots \cup {0}] /\ 0 \notin Slots
      /\ requested \in [Requests -> {"no", "live", "away", "over"}]
  BY Domains
<1>1. incoming' # incoming
  OBVIOUS
<1>2. CASE \/ \E q \in Calls : DoRequest(q) \/ DoBody(q) \/ \E kind \in Kinds : DoCancelCall(q, kind)
           \/ \E p \in Peers : DoRemote(p)
           \/ \E c \in Slots : DoTake(c) \/ DoEof(c) \/ DoWriterFails(c)
           \/ \E c \in Slots, p \in Peers : DoMake(c, p) \/ DoArgument(c, p)
           \/ \E c \in Slots, q \in Served : DoRespond(c, q)
           \/ DoStop \/ DoKill \/ DoAil \/ DoOld
  BY <1>1, <1>2 DEF DoRequest, DoBody, DoCancelCall, DoRemote, DoTake, DoEof, DoWriterFails, DoMake,
       DoArgument, DoRespond, DoStop, DoKill, DoAil, DoOld, Ails
<1>3. CASE \E q \in Served : DoNoHandler(q) \/ DoCancel(q) \/ \E c \in Slots : DoServe(q, c)
  BY <1>0, <1>1, <1>3 DEF DoNoHandler, DoCancel, DoServe
<1>4. ASSUME NEW q \in Requests, NEW c \in Slots, DoDeliver(q, c) PROVE requested'[r] # "live"
  BY <1>0, <1>1, <1>4 DEF DoDeliver, OverOnce
<1>5. CASE \E q \in Requests : DoUnrouted(q) \/ DoUndeliver(q) \/ \E c \in Slots : DoDeliver(q, c)
  <2>1. ASSUME NEW q \in Requests, DoUndeliver(q) PROVE requested'[r] # "live"
    <3>1. q = r /\ Answer({q})
      BY <2>1 DEF DoUndeliver
    <3>2. QED  BY <1>0, <3>1, AnswerDoes
  <2>2. QED  BY <1>1, <1>4, <1>5, <2>1 DEF DoUnrouted
<1>6. CASE \E c \in Slots, p \in Peers : DoHearRequest(c, p) \/ DoHearBody(c, p)
  BY <1>1, <1>6 DEF DoHearRequest, DoHearBody
<1>7. ASSUME NEW c \in Slots, NEW q \in Served, DoHearResponse(c, q) PROVE requested'[r] # "live"
  <2>1. Release(q) /\ Answer({q})
    BY <1>7 DEF DoHearResponse
  <2>2. q = r
    BY <1>0, <2>1 DEF Release
  <2>3. QED  BY <1>0, <2>1, <2>2, AnswerDoes
<1>8. ASSUME NEW D \in SUBSET Slots, DoBury(D) PROVE requested'[r] # "live"
  <2>1. r \in Lost(D) /\ Answer(Lost(D))
    BY <1>8 DEF DoBury, Buries
  <2>2. QED  BY <1>0, <2>1, AnswerDoes
<1>9. QED  BY <1>2, <1>3, <1>5, <1>6, <1>7, <1>8 DEF Steps

LEMMA HasQuiet ==
  ASSUME NEW c \in Slots, NEW r, Has(c, r),
         proc'[c] = proc[c], Tells(c, Frame("RESPONSE", r)) => Tells(c, Frame("RESPONSE", r))'
  PROVE  Has(c, r)'
  BY DEF Has, Pipe

LEMMA HasProcesses ==
  ASSUME IInv, EventSlots, DeadHoldNothing, NEW r \in Served, NEW c \in Slots, Has(c, r),
         \/ \E d \in Slots : DoTake(d) \/ DoEof(d) \/ DoWriterFails(d)
         \/ \E d \in Slots, p \in Peers : DoMake(d, p) \/ DoArgument(d, p)
         \/ \E d \in Slots, q \in Served : DoRespond(d, q)
         \/ DoKill \/ DoAil \/ DoOld
  PROVE  Has(c, r)'
<1> USE DEF says, maps
<1>0. PICK f : f = Frame("RESPONSE", r)
  OBVIOUS
<1>1. ASSUME NEW d \in Slots, DoTake(d) PROVE Has(c, r)'
  <2>0. UNCHANGED <<events, cart>>
    BY <1>1 DEF DoTake
  <2>1. Tells(c, f)' = Tells(c, f)
    BY <2>0 DEF Tells, Event, Ev
  <2>2. CASE d # c
    <3>1. proc'[c] = proc[c]
      BY <1>1, <2>2, TakeDoes DEF DoTake, IInv
    <3>2. QED  BY <1>0, <2>1, <3>1, HasQuiet
  <2>3. CASE d = c
    <3>1. PICK h : h = Head(proc[c].pipe)
      OBVIOUS
    <3>2. /\ Pipe(c) = {h} \cup Pipe(c)' /\ proc[c].state = "up"
          /\ proc'[c].taken = IF h.kind = "REQ" THEN proc[c].taken \cup {h.req} ELSE proc[c].taken
      BY <1>1, <2>3, <3>1, TakeDoes DEF DoTake, IInv
    <3>3. CASE Frame("REQ", r) \in Pipe(c)
      <4>1. h = Frame("REQ", r) => r \in proc'[c].taken
        BY <3>2, FrameParts
      <4>2. QED  BY <3>2, <3>3, <4>1 DEF Has
    <3>4. CASE r \in proc[c].taken
      BY <3>2, <3>4 DEF Has
    <3>5. QED  BY <1>0, <2>1, <3>2, <3>3, <3>4 DEF Has
  <2>4. QED  BY <2>2, <2>3
<1>2. ASSUME NEW d \in Slots, NEW g, Tell(d, g), UNCHANGED cart,
             proc'[c].state = proc[c].state \/ proc'[c].state \in {"dead", "read"},
             proc'[c].taken = proc[c].taken, proc'[c].pipe = proc[c].pipe
      PROVE  Has(c, r)'
  <2>1. Tells(c, f) => Tells(c, f)'
    BY <1>2, TellsOn
  <2>2. QED  BY <1>0, <1>2, <2>1 DEF Has, Pipe
<1>3. ASSUME NEW d \in Slots, DoEof(d) PROVE Has(c, r)'
  <2>1. CASE d # c
    BY <1>2, <1>3, <2>1 DEF DoEof
  <2>2. CASE d = c
    BY <1>2, <1>3, <2>2 DEF DoEof
  <2>3. QED  BY <2>1, <2>2
<1>4. ASSUME NEW d \in Slots, DoWriterFails(d) PROVE Has(c, r)'
  <2>1. CASE d # c
    <3>1. Tells(c, f)' = Tells(c, f)
      BY <1>4, <2>1 DEF Tells, Event, Ev, DoWriterFails
    <3>2. proc'[c] = proc[c]
      BY <1>4, <2>1 DEF DoWriterFails
    <3>3. QED  BY <1>0, <3>1, <3>2, HasQuiet
  <2>2. CASE d = c
    BY <1>4, <2>2 DEF Has, DoWriterFails
  <2>3. QED  BY <2>1, <2>2
<1>5. ASSUME NEW d \in Slots, NEW p \in Peers, DoMake(d, p) PROVE Has(c, r)'
  <2>1. CASE d # c
    BY <1>2, <1>5, <2>1 DEF DoMake
  <2>2. CASE d = c
    BY <1>2, <1>5, <2>2 DEF DoMake
  <2>3. QED  BY <2>1, <2>2
<1>6. ASSUME NEW d \in Slots, NEW p \in Peers, DoArgument(d, p) PROVE Has(c, r)'
  BY <1>2, <1>6 DEF DoArgument
<1>7. ASSUME NEW d \in Slots, NEW q \in Served, DoRespond(d, q) PROVE Has(c, r)'
  <2>1. CASE d # c
    BY <1>2, <1>7, <2>1 DEF DoRespond
  <2>2. CASE d = c
    <3>1. Tells(c, f)' <=> Tells(c, f) \/ f = Frame("RESPONSE", q)
      BY <1>7, <2>2, TellsOn DEF DoRespond
    <3>2. proc'[c].taken = proc[c].taken \ {q} /\ Pipe(c)' = Pipe(c) /\ proc'[c].state = proc[c].state
      BY <1>7, <2>2 DEF DoRespond, Pipe
    <3>3. QED  BY <1>0, <3>1, <3>2 DEF Has
  <2>3. QED  BY <2>1, <2>2
<1>8. CASE DoKill \/ DoAil
  <2>1. Ails
    BY <1>8 DEF DoKill, DoAil
  <2>2. Tells(c, f)' <=> Tells(c, f)
    BY <2>1, AilsTells
  <2>3. Pipe(c)' = Pipe(c)
    BY <2>1 DEF Ails, Pipe
  <2>4. QED  BY <1>0, <2>1, <2>2, <2>3 DEF Ails, Has
<1>9. CASE DoOld
  <2>1. Tells(c, f) => Tells(c, f)'
    BY <1>9, TellsLess DEF DoOld
  <2>2. QED  BY <1>0, <1>9, <2>1, HasQuiet DEF DoOld
<1>10. QED  BY <1>1, <1>3, <1>4, <1>5, <1>6, <1>7, <1>8, <1>9

LEMMA GetsHas ==
  ASSUME NEW d \in Slots, NEW g, Gets(d, g), NEW c \in Slots, NEW r, Has(c, r),
         Tells(c, Frame("RESPONSE", r)) => Tells(c, Frame("RESPONSE", r))'
  PROVE  Has(c, r)'
<1>1. CASE d # c
  BY <1>1, HasQuiet DEF Gets
<1>2. CASE d = c
  BY <1>2 DEF Gets, Has
<1>3. QED  BY <1>1, <1>2

LEMMA HasRelay ==
  ASSUME IInv, EventSlots, DeadHoldNothing, NEW r \in Served, NEW c \in Slots, incoming[r] = c, Has(c, r),
         \/ \E q \in Calls : DoRequest(q) \/ DoBody(q) \/ \E kind \in Kinds : DoCancelCall(q, kind)
         \/ \E p \in Peers : DoRemote(p)
         \/ \E q \in Served : DoNoHandler(q) \/ DoCancel(q) \/ \E d \in Slots : DoServe(q, d)
         \/ \E q \in Requests : DoUnrouted(q) \/ DoUndeliver(q) \/ \E d \in Slots : DoDeliver(q, d)
  PROVE  Has(c, r)'
<1> USE DEF says, maps
<1>0. PICK f : f = Frame("RESPONSE", r)
  OBVIOUS
<1>1. ASSUME UNCHANGED <<events, cart>> PROVE Tells(c, f)' <=> Tells(c, f)
  BY <1>1 DEF Tells, Event, Ev
<1>2. CASE UNCHANGED <<events, cart, proc>>
  BY <1>0, <1>1, <1>2, HasQuiet
<1>3. CASE \/ \E q \in Calls : DoRequest(q) \/ DoBody(q) \/ \E kind \in Kinds : DoCancelCall(q, kind)
           \/ \E p \in Peers : DoRemote(p)
  BY <1>2, <1>3 DEF DoRequest, DoBody, DoCancelCall, DoRemote
<1>4. ASSUME NEW d \in Slots, NEW g, Gets(d, g), UNCHANGED <<events, cart>> PROVE Has(c, r)'
  BY <1>0, <1>1, <1>4, GetsHas
<1>5. ASSUME NEW q \in Served, DoCancel(q) PROVE Has(c, r)'
  <2>1. UNCHANGED <<events, cart>>
    BY <1>5 DEF DoCancel
  <2>2. QED  BY <1>2, <1>4, <1>5, <2>1 DEF DoCancel
<1>6. ASSUME NEW q \in Served, NEW d \in Slots, DoServe(q, d) PROVE Has(c, r)'
  <2>1. CASE proc[d].state # "none" /\ Gets(d, Frame("REQ", q))
    <3>1. Tells(c, f)' <=> Tells(c, f)
      BY <1>6, <2>1, ServeTells
    <3>2. QED  BY <1>0, <2>1, <3>1, GetsHas
  <2>2. CASE proc[d].state = "none" /\ \A x \in Served : incoming[x] # d
    <3>1. d # c
      BY <2>2
    <3>2. Tells(c, f)' <=> Tells(c, f)
      BY <1>6, <3>1, ServeTells
    <3>3. QED  BY <1>0, <1>6, <3>1, <3>2, HasQuiet DEF DoServe
  <2>3. QED  BY <1>6, <2>1, <2>2 DEF DoServe
<1>7. CASE \E q \in Served : DoNoHandler(q) \/ DoCancel(q) \/ \E d \in Slots : DoServe(q, d)
  BY <1>2, <1>5, <1>6, <1>7 DEF DoNoHandler
<1>8. CASE \E q \in Requests : DoUnrouted(q) \/ DoUndeliver(q) \/ \E d \in Slots : DoDeliver(q, d)
  <2>1. ASSUME NEW q \in Requests, NEW d \in Slots, DoDeliver(q, d) PROVE Has(c, r)'
    BY <1>4, <2>1 DEF DoDeliver
  <2>2. QED  BY <1>2, <1>8, <2>1 DEF DoUnrouted, DoUndeliver
<1>9. QED  BY <1>3, <1>7, <1>8

LEMMA HasEvents ==
  ASSUME IInv, EventSlots, DeadHoldNothing, NEW r \in Served, NEW c \in Slots, incoming[r] = c, Has(c, r),
         requested'[r] = "live",
         \/ \E d \in Slots, p \in Peers : DoHearRequest(d, p) \/ DoHearBody(d, p)
         \/ \E d \in Slots, q \in Served : DoHearResponse(d, q)
         \/ \E D \in SUBSET Slots : DoBury(D)
  PROVE  Has(c, r)'
<1> USE DEF says, maps
<1>0. PICK f : f = Frame("RESPONSE", r)
  OBVIOUS
<1>1. ASSUME NEW d \in Slots, NEW g, g # f, Drops, Head(events) = Event(d, g), UNCHANGED <<cart, proc>>
      PROVE  Has(c, r)'
  <2>1. Tells(c, f) => Tells(c, f)'
    BY <1>1, TellsLess, EventIs
  <2>2. QED  BY <1>0, <1>1, <2>1, HasQuiet
<1>2. ASSUME NEW d \in Slots, NEW p \in Peers, DoHearRequest(d, p) \/ DoHearBody(d, p) PROVE Has(c, r)'
  <2>1. f # Frame("REQ", p) /\ f # Frame("BODY", p)
    BY <1>0, FrameParts
  <2>2. QED  BY <1>1, <1>2, <2>1 DEF DoHearRequest, DoHearBody
<1>3. ASSUME NEW d \in Slots, NEW q \in Served, DoHearResponse(d, q) PROVE Has(c, r)'
  <2>1. Answer({q}) /\ Drops /\ Head(events) = Event(d, Frame("RESPONSE", q)) /\ UNCHANGED <<cart, proc>>
    BY <1>3 DEF DoHearResponse
  <2>2. q # r
    BY <2>1, AnswerDoes, Domains
  <2>3. f # Frame("RESPONSE", q)
    BY <1>0, <2>2, FrameParts
  <2>4. QED  BY <1>1, <2>1, <2>3
<1>4. ASSUME NEW D \in SUBSET Slots, DoBury(D) PROVE Has(c, r)'
  <2>1. r \notin Lost(D)
    <3>1. Answer(Lost(D))
      BY <1>4 DEF DoBury, Buries
    <3>2. QED  BY <3>1, AnswerDoes, Domains
  <2>2. c \notin D
    BY <2>1 DEF Lost, Entries
  <2>3. /\ proc'[c] = proc[c] /\ cart'[c] = cart[c]
        /\ (Drops /\ Head(events).frame.kind = "DEATH") \/ UNCHANGED events
    BY <1>4, <2>2 DEF DoBury, Buries
  <2>4. Event(c, f)' = Event(c, f) /\ Event(c, f).frame.kind = "RESPONSE"
    BY <1>0, <2>3 DEF Event, Frame
  <2>5. Tells(c, f) => Tells(c, f)'
    BY <2>3, <2>4 DEF Tells, Drops, Ev
  <2>6. QED  BY <1>0, <2>3, <2>5, HasQuiet
<1>5. QED  BY <1>2, <1>3, <1>4

LEMMA StillHeld ==
  ASSUME IInv, EventSlots, DeadHoldNothing, Unmade, Asks, Fresh, OverOnce, HeldLive, Steps
  PROVE  HeldLive'
<1>1. SUFFICES ASSUME up', NEW r \in Served, requested'[r] = "live" PROVE Keeps(r)'
  BY DEF HeldLive
<1>2. up /\ r \in Requests
  BY <1>1, UpBefore, Domains
<1>3. CASE requested[r] # "live"
  <2>1. requested[r] = "no"
    BY <1>1, <1>2, <1>3, BecomesLive
  <2>2. DoRequest(r) \/ \E c \in Slots : DoHearRequest(c, r) /\ requested'[r] = "live"
    BY <1>1, <1>2, <2>1, MadeBy
  <2>3. QED  BY <2>2, RequestComes DEF Keeps
<1>4. CASE requested[r] = "live" /\ Frame("REQ", r) \in Rel
  <2>1. ReqMoves(r)
    BY RequestMoves DEF Fresh
  <2>2. CASE Frame("REQ", r) \in Rel'
    BY <2>2 DEF Keeps
  <2>3. CASE IsServed(r)
    <3>1. PICK c \in Slots : incoming'[r] = c /\ DoServe(r, c)
      BY <2>3 DEF IsServed
    <3>2. Frame("REQ", r) \in Pipe(c)'
      BY <3>1 DEF DoServe, Gets
    <3>3. QED  BY <3>1, <3>2 DEF Keeps, Has
  <2>4. QED  BY <1>1, <1>4, <2>1, <2>2, <2>3 DEF ReqMoves
<1>5. CASE requested[r] = "live" /\ Frame("REQ", r) \notin Rel
  <2>1. PICK c \in Slots : incoming[r] = c /\ Has(c, r)
    BY <1>2, <1>5 DEF HeldLive, Keeps
  <2>2. incoming'[r] = c
    <3>1. incoming'[r] # 0
      BY <1>1, <2>1, EntryGoes, Domains
    <3>2. Enters(r)
      BY EntriesMove
    <3>3. ~IsServed(r)
      BY <1>5 DEF IsServed, DoServe, Pops
    <3>4. QED  BY <2>1, <3>1, <3>2, <3>3 DEF Enters
  <2>3. Has(c, r)'
    <3>1. ~DoStop
      BY <1>1 DEF DoStop
    <3>2. QED  BY <1>1, <2>1, <3>1, HasProcesses, HasRelay, HasEvents DEF Steps
  <2>4. QED  BY <2>2, <2>3 DEF Keeps
<1>6. QED  BY <1>3, <1>4, <1>5

-----------------------------------------------------------------------------
(* Who holds a call: it is in one place                                      *)
Given(c, r) == Frame("REQ", r) \in Pipe(c)
Holder(c, r) == Given(c, r) \/ r \in proc[c].taken \/ Tells(c, Frame("RESPONSE", r))
SaysOnce(c, r) ==
  Before(events, Event(c, Frame("RESPONSE", r)), Event(c, Frame("RESPONSE", r)))
OnePlace(c, r) ==
  /\ Before(proc[c].pipe, Frame("REQ", r), Frame("REQ", r))
  /\ Given(c, r) => r \notin proc[c].taken /\ ~Tells(c, Frame("RESPONSE", r))
  /\ r \in proc[c].taken => ~Tells(c, Frame("RESPONSE", r))
  /\ SaysOnce(c, r)
\* A step leaves it there or takes it away.
Passes(c, r) ==
  /\ OnePlace(c, r)'
  /\ Holder(c, r)' => Holder(c, r) /\ (cart[c].writer = "gone" => cart'[c].writer = "gone")

LEMMA SaidOnce ==
  ASSUME NEW c, NEW r, SaysOnce(c, r)
  PROVE  /\ UNCHANGED <<events, cart[c].generation>> => SaysOnce(c, r)'
         /\ Drops /\ UNCHANGED cart[c].generation => SaysOnce(c, r)'
         /\ ~Tells(c, Frame("RESPONSE", r))' => SaysOnce(c, r)'
<1>1. PICK f : f = Frame("RESPONSE", r)
  OBVIOUS
<1>2. CASE UNCHANGED <<events, cart[c].generation>>
  BY <1>2 DEF SaysOnce, Event
<1>3. CASE Drops /\ UNCHANGED cart[c].generation
  <2>1. PICK e : e = Event(c, f)
    OBVIOUS
  <2>2. Event(c, f)' = e
    BY <1>3, <2>1 DEF Event
  <2>3. Before(events', e, e)
    BY <1>1, <1>3, <2>1 DEF SaysOnce, Drops, Moved, Fits
  <2>4. QED  BY <1>1, <2>2, <2>3 DEF SaysOnce
<1>4. CASE ~Tells(c, f)'
  BY <1>1, <1>4 DEF SaysOnce, Tells, Ev, In, Before
<1>5. QED  BY <1>1, <1>2, <1>3, <1>4

LEMMA SaidOnceMore ==
  ASSUME NEW c, NEW r, SaysOnce(c, r), NEW d, NEW f, Tell(d, f), UNCHANGED cart,
         d = c /\ f = Frame("RESPONSE", r) => ~Tells(c, Frame("RESPONSE", r))
  PROVE  SaysOnce(c, r)'
<1>1. PICK e, x : e = Event(c, Frame("RESPONSE", r)) /\ x = Event(d, f)
  OBVIOUS
<1>2. Event(c, Frame("RESPONSE", r))' = e
  BY <1>1 DEF Event
<1>3. e = x => e \notin Ev
  BY <1>1, EventIs DEF Tells
<1>4. Fits(e, e, Ev, {x})
  BY <1>3 DEF Fits
<1>5. Before(events', e, e)
  BY <1>1, <1>4 DEF Tell, Moved, SaysOnce
<1>6. QED  BY <1>2, <1>5 DEF SaysOnce

LEMMA PassesQuiet ==
  ASSUME NEW c \in Slots, NEW r, OnePlace(c, r),
         proc'[c].pipe = proc[c].pipe, proc'[c].taken \subseteq proc[c].taken,
         Tells(c, Frame("RESPONSE", r))' => Tells(c, Frame("RESPONSE", r)),
         SaysOnce(c, r)',
         Holder(c, r)' /\ cart[c].writer = "gone" => cart'[c].writer = "gone"
  PROVE  Passes(c, r)
<1>1. Given(c, r)' <=> Given(c, r)
  BY DEF Given, Pipe
<1>2. Holder(c, r)' => Holder(c, r)
  BY <1>1 DEF Holder
<1>3. OnePlace(c, r)'
  BY <1>1 DEF OnePlace
<1>4. QED  BY <1>2, <1>3 DEF Passes

LEMMA PassesGets ==
  ASSUME NEW c \in Slots, NEW r, OnePlace(c, r), NEW d \in Slots, NEW f, Gets(d, f), f # Frame("REQ", r),
         Tells(c, Frame("RESPONSE", r))' => Tells(c, Frame("RESPONSE", r)),
         SaysOnce(c, r)', UNCHANGED cart[c].writer
  PROVE  Passes(c, r)
<1>1. CASE d # c
  <2>1. proc'[c] = proc[c]
    BY <1>1 DEF Gets
  <2>2. QED  BY <2>1, PassesQuiet
<1>2. CASE d = c
  <2>1. /\ Moved(proc[c].pipe, proc'[c].pipe, {}, Pipe(c), {f}) /\ Pipe(c)' = Pipe(c) \cup {f}
        /\ proc'[c].taken = proc[c].taken
    BY <1>2 DEF Gets
  <2>2. Given(c, r)' <=> Given(c, r)
    BY <2>1 DEF Given
  <2>3. PICK g : g = Frame("REQ", r)
    OBVIOUS
  <2>4. Fits(g, g, Pipe(c), {f})
    BY <2>3 DEF Fits
  <2>5. Before(proc'[c].pipe, g, g)
    BY <2>1, <2>3, <2>4 DEF OnePlace, Moved
  <2>6. OnePlace(c, r)'
    BY <2>1, <2>2, <2>3, <2>5 DEF OnePlace
  <2>7. QED  BY <2>1, <2>2, <2>6 DEF Passes, Holder
<1>3. QED  BY <1>1, <1>2

LEMMA PassesNone ==
  ASSUME NEW c \in Slots, NEW r, Pipe(c)' = {}, proc'[c].taken = {}, ~Tells(c, Frame("RESPONSE", r))'
  PROVE  OnePlace(c, r)' /\ ~Holder(c, r)' /\ Passes(c, r)
<1>1. ~Given(c, r)'
  BY DEF Given
<1>2. ~Holder(c, r)'
  BY <1>1 DEF Holder
<1>3. Before(proc[c].pipe, Frame("REQ", r), Frame("REQ", r))'
  BY DEF Before, Pipe, In
<1>4. SaysOnce(c, r)'
  BY DEF SaysOnce, Tells, Ev, In, Before
<1>5. OnePlace(c, r)'
  BY <1>1, <1>3, <1>4 DEF OnePlace
<1>6. QED  BY <1>2, <1>5 DEF Passes

LEMMA PassesProcesses ==
  ASSUME IInv, EventSlots, DeadHoldNothing, NEW r, NEW c \in Slots, OnePlace(c, r),
         \/ \E d \in Slots : DoTake(d) \/ DoEof(d) \/ DoWriterFails(d)
         \/ \E d \in Slots, p \in Peers : DoMake(d, p) \/ DoArgument(d, p)
         \/ \E d \in Slots, q \in Served : DoRespond(d, q)
         \/ DoStop \/ DoKill \/ DoAil \/ DoOld
  PROVE  Passes(c, r)
<1> USE DEF says, maps
<1>0. PICK f : f = Frame("RESPONSE", r)
  OBVIOUS
<1>s. SaysOnce(c, r)
  BY DEF OnePlace
<1>1. ASSUME NEW d \in Slots, DoTake(d) PROVE Passes(c, r)
  <2>0. UNCHANGED <<events, cart>>
    BY <1>1 DEF DoTake
  <2>1. (Tells(c, f)' <=> Tells(c, f)) /\ SaysOnce(c, r)'
    BY <1>s, <2>0, SaidOnce DEF Tells, Event, Ev
  <2>2. CASE d # c
    <3>1. proc'[c] = proc[c]
      BY <1>1, <2>2, TakeDoes DEF DoTake, IInv
    <3>2. QED  BY <1>0, <2>0, <2>1, <3>1, PassesQuiet
  <2>3. CASE d = c
    <3>1. PICK h, g : h = Head(proc[c].pipe) /\ g = Frame("REQ", r)
      OBVIOUS
    <3>2. /\ Pipe(c) = {h} \cup Pipe(c)' /\ Moved(proc[c].pipe, proc'[c].pipe, {h}, Pipe(c)', {})
          /\ proc'[c].taken = IF h.kind = "REQ" THEN proc[c].taken \cup {h.req} ELSE proc[c].taken
          /\ h \in Frames
      BY <1>1, <2>3, <3>1, TakeDoes DEF DoTake, IInv
    <3>3. Before(proc[c].pipe, g, g)
      BY <3>1 DEF OnePlace
    <3>4. Before(proc'[c].pipe, g, g) /\ (h = g => g \notin Pipe(c)')
      BY <3>2, <3>3 DEF Moved, Fits
    <3>5. CASE h = g
      <4>1. proc'[c].taken = proc[c].taken \cup {r} /\ ~Given(c, r)' /\ Given(c, r)
        BY <3>1, <3>2, <3>4, <3>5, FrameParts DEF Given
      <4>2. OnePlace(c, r)'
        BY <1>0, <2>1, <3>1, <3>4, <4>1 DEF OnePlace
      <4>3. QED  BY <2>0, <4>1, <4>2 DEF Passes, Holder
    <3>6. CASE h # g
      <4>1. h.kind # "REQ" \/ h.req # r
        BY <3>1, <3>2, <3>6, FrameIs
      <4>2. (r \in proc'[c].taken <=> r \in proc[c].taken) /\ (Given(c, r)' <=> Given(c, r))
        BY <3>1, <3>2, <3>6, <4>1 DEF Given
      <4>3. OnePlace(c, r)'
        BY <1>0, <2>1, <3>1, <3>4, <4>2 DEF OnePlace
      <4>4. QED  BY <1>0, <2>0, <2>1, <4>2, <4>3 DEF Passes, Holder
    <3>7. QED  BY <3>5, <3>6
  <2>4. QED  BY <2>2, <2>3
<1>2. ASSUME NEW d \in Slots, NEW g, Tell(d, g), UNCHANGED cart, g # f,
             proc'[c].taken = proc[c].taken, proc'[c].pipe = proc[c].pipe
      PROVE  Passes(c, r)
  <2>1. Tells(c, f)' => Tells(c, f)
    BY <1>2, TellsOn
  <2>2. SaysOnce(c, r)'
    BY <1>0, <1>s, <1>2, SaidOnceMore
  <2>3. QED  BY <1>0, <1>2, <2>1, <2>2, PassesQuiet
<1>3. ASSUME NEW d \in Slots, DoEof(d) PROVE Passes(c, r)
  <2>0. Death # f
    BY <1>0 DEF Death, Frame
  <2>1. CASE d # c
    BY <1>2, <1>3, <2>0, <2>1 DEF DoEof
  <2>2. CASE d = c
    BY <1>2, <1>3, <2>0, <2>2 DEF DoEof
  <2>3. QED  BY <2>1, <2>2
<1>4. ASSUME NEW d \in Slots, DoWriterFails(d) PROVE Passes(c, r)
  <2>0. UNCHANGED <<events, cart[c].generation>>
    BY <1>4 DEF DoWriterFails
  <2>1. (Tells(c, f)' <=> Tells(c, f)) /\ SaysOnce(c, r)'
    BY <1>s, <2>0, SaidOnce DEF Tells, Event, Ev
  <2>2. CASE d # c
    BY <1>0, <1>4, <2>1, <2>2, PassesQuiet DEF DoWriterFails
  <2>3. CASE d = c
    <3>1. ~Given(c, r)' /\ proc'[c].taken = proc[c].taken /\ cart'[c].writer = "gone" /\ proc'[c].pipe = <<>>
      BY <1>4, <2>3 DEF DoWriterFails, Given
    <3>2. Before(proc[c].pipe, Frame("REQ", r), Frame("REQ", r))'
      BY <3>1 DEF Before
    <3>3. OnePlace(c, r)'
      BY <1>0, <2>1, <3>1, <3>2 DEF OnePlace
    <3>4. QED  BY <1>0, <2>1, <3>1, <3>3 DEF Passes, Holder
  <2>4. QED  BY <2>2, <2>3
<1>5. ASSUME NEW d \in Slots, NEW p \in Peers, DoMake(d, p) PROVE Passes(c, r)
  <2>0. Frame("REQ", p) # f
    BY <1>0, FrameParts
  <2>1. CASE d # c
    BY <1>2, <1>5, <2>0, <2>1 DEF DoMake
  <2>2. CASE d = c
    BY <1>2, <1>5, <2>0, <2>2 DEF DoMake
  <2>3. QED  BY <2>1, <2>2
<1>6. ASSUME NEW d \in Slots, NEW p \in Peers, DoArgument(d, p) PROVE Passes(c, r)
  <2>0. Frame("BODY", p) # f
    BY <1>0, FrameParts
  <2>1. QED  BY <1>2, <1>6, <2>0 DEF DoArgument
<1>7. ASSUME NEW d \in Slots, NEW q \in Served, DoRespond(d, q) PROVE Passes(c, r)
  <2>0. Tell(d, Frame("RESPONSE", q)) /\ UNCHANGED cart
    BY <1>7 DEF DoRespond
  <2>1. CASE d # c
    <3>1. Tells(c, f)' => Tells(c, f)
      BY <2>0, <2>1, TellsOn
    <3>2. SaysOnce(c, r)'
      BY <1>0, <1>s, <2>0, <2>1, SaidOnceMore
    <3>3. proc'[c] = proc[c]
      BY <1>7, <2>1 DEF DoRespond
    <3>4. QED  BY <1>0, <2>0, <3>1, <3>2, <3>3, PassesQuiet
  <2>2. CASE d = c /\ q # r
    <3>0. f # Frame("RESPONSE", q)
      BY <1>0, <2>2, FrameParts
    <3>1. Tells(c, f)' => Tells(c, f)
      BY <2>0, <3>0, TellsOn
    <3>2. SaysOnce(c, r)'
      BY <1>0, <1>s, <2>0, <3>0, SaidOnceMore
    <3>3. proc'[c].taken \subseteq proc[c].taken /\ proc'[c].pipe = proc[c].pipe
      BY <1>7, <2>2 DEF DoRespond
    <3>4. QED  BY <1>0, <2>0, <3>1, <3>2, <3>3, PassesQuiet
  <2>3. CASE d = c /\ q = r
    <3>1. r \in proc[c].taken /\ ~Given(c, r) /\ ~Tells(c, f)
      BY <1>0, <1>7, <2>3 DEF DoRespond, Respond, OnePlace
    <3>2. SaysOnce(c, r)'
      BY <1>0, <1>s, <2>0, <2>3, <3>1, SaidOnceMore
    <3>3. proc'[c].taken = proc[c].taken \ {r} /\ proc'[c].pipe = proc[c].pipe
      BY <1>7, <2>3 DEF DoRespond
    <3>4. OnePlace(c, r)'
      BY <3>1, <3>2, <3>3 DEF OnePlace, Given, Pipe
    <3>5. QED  BY <2>0, <3>1, <3>4 DEF Passes, Holder
  <2>4. QED  BY <2>1, <2>2, <2>3
<1>8. CASE DoStop
  <2>1. Pipe(c)' = {} /\ proc'[c].taken = {} /\ ~Tells(c, f)'
    BY <1>8 DEF DoStop, Tells
  <2>2. QED  BY <1>0, <2>1, PassesNone
<1>9. CASE DoKill \/ DoAil
  <2>1. Ails
    BY <1>9 DEF DoKill, DoAil
  <2>2. Tells(c, f)' <=> Tells(c, f)
    BY <2>1, AilsTells
  <2>3. CASE cart[c].install # NoInstall
    <3>1. SaysOnce(c, r)'
      BY <1>s, <2>1, <2>3, SaidOnce DEF Ails
    <3>2. QED  BY <1>0, <2>1, <2>2, <2>3, <3>1, PassesQuiet DEF Ails
  <2>4. CASE cart[c].install = NoInstall
    <3>1. proc[c].state = "none"
      BY <2>4, RunningRegistered
    <3>2. Pipe(c) = {} /\ proc[c].taken = {}
      BY <3>1 DEF DeadHoldNothing
    <3>3. Pipe(c)' = {} /\ proc'[c].taken = {}
      BY <2>1, <3>2 DEF Ails, Pipe
    <3>4. ~Tells(c, f)
      BY <2>4, EventIs DEF EventSlots, Tells
    <3>5. QED  BY <1>0, <2>2, <3>3, <3>4, PassesNone
  <2>5. QED  BY <2>3, <2>4
<1>10. CASE DoOld
  <2>1. (Tells(c, f)' => Tells(c, f)) /\ SaysOnce(c, r)'
    BY <1>s, <1>10, TellsLess, SaidOnce DEF DoOld
  <2>2. QED  BY <1>0, <1>10, <2>1, PassesQuiet DEF DoOld
<1>11. QED  BY <1>1, <1>3, <1>4, <1>5, <1>6, <1>7, <1>8, <1>9, <1>10

\* Only serving it gives a request to a process.
LEMMA PassesRelay ==
  ASSUME IInv, EventSlots, DeadHoldNothing, NEW r, NEW c \in Slots, OnePlace(c, r), ~DoServe(r, c),
         \/ \E q \in Calls : DoRequest(q) \/ DoBody(q) \/ \E kind \in Kinds : DoCancelCall(q, kind)
         \/ \E p \in Peers : DoRemote(p)
         \/ \E q \in Served : DoNoHandler(q) \/ DoCancel(q) \/ \E d \in Slots : DoServe(q, d)
         \/ \E q \in Requests : DoUnrouted(q) \/ DoUndeliver(q) \/ \E d \in Slots : DoDeliver(q, d)
  PROVE  Passes(c, r)
<1> USE DEF says, maps
<1>0. PICK f : f = Frame("RESPONSE", r)
  OBVIOUS
<1>s. SaysOnce(c, r)
  BY DEF OnePlace
<1>1. ASSUME UNCHANGED <<events, cart>>
      PROVE  (Tells(c, f)' => Tells(c, f)) /\ SaysOnce(c, r)'
  BY <1>s, <1>1, SaidOnce DEF Tells, Event, Ev
<1>2. CASE UNCHANGED <<events, cart, proc>>
  BY <1>0, <1>1, <1>2, PassesQuiet
<1>3. CASE \/ \E q \in Calls : DoRequest(q) \/ DoBody(q) \/ \E kind \in Kinds : DoCancelCall(q, kind)
           \/ \E p \in Peers : DoRemote(p)
  BY <1>2, <1>3 DEF DoRequest, DoBody, DoCancelCall, DoRemote
<1>4. ASSUME NEW d \in Slots, NEW g, g # Frame("REQ", r), Gets(d, g), UNCHANGED <<events, cart>> PROVE Passes(c, r)
  BY <1>0, <1>1, <1>4, PassesGets
<1>5. ASSUME NEW q \in Served, DoCancel(q) PROVE Passes(c, r)
  <2>1. UNCHANGED <<events, cart>> /\ Frame("CANCEL", q) # Frame("REQ", r)
    BY <1>5, FrameParts DEF DoCancel
  <2>2. QED  BY <1>2, <1>4, <1>5, <2>1 DEF DoCancel
<1>6. ASSUME NEW q \in Served, NEW d \in Slots, DoServe(q, d) PROVE Passes(c, r)
  <2>0. UNCHANGED events /\ cart'[c].writer = cart[c].writer
    BY <1>6 DEF DoServe
  <2>1. CASE d # c
    <3>1. proc'[c] = proc[c] /\ cart'[c] = cart[c]
      BY <1>6, <2>1 DEF DoServe
    <3>2. (Tells(c, f)' <=> Tells(c, f)) /\ SaysOnce(c, r)'
      BY <1>s, <2>0, <3>1, SaidOnce DEF Tells, Event, Ev
    <3>3. QED  BY <1>0, <2>0, <3>1, <3>2, PassesQuiet
  <2>2. CASE d = c /\ cart'[c] = cart[c] /\ Gets(c, Frame("REQ", q))
    <3>1. Frame("REQ", q) # Frame("REQ", r)
      BY <1>6, <2>2, FrameParts
    <3>2. (Tells(c, f)' <=> Tells(c, f)) /\ SaysOnce(c, r)'
      BY <1>s, <2>0, <2>2, SaidOnce DEF Tells, Event, Ev
    <3>3. QED  BY <1>0, <2>0, <2>2, <3>1, <3>2, PassesGets
  <2>3. CASE /\ d = c /\ proc[c].state = "none" /\ Pipe(c)' = {Frame("REQ", q)} /\ proc'[c].taken = {}
             /\ Moved(<<>>, proc'[c].pipe, {}, {}, {Frame("REQ", q)})
    <3>1. Frame("REQ", q) # Frame("REQ", r)
      BY <1>6, <2>3, FrameParts
    <3>2. ~Tells(c, f)'
      BY <1>6, <2>3, ServeTells
    <3>3. ~Given(c, r)' /\ ~Holder(c, r)'
      BY <1>0, <2>3, <3>1, <3>2 DEF Given, Holder
    <3>4. Before(proc[c].pipe, Frame("REQ", r), Frame("REQ", r))'
      BY <3>3 DEF Given, Pipe, In, Before
    <3>5. SaysOnce(c, r)'
      BY <1>0, <1>s, <3>2, SaidOnce
    <3>6. OnePlace(c, r)'
      BY <2>3, <3>3, <3>4, <3>5 DEF OnePlace
    <3>7. QED  BY <3>3, <3>6 DEF Passes
  <2>4. QED  BY <1>6, <2>1, <2>2, <2>3 DEF DoServe
<1>7. CASE \E q \in Served : DoNoHandler(q) \/ DoCancel(q) \/ \E d \in Slots : DoServe(q, d)
  BY <1>2, <1>5, <1>6, <1>7 DEF DoNoHandler
<1>8. CASE \E q \in Requests : DoUnrouted(q) \/ DoUndeliver(q) \/ \E d \in Slots : DoDeliver(q, d)
  <2>1. ASSUME NEW q \in Requests, NEW d \in Slots, DoDeliver(q, d) PROVE Passes(c, r)
    <3>1. PICK g : g = Head(relayIn)
      OBVIOUS
    <3>2. g # Frame("REQ", r) /\ Gets(d, g) /\ UNCHANGED <<events, cart>>
      BY <2>1, <3>1, FrameParts DEF DoDeliver
    <3>3. QED  BY <1>4, <3>2
  <2>2. QED  BY <1>2, <1>8, <2>1 DEF DoUnrouted, DoUndeliver
<1>9. QED  BY <1>3, <1>7, <1>8

LEMMA PassesEvents ==
  ASSUME IInv, EventSlots, NEW r, NEW c \in Slots, OnePlace(c, r),
         \/ \E d \in Slots, p \in Peers : DoHearRequest(d, p) \/ DoHearBody(d, p)
         \/ \E d \in Slots, q \in Served : DoHearResponse(d, q)
         \/ \E D \in SUBSET Slots : DoBury(D)
  PROVE  Passes(c, r)
<1> USE DEF says, maps
<1>0. PICK f : f = Frame("RESPONSE", r)
  OBVIOUS
<1>s. SaysOnce(c, r)
  BY DEF OnePlace
<1>1. CASE Drops /\ UNCHANGED <<cart, proc>>
  <2>1. (Tells(c, f)' => Tells(c, f)) /\ SaysOnce(c, r)'
    BY <1>s, <1>1, TellsLess, SaidOnce
  <2>2. QED  BY <1>0, <1>1, <2>1, PassesQuiet
<1>2. CASE \/ \E d \in Slots, p \in Peers : DoHearRequest(d, p) \/ DoHearBody(d, p)
           \/ \E d \in Slots, q \in Served : DoHearResponse(d, q)
  BY <1>1, <1>2 DEF DoHearRequest, DoHearBody, DoHearResponse
<1>3. ASSUME NEW D \in SUBSET Slots, DoBury(D) PROVE Passes(c, r)
  <2>0. IF c \in D THEN ~Tells(c, f)' ELSE Tells(c, f)' => Tells(c, f)
    BY <1>3, BuryTells
  <2>1. CASE c \in D
    BY <1>0, <1>3, <2>0, <2>1, PassesNone DEF DoBury, Buries
  <2>2. CASE c \notin D
    <3>1. proc'[c] = proc[c] /\ cart'[c] = cart[c] /\ (Drops \/ UNCHANGED events)
      BY <1>3, <2>2 DEF DoBury, Buries
    <3>2. SaysOnce(c, r)'
      BY <1>s, <3>1, SaidOnce
    <3>3. QED  BY <1>0, <2>0, <2>2, <3>1, <3>2, PassesQuiet
  <2>3. QED  BY <2>1, <2>2
<1>4. QED  BY <1>2, <1>3

LEMMA Passing ==
  ASSUME IInv, EventSlots, DeadHoldNothing, Steps, NEW r, NEW c \in Slots, OnePlace(c, r), ~DoServe(r, c)
  PROVE  Passes(c, r)
  BY PassesProcesses, PassesRelay, PassesEvents DEF Steps

\* Until its response is known a call that is served is with the slot its entry
\* names; a slot that is not holds it only for a process that is found dead.
Placed(c, r) ==
  /\ OnePlace(c, r)
  /\ Holder(c, r) => \/ incoming[r] = c /\ r \notin responseDone
                     \/ cart[c].writer = "gone" /\ incoming[r] \in {0, c}
  /\ Frame("REQ", r) \in Rel => ~Holder(c, r)
Unanswered(r) ==
  /\ Frame("REQ", r) \in Rel => answers[r] = 0
  /\ r \notin responseDone /\ incoming[r] # 0 => answers[r] = 0
Token(r) == Unanswered(r) /\ \A c \in Slots : Placed(c, r)
Tokens == \A r \in Calls : Token(r)

\* A step that leaves the request's entry and its answers.
LEMMA TokenQuiet ==
  ASSUME IInv, EventSlots, DeadHoldNothing, Unmade, Asks, Fresh, Steps, NEW r \in Calls, Token(r),
         incoming'[r] = incoming[r], r \in responseDone' <=> r \in responseDone, answers'[r] = answers[r],
         \A c \in Slots : ~DoServe(r, c)
  PROVE  Token(r)'
<1>0. r \in Requests /\ r \in Served
  BY Domains
<1>1. Frame("REQ", r) \in Rel' => Frame("REQ", r) \in Rel \/ Clean(r)
  BY <1>0, RequestMoves DEF Fresh, ReqMoves, Unmade
<1>2. Clean(r) => answers[r] = 0 /\ \A c \in Slots : ~Holder(c, r)
  <2>1. Frame("REQ", r).req = r
    BY FrameParts
  <2>2. ASSUME Clean(r), NEW c \in Slots PROVE ~Holder(c, r)
    BY <2>1, <2>2, EventIs DEF Clean, Holder, Given, Tells
  <2>3. QED  BY <2>2 DEF Clean
<1>3. Unanswered(r)'
  BY <1>1, <1>2 DEF Token, Unanswered
<1>4. ASSUME NEW c \in Slots PROVE Placed(c, r)'
  <2>1. Placed(c, r) /\ OnePlace(c, r)
    BY DEF Token, Placed
  <2>2. Passes(c, r)
    BY <2>1, Passing
  <2>3. QED  BY <1>1, <1>2, <2>1, <2>2 DEF Placed, Passes
<1>5. QED  BY <1>3, <1>4 DEF Token

LEMMA TokenServed ==
  ASSUME IInv, EventSlots, DeadHoldNothing, Fresh, Steps, NEW r \in Calls, Token(r), NEW c \in Slots, DoServe(r, c)
  PROVE  Token(r)'
<1>0. r \in Requests /\ r \in Served /\ incoming \in [Served -> Slots \cup {0}]
  BY Domains
<1>1. PICK g : g = Frame("REQ", r)
  OBVIOUS
<1>2. g \in Rel /\ g \notin Rel' /\ incoming'[r] = c /\ UNCHANGED <<responseDone, answers>>
  BY <1>0, <1>1, RequestServed DEF DoServe, Pops, Fresh, says
<1>3. r \notin responseDone /\ answers[r] = 0 /\ \A d \in Slots : OnePlace(d, r) /\ ~Holder(d, r)
  BY <1>0, <1>1, <1>2 DEF Fresh, Token, Placed, Unanswered
<1>4. ASSUME NEW d \in Slots, d # c PROVE Placed(d, r)'
  <2>1. ~DoServe(r, d)
    BY <1>0, <1>2, <1>4 DEF DoServe
  <2>2. Passes(d, r)
    BY <1>3, <2>1, Passing
  <2>3. QED  BY <1>3, <2>2 DEF Placed, Passes
<1>5. OnePlace(c, r)'
  <2>0. ~Given(c, r) /\ r \notin proc[c].taken /\ ~Tells(c, Frame("RESPONSE", r)) /\ SaysOnce(c, r)
    BY <1>3 DEF Holder, OnePlace
  <2>1. ~Tells(c, Frame("RESPONSE", r))'
    BY <2>0, ServeTells
  <2>2. SaysOnce(c, r)'
    BY <2>0, <2>1, SaidOnce
  <2>3. r \notin proc'[c].taken
    BY <2>0 DEF DoServe, Gets
  <2>4. Before(proc'[c].pipe, g, g)
    <3>1. CASE Gets(c, g)
      <4>1. Moved(proc[c].pipe, proc'[c].pipe, {}, Pipe(c), {g})
        BY <3>1 DEF Gets
      <4>2. Before(proc[c].pipe, g, g) /\ Fits(g, g, Pipe(c), {g})
        BY <1>1, <1>3, <2>0 DEF OnePlace, Given, Fits
      <4>3. QED  BY <4>1, <4>2 DEF Moved
    <3>2. CASE Moved(<<>>, proc'[c].pipe, {}, {}, {g})
      <4>1. Before(<<>>, g, g) /\ Fits(g, g, {}, {g})
        BY DEF Before, Fits
      <4>2. QED  BY <3>2, <4>1 DEF Moved
    <3>3. QED  BY <1>1, <3>1, <3>2 DEF DoServe
  <2>5. QED  BY <1>1, <2>1, <2>2, <2>3, <2>4 DEF OnePlace
<1>6. Placed(c, r)'
  BY <1>1, <1>2, <1>3, <1>5 DEF Placed
<1>7. Unanswered(r)'
  BY <1>1, <1>2, <1>3 DEF Unanswered
<1>8. QED  BY <1>4, <1>6, <1>7 DEF Token

\* One whose entry goes, or that is answered, and that is not given to anyone.
LEMMA TokenOver ==
  ASSUME IInv, EventSlots, DeadHoldNothing, Steps, NEW r \in Calls, Token(r),
         \A c \in Slots : ~DoServe(r, c), Frame("REQ", r) \notin Rel',
         incoming'[r] = 0 \/ r \in responseDone',
         \A c \in Slots : Holder(c, r) /\ Holder(c, r)' => cart[c].writer = "gone" /\ incoming'[r] \in {0, c}
  PROVE  Token(r)'
<1>1. Unanswered(r)'
  BY DEF Unanswered
<1>2. ASSUME NEW c \in Slots PROVE Placed(c, r)'
  <2>1. OnePlace(c, r)
    BY DEF Token, Placed
  <2>2. Passes(c, r)
    BY <2>1, Passing
  <2>3. QED  BY <2>2 DEF Passes, Placed
<1>3. QED  BY <1>1, <1>2 DEF Token

LEMMA TokenNoHandler ==
  ASSUME IInv, EventSlots, DeadHoldNothing, Fresh, Steps, NEW r \in Calls, Token(r), DoNoHandler(r)
  PROVE  Token(r)' /\ answers[r] = 0
<1>0. r \in Requests /\ r \in Served
  BY Domains
<1>1. PICK g : g = Frame("REQ", r)
  OBVIOUS
<1>2. g \in Rel /\ g \notin Rel'
  <2>1. g = Head(relayIn) /\ PopsAndGrows(Back({r})) /\ g \notin Back({r}) /\ Before(relayIn, g, g)
    BY <1>0, <1>1, SentNot DEF DoNoHandler, Fresh
  <2>2. QED  BY <2>1, FrameTaken DEF PopsAndGrows
<1>3. incoming[r] = 0 /\ incoming' = incoming /\ answers[r] = 0 /\ \A c \in Slots : ~Holder(c, r)
  BY <1>0, <1>1, <1>2 DEF Fresh, Token, Placed, Unanswered, DoNoHandler, maps
<1>4. \A c \in Slots : ~DoServe(r, c)
  BY <1>0, <1>3, Domains DEF DoServe
<1>5. QED  BY <1>1, <1>2, <1>3, <1>4, TokenOver

LEMMA TokenDelivered ==
  ASSUME IInv, EventSlots, DeadHoldNothing, Unmade, Asks, Fresh, Steps,
         NEW r \in Calls, Token(r), NEW c \in Slots, DoDeliver(r, c)
  PROVE  Token(r)'
<1>0. /\ r \in Requests /\ r \in Served /\ r \notin Peers /\ incoming \in [Served -> Slots \cup {0}] /\ 0 \notin Slots
  BY Domains
<1>1. incoming[r] = c /\ incoming[r] # 0 /\ UNCHANGED answers
  BY <1>0 DEF DoDeliver, says
<1>2. \A d \in Slots : ~DoServe(r, d)
  BY FrameParts DEF DoServe, DoDeliver
<1>3. CASE r \in responseDone
  <2>1. incoming'[r] = 0
    BY <1>0, <1>3 DEF DoDeliver
  <2>2. Frame("REQ", r) \notin Rel
    BY <1>0, <1>1 DEF Fresh
  <2>3. Frame("REQ", r) \notin Rel'
    <3>1. Rel' \subseteq Rel
      BY DEF DoDeliver, Pops
    <3>2. QED  BY <2>2, <3>1
  <2>4. \A d \in Slots : Holder(d, r) => cart[d].writer = "gone"
    BY <1>3 DEF Token, Placed
  <2>5. QED  BY <1>2, <2>1, <2>3, <2>4, TokenOver
<1>4. CASE r \notin responseDone
  <2>1. UNCHANGED <<incoming, responseDone>>
    BY <1>0, <1>4 DEF DoDeliver
  <2>2. QED  BY <1>1, <1>2, <2>1, TokenQuiet
<1>5. QED  BY <1>3, <1>4

LEMMA TokenUndelivered ==
  ASSUME IInv, EventSlots, DeadHoldNothing, Fresh, Steps, NEW r \in Calls, Token(r), DoUndeliver(r)
  PROVE  Token(r)' /\ (answers[r] = 0 \/ r \in responseDone)
<1>0. /\ r \in Requests /\ r \in Served /\ r \notin Peers /\ 0 \notin Slots
      /\ incoming \in [Served -> Slots \cup {0}]
  BY Domains
<1>1. incoming[r] \in Slots /\ ~CanSend(incoming[r]) /\ up /\ incoming'[r] = 0
  BY <1>0 DEF DoUndeliver
<1>2. cart[incoming[r]].writer = "gone"
  <2>1. cart[incoming[r]].running
    BY <1>0, <1>1 DEF IInv, Lives, EntriesRunning
  <2>2. cart[incoming[r]] \in Cartridge
    BY <1>1 DEF IInv, TypeInv, TypeOK
  <2>3. QED  BY <1>1, <2>1, <2>2 DEF CanSend, Cartridge
<1>3. \A d \in Slots : ~DoServe(r, d)
  BY FrameParts DEF DoServe, DoUndeliver
<1>4. Frame("REQ", r) \notin Rel'
  <2>1. Frame("REQ", r) \notin Rel
    BY <1>0, <1>1 DEF Fresh
  <2>2. QED  BY <2>1, SentNot DEF DoUndeliver, PopsAndGrows
<1>5. \A d \in Slots : Holder(d, r) => cart[d].writer = "gone"
  BY <1>2 DEF Token, Placed
<1>6. answers[r] = 0 \/ r \in responseDone
  BY <1>0, <1>1 DEF Token, Unanswered
<1>7. QED  BY <1>1, <1>3, <1>4, <1>5, <1>6, TokenOver

LEMMA TokenResponse ==
  ASSUME IInv, EventSlots, DeadHoldNothing, Steps, NEW r \in Calls, Token(r), NEW c \in Slots, DoHearResponse(c, r)
  PROVE  Token(r)' /\ (answers[r] = 0 \/ FoundDead(r))
<1>0. /\ r \in Requests /\ r \in Served /\ 0 \notin Slots /\ incoming \in [Served -> Slots \cup {0}]
  BY Domains
<1>1. PICK f : f = Frame("RESPONSE", r)
  OBVIOUS
<1>2. Tells(c, f) /\ Drops /\ UNCHANGED <<cart, proc>> /\ Head(events) = Event(c, f)
  BY <1>1 DEF DoHearResponse, Tells
<1>3. Placed(c, r) /\ Holder(c, r) /\ ~Given(c, r) /\ r \notin proc[c].taken /\ Frame("REQ", r) \notin Rel
  BY <1>1, <1>2 DEF Token, Placed, Holder, OnePlace
<1>4. ~Tells(c, f)'
  <2>1. PICK e : e = Event(c, f)
    OBVIOUS
  <2>2. Before(events, e, e) /\ Moved(events, events', {e}, Ev', {})
    BY <1>1, <1>2, <1>3, <2>1 DEF Placed, OnePlace, SaysOnce, Drops
  <2>3. e \notin Ev'
    BY <2>2 DEF Moved
  <2>4. Event(c, f)' = e
    BY <1>2, <2>1 DEF Event
  <2>5. QED  BY <2>3, <2>4 DEF Tells
<1>5. ~Holder(c, r)'
  BY <1>1, <1>2, <1>3, <1>4 DEF Holder, Given, Pipe
<1>6. \A d \in Slots : ~DoServe(r, d)
  BY <1>3 DEF DoServe, Pops
<1>7. Frame("REQ", r) \notin Rel'
  BY <1>3, SentNot DEF DoHearResponse, Grows
<1>8. \/ incoming[r] = c /\ r \notin responseDone
      \/ cart[c].writer = "gone" /\ incoming[r] \in {0, c}
  BY <1>3 DEF Placed
<1>9. incoming'[r] \in {0, incoming[r]} /\ (incoming'[r] = 0 \/ r \in responseDone')
  <2>1. Release(r)
    BY DEF DoHearResponse
  <2>2. QED  BY <1>0, <1>8, <2>1 DEF Release
<1>10. ASSUME NEW d \in Slots, Holder(d, r), Holder(d, r)'
       PROVE  cart[d].writer = "gone" /\ incoming'[r] \in {0, d}
  <2>1. d # c
    BY <1>5, <1>10
  <2>2. Placed(d, r)
    BY DEF Token
  <2>3. QED  BY <1>0, <1>8, <1>9, <1>10, <2>1, <2>2 DEF Placed
<1>11. Token(r)'
  BY <1>6, <1>7, <1>9, <1>10, TokenOver
<1>12. cart[c].writer = "gone" => FoundDead(r)
  BY DEF DoHearResponse, FoundDead
<1>13. incoming[r] = c /\ r \notin responseDone => answers[r] = 0
  BY <1>0 DEF Token, Unanswered
<1>14. QED  BY <1>8, <1>11, <1>12, <1>13

LEMMA TokenBuried ==
  ASSUME IInv, EventSlots, DeadHoldNothing, Fresh, Steps, NEW r \in Calls, Token(r),
         NEW D \in SUBSET Slots, DoBury(D), r \in Lost(D)
  PROVE  Token(r)' /\ (answers[r] = 0 \/ r \in responseDone)
<1>0. /\ r \in Requests /\ r \in Served /\ 0 \notin Slots /\ incoming \in [Served -> Slots \cup {0}]
  BY Domains
<1>1. incoming[r] \in D /\ incoming[r] # 0 /\ incoming'[r] = 0
  BY <1>0 DEF Lost, Entries, DoBury, Buries
<1>2. Frame("REQ", r) \notin Rel
  BY <1>0, <1>1 DEF Fresh
<1>3. Frame("REQ", r) \notin Rel'
  BY <1>2, SentNot DEF DoBury, Buries, Grows
<1>4. \A d \in Slots : ~DoServe(r, d)
  BY <1>2 DEF DoServe, Pops
<1>5. ASSUME NEW d \in Slots, Holder(d, r) PROVE ~Holder(d, r)'
  <2>1. d \in D
    BY <1>1, <1>5 DEF Token, Placed
  <2>2. Pipe(d)' = {} /\ proc'[d].taken = {} /\ ~Tells(d, Frame("RESPONSE", r))'
    BY <2>1, BuryTells DEF DoBury, Buries
  <2>3. QED  BY <2>2, PassesNone
<1>6. answers[r] = 0 \/ r \in responseDone
  BY <1>0, <1>1 DEF Token, Unanswered
<1>7. QED  BY <1>1, <1>3, <1>4, <1>5, <1>6, TokenOver

\* Every step is one of those.
LEMMA TokenMoves ==
  ASSUME IInv, EventSlots, DeadHoldNothing, Unmade, Asks, Fresh, Steps, NEW r \in Calls, Token(r)
  PROVE  Token(r)' /\ (answers'[r] > answers[r] => answers[r] = 0 \/ r \in responseDone \/ FoundDead(r))
<1> USE DEF says, maps
<1> DEFINE Answered == answers'[r] > answers[r] => answers[r] = 0 \/ r \in responseDone \/ FoundDead(r)
<1>0. /\ r \in Requests /\ r \in Served /\ r \notin Peers /\ incoming \in [Served -> Slots \cup {0}]
      /\ answers \in [Requests -> Nat]
  BY Domains
<1>1. ASSUME UNCHANGED <<incoming, responseDone, answers>>, \A c \in Slots : ~DoServe(r, c)
      PROVE  Token(r)' /\ Answered
  BY <1>0, <1>1, TokenQuiet
<1>2. ASSUME UNCHANGED incoming PROVE \A c \in Slots : ~DoServe(r, c) \/ incoming[r] = c
  BY <1>0, <1>2 DEF DoServe
<1>3. ASSUME NEW c \in Slots, DoServe(r, c) PROVE Token(r)' /\ Answered
  <2>1. Token(r)'
    BY <1>3, TokenServed
  <2>2. UNCHANGED answers
    BY <1>3 DEF DoServe
  <2>3. QED  BY <1>0, <2>1, <2>2
<1>4. ASSUME UNCHANGED <<incoming, responseDone, answers>> PROVE Token(r)' /\ Answered
  BY <1>1, <1>3, <1>4
<1>5. CASE \/ \E q \in Calls : DoRequest(q) \/ DoBody(q) \/ \E kind \in Kinds : DoCancelCall(q, kind)
           \/ \E p \in Peers : DoRemote(p)
           \/ \E c \in Slots : DoTake(c) \/ DoEof(c) \/ DoWriterFails(c)
           \/ \E c \in Slots, p \in Peers : DoMake(c, p) \/ DoArgument(c, p)
           \/ \E c \in Slots, q \in Served : DoRespond(c, q)
           \/ DoStop \/ DoKill \/ DoAil \/ DoOld
  BY <1>4, <1>5 DEF DoRequest, DoBody, DoCancelCall, DoRemote, DoTake, DoEof, DoWriterFails, DoMake,
       DoArgument, DoRespond, DoStop, DoKill, DoAil, DoOld, Ails
<1>6. ASSUME NEW q \in Served, DoNoHandler(q) PROVE Token(r)' /\ Answered
  <2>1. CASE q = r
    BY <1>6, <2>1, TokenNoHandler
  <2>2. CASE q # r
    <3>1. UNCHANGED <<incoming, responseDone>> /\ Answer({q})
      BY <1>6 DEF DoNoHandler
    <3>2. answers'[r] = answers[r]
      BY <1>0, <2>2, <3>1, AnswerDoes
    <3>3. \A c \in Slots : ~DoServe(r, c)
      BY <1>6, <2>2, FrameParts DEF DoServe, DoNoHandler
    <3>4. QED  BY <1>0, <3>1, <3>2, <3>3, TokenQuiet
  <2>3. QED  BY <2>1, <2>2
<1>7. ASSUME NEW q \in Served, NEW c \in Slots, DoServe(q, c), q # r PROVE Token(r)' /\ Answered
  <2>1. \A d \in Slots : ~DoServe(r, d)
    BY <1>7, FrameParts DEF DoServe
  <2>2. UNCHANGED <<responseDone, answers>> /\ incoming'[r] = incoming[r]
    BY <1>0, <1>7 DEF DoServe
  <2>3. QED  BY <1>0, <2>1, <2>2, TokenQuiet
<1>8. CASE \E q \in Served : DoNoHandler(q) \/ DoCancel(q) \/ \E c \in Slots : DoServe(q, c)
  <2>1. ASSUME NEW q \in Served, DoCancel(q) PROVE Token(r)' /\ Answered
    BY <1>4, <2>1 DEF DoCancel
  <2>2. QED  BY <1>3, <1>6, <1>7, <1>8, <2>1
<1>9. ASSUME NEW q \in Requests, DoUndeliver(q) PROVE Token(r)' /\ Answered
  <2>1. CASE q = r
    BY <1>9, <2>1, TokenUndelivered
  <2>2. CASE q # r
    <3>1. answers'[r] = answers[r]
      BY <1>0, <1>9, <2>2, AnswerDoes DEF DoUndeliver
    <3>2. incoming'[r] = incoming[r] /\ (r \in responseDone' <=> r \in responseDone)
      BY <1>0, <1>9, <2>2 DEF DoUndeliver
    <3>3. \A c \in Slots : ~DoServe(r, c)
      BY <1>9, FrameParts DEF DoServe, DoUndeliver
    <3>4. QED  BY <1>0, <3>1, <3>2, <3>3, TokenQuiet
  <2>3. QED  BY <2>1, <2>2
<1>10. ASSUME NEW q \in Requests, NEW c \in Slots, DoDeliver(q, c) PROVE Token(r)' /\ Answered
  <2>0. UNCHANGED answers
    BY <1>10 DEF DoDeliver
  <2>1. CASE q = r
    BY <1>0, <1>10, <2>0, <2>1, TokenDelivered
  <2>2. CASE q # r
    <3>2. incoming'[r] = incoming[r] /\ (r \in responseDone' <=> r \in responseDone)
      BY <1>0, <1>10, <2>2 DEF DoDeliver
    <3>3. \A d \in Slots : ~DoServe(r, d)
      BY <1>10, FrameParts DEF DoServe, DoDeliver
    <3>4. QED  BY <1>0, <2>0, <3>2, <3>3, TokenQuiet
  <2>3. QED  BY <2>1, <2>2
<1>11. CASE \E q \in Requests : DoUnrouted(q) \/ DoUndeliver(q) \/ \E c \in Slots : DoDeliver(q, c)
  <2>1. ASSUME NEW q \in Requests, DoUnrouted(q) PROVE Token(r)' /\ Answered
    BY <1>4, <2>1 DEF DoUnrouted
  <2>2. QED  BY <1>9, <1>10, <1>11, <2>1
<1>12. CASE \E c \in Slots, p \in Peers : DoHearRequest(c, p) \/ DoHearBody(c, p)
  BY <1>4, <1>12 DEF DoHearRequest, DoHearBody
<1>13. ASSUME NEW c \in Slots, NEW q \in Served, DoHearResponse(c, q) PROVE Token(r)' /\ Answered
  <2>1. CASE q = r
    BY <1>13, <2>1, TokenResponse
  <2>2. CASE q # r
    <3>0. Release(q) /\ Answer({q})
      BY <1>13 DEF DoHearResponse
    <3>1. answers'[r] = answers[r]
      BY <1>0, <2>2, <3>0, AnswerDoes
    <3>2. incoming'[r] = incoming[r] /\ (r \in responseDone' <=> r \in responseDone)
      BY <1>0, <2>2, <3>0 DEF Release
    <3>3. CASE \A d \in Slots : ~DoServe(r, d)
      BY <1>0, <3>1, <3>2, <3>3, TokenQuiet
    <3>4. QED  BY <1>3, <3>3
  <2>3. QED  BY <2>1, <2>2
<1>14. ASSUME NEW D \in SUBSET Slots, DoBury(D) PROVE Token(r)' /\ Answered
  <2>1. CASE r \in Lost(D)
    BY <1>14, <2>1, TokenBuried
  <2>2. CASE r \notin Lost(D)
    <3>1. answers'[r] = answers[r]
      BY <1>0, <1>14, <2>2, AnswerDoes DEF DoBury, Buries
    <3>2. incoming'[r] = incoming[r] /\ (r \in responseDone' <=> r \in responseDone)
      BY <1>0, <1>14, <2>2 DEF DoBury, Buries
    <3>3. CASE \A d \in Slots : ~DoServe(r, d)
      BY <1>0, <3>1, <3>2, <3>3, TokenQuiet
    <3>4. QED  BY <1>3, <3>3
  <2>3. QED  BY <2>1, <2>2
<1>15. QED  BY <1>5, <1>8, <1>11, <1>12, <1>13, <1>14 DEF Steps

LEMMA StillTokens ==
  ASSUME IInv, EventSlots, DeadHoldNothing, Unmade, Asks, Fresh, Tokens, Steps
  PROVE  Tokens'
  BY TokenMoves DEF Tokens

-----------------------------------------------------------------------------
(* The invariant, and what it gives.                                         *)
Routing ==
  /\ EventSlots /\ DeadHoldNothing /\ Unmade /\ Asks
  /\ Fresh /\ OverOnce /\ HeldLive /\ Tokens
RInv == IInv /\ Routing

LEMMA InitRouting ==
  ASSUME Init
  PROVE  Routing
<1>0. /\ relayIn = <<>> /\ events = <<>> /\ proc = [c \in Slots |-> NoProcess]
      /\ incoming = [r \in Served |-> 0] /\ outgoing = [p \in Peers |-> 0]
      /\ bodyDone = {} /\ responseDone = {} /\ links = {}
      /\ requested = [r \in Requests |-> "no"] /\ answers = [r \in Requests |-> 0]
      /\ \A c \in Slots : cart[c].writer = "open"
  BY DEF Init, Registered
<1>1. Rel = {} /\ Ev = {} /\ \A f, g : Before(relayIn, f, g) /\ Before(events, f, g)
  BY <1>0 DEF Rel, Ev, In, Before
<1>2. ASSUME NEW c \in Slots
      PROVE  /\ proc[c].state = "none" /\ proc[c].taken = {} /\ proc[c].told = {} /\ proc[c].ended = {}
             /\ proc[c].asked = {} /\ proc[c].pipe = <<>> /\ Pipe(c) = {}
             /\ \A f, g : Before(proc[c].pipe, f, g)
  BY <1>0 DEF NoProcess, Pipe, In, Before
<1>3. Calls \subseteq Requests /\ Served \subseteq Requests /\ Calls \subseteq Served
  BY LocalType DEF Requests, Served
<1>4. EventSlots
  BY <1>1 DEF EventSlots
<1>5. DeadHoldNothing
  BY <1>0, <1>2 DEF DeadHoldNothing
<1>6. Unmade
  BY <1>0, <1>1, <1>2 DEF Unmade, Clean
<1>7. Asks
  BY <1>1 DEF Asks, Said
<1>8. Fresh
  BY <1>0, <1>1 DEF Fresh
<1>9. OverOnce
  BY <1>0 DEF OverOnce
<1>10. HeldLive
  BY <1>0, <1>3 DEF HeldLive
<1>11. ASSUME NEW r \in Calls PROVE Token(r)
  <2>1. Unanswered(r)
    BY <1>0, <1>1, <1>3 DEF Unanswered
  <2>2. ASSUME NEW c \in Slots PROVE Placed(c, r)
    <3>1. ~Holder(c, r)
      BY <1>1, <1>2 DEF Holder, Given, Tells
    <3>2. OnePlace(c, r)
      BY <1>1, <1>2 DEF OnePlace, SaysOnce, Given, Tells
    <3>3. QED  BY <3>1, <3>2 DEF Placed
  <2>3. QED  BY <2>1, <2>2 DEF Token
<1>12. QED  BY <1>4, <1>5, <1>6, <1>7, <1>8, <1>9, <1>10, <1>11 DEF Routing, Tokens

LEMMA RoutingKept ==
  ASSUME IInv, TypeInv', Routing, [Next]_vars
  PROVE  Routing'
<1>1. Steps
  BY StepDoes DEF Routing
<1>2. EventSlots' /\ DeadHoldNothing'
  BY <1>1, SlotsOfEvents, DeadStill DEF Routing
<1>3. Unmade' /\ Asks'
  BY <1>1, StillUnmade, StillAsks DEF Routing
<1>4. Fresh' /\ OverOnce'
  BY <1>1, StillFresh, StillOver DEF Routing
<1>5. HeldLive' /\ Tokens'
  BY <1>1, StillHeld, StillTokens DEF Routing
<1>6. QED  BY <1>2, <1>3, <1>4, <1>5 DEF Routing

\* In every state, about queues and books together: a request is in at most one
\* place on its way to a response, a request that is not answered is somewhere,
\* nothing is held by a process that is gone, and what was not made is nowhere.
THEOREM RoutingInvariant == Spec => []RInv
<1>1. Init => RInv
  BY InitInvariant, InitRouting DEF RInv
<1>2. RInv /\ IInv' /\ [Next]_vars => RInv'
  BY RoutingKept DEF RInv, IInv
<1>3. QED  BY <1>1, <1>2, Invariant, PTL DEF Spec

\* What the property says of queues, the invariant says of what is in them.
LEMMA HeldKnown ==
  ASSUME RInv
  PROVE  ServedHeld
<1>1. ASSUME NEW s, NEW f PROVE Queued(s, f) <=> f \in In(s)
  BY QueuedIn
<1>2. ASSUME NEW c, NEW f PROVE Heard(c, f) <=> Tells(c, f)
  BY <1>1 DEF Heard, Tells, Ev
<1>3. ASSUME NEW c, NEW r, Has(c, r) PROVE Holds(c, r)
  BY <1>1, <1>2, <1>3 DEF Has, Holds, Pipe
<1>4. ASSUME up, NEW r \in Served, requested[r] = "live"
      PROVE  Queued(relayIn, Frame("REQ", r)) \/ (incoming[r] # 0 /\ Holds(incoming[r], r))
  <2>1. Keeps(r)
    BY <1>4 DEF RInv, Routing, HeldLive
  <2>2. CASE Frame("REQ", r) \in Rel
    BY <2>2 DEF Rel, In, Queued
  <2>3. ASSUME NEW c \in Slots, incoming[r] = c, Has(c, r)
        PROVE  incoming[r] # 0 /\ Holds(incoming[r], r)
    BY <1>3, <2>3 DEF Slots
  <2>4. QED  BY <2>1, <2>2, <2>3 DEF Keeps
<1>5. QED  BY <1>4 DEF ServedHeld

\* While the host runs, a request it serves, of the engine or of a cartridge, that
\* was not answered is in the relay's queue or on the books of its server, which
\* holds it, has said its response or is dead: whatever dies, is cancelled,
\* killed, retired or synced, and in whatever order events and frames are taken.
THEOREM ServedHeldAlways == Spec => []ServedHeld
<1>1. RInv => ServedHeld
  BY HeldKnown
<1>2. QED  BY <1>1, RoutingInvariant, PTL

\* A second terminal for a call goes to the relay only when the first came before
\* the call's body had ended here, or when the host, unable to deliver the body's
\* end, answered before it had read the response of the dead process: every
\* other way to answer (a response, a death, a missing handler) finds the call's
\* entry, and an entry answered for is marked or gone. What an earlier process of
\* a slot said does not count for the one spawned since.
THEOREM AnsweredOnceAlways == Spec => AnsweredOnce
<1> DEFINE Once == \A r \in Calls : answers'[r] > answers[r] =>
                     answers[r] = 0 \/ r \in responseDone \/ FoundDead(r)
<1>1. RInv /\ [Next]_vars => [Once]_vars
  BY StepDoes, TokenMoves DEF RInv, Routing, Tokens
<1>2. QED  BY <1>1, RoutingInvariant, PTL DEF Spec, AnsweredOnce

-----------------------------------------------------------------------------
(* What moves in a step: the relay's stream, a process' input, what is said   *)
\* What the relay's stream may gain in a step.
Sent(f) ==
  \/ f = Frame("REQ", f.req) /\ requested[f.req] = "no" /\ requested'[f.req] = "live"
  \/ f = Frame("BODY", f.req) /\ f.req \in Calls
  \/ f = Frame(f.kind, f.req) /\ f.kind \in Kinds /\ f.req \in Cancels /\ f.req \in cancelled'
  \/ f = Frame("CANCEL", f.req) /\ f.req \in Peers /\ \E r \in Served : DoCancel(r) /\ <<r, f.req>> \in links
  \/ /\ f = Frame("RESPONSE", f.req) /\ f.req \in Peers /\ requested'[f.req] = "over"
     /\ requested[f.req] \in {"live", "away"}
  \/ /\ f = Frame("BODY", f.req) /\ f.req \in Peers /\ requested[f.req] = "live"
     /\ outgoing'[f.req] = 0 \/ \E c \in Slots : DoHearBody(c, f.req)
Flows(N) == Grows(N) \/ PopsAndGrows(N) \/ (N = {} /\ (Pops \/ UNCHANGED relayIn))
RelayFlow == (~up' /\ relayIn' = <<>>) \/ \E N : Flows(N) /\ \A f \in N : Sent(f)

LEMMA RelayFlowing ==
  ASSUME IInv, Asks, Steps
  PROVE  RelayFlow
<1> USE DEF says, maps
<1>0. requested \in [Requests -> {"no", "live", "away", "over"}] /\ Calls \subseteq Requests /\ Peers \subseteq Requests
  BY Domains
<1>1. ASSUME NEW N, Grows(N) \/ PopsAndGrows(N), \A f \in N : Sent(f) PROVE RelayFlow
  BY <1>1 DEF RelayFlow, Flows
<1>2. ASSUME Pops \/ UNCHANGED relayIn PROVE RelayFlow
  <2>1. Flows({})
    BY <1>2 DEF Flows
  <2>2. QED  BY <2>1 DEF RelayFlow
<1>3. ASSUME NEW kind, NEW r, Sent(Frame(kind, r)), Grows({Frame(kind, r)}) PROVE RelayFlow
  BY <1>1, <1>3
<1>4. ASSUME NEW R \in SUBSET Requests, Answer(R), NEW f \in Back(R) PROVE Sent(f)
  <2>1. f = Frame("RESPONSE", f.req) /\ f.req \in R /\ f.req \in Peers /\ requested[f.req] = "live"
    BY <1>4, SentAbout
  <2>2. requested'[f.req] = "over"
    BY <1>0, <1>4, <2>1, AnswerDoes
  <2>3. QED  BY <2>1, <2>2 DEF Sent
<1>5. CASE \/ \E c \in Slots : DoTake(c) \/ DoEof(c) \/ DoWriterFails(c)
           \/ \E c \in Slots, p \in Peers : DoMake(c, p) \/ DoArgument(c, p)
           \/ \E c \in Slots, q \in Served : DoRespond(c, q)
           \/ DoStop \/ DoKill \/ DoAil \/ DoOld
  <2>1. CASE DoStop
    BY <2>1 DEF DoStop, RelayFlow
  <2>2. QED  BY <1>2, <1>5, <2>1 DEF DoTake, DoEof, DoWriterFails, DoMake, DoArgument, DoRespond, DoKill, DoAil, DoOld
<1>6. ASSUME NEW r \in Calls, DoRequest(r) PROVE RelayFlow
  <2>1. requested[r] = "no" /\ requested'[r] = "live" /\ Grows({Frame("REQ", r)})
    BY <1>0, <1>6 DEF DoRequest
  <2>2. Sent(Frame("REQ", r))
    BY <2>1, FrameParts DEF Sent
  <2>3. QED  BY <1>3, <2>1, <2>2
<1>7. ASSUME NEW r \in Calls, DoBody(r) PROVE RelayFlow
  <2>1. Sent(Frame("BODY", r))
    BY FrameParts DEF Sent
  <2>2. QED  BY <1>3, <1>7, <2>1 DEF DoBody
<1>8. ASSUME NEW r \in Calls, NEW kind \in Kinds, DoCancelCall(r, kind) PROVE RelayFlow
  <2>1. Sent(Frame(kind, r))
    BY <1>8, FrameParts DEF Sent, DoCancelCall
  <2>2. QED  BY <1>3, <1>8, <2>1 DEF DoCancelCall
<1>9. ASSUME NEW p \in Peers, DoRemote(p) PROVE RelayFlow
  <2>1. requested[p] = "away" /\ requested'[p] = "over" /\ Grows({Frame("RESPONSE", p)})
    BY <1>0, <1>9 DEF DoRemote
  <2>2. Sent(Frame("RESPONSE", p))
    BY <2>1, FrameParts DEF Sent
  <2>3. QED  BY <1>3, <2>1, <2>2
<1>10. ASSUME NEW r \in Served, DoNoHandler(r) PROVE RelayFlow
  <2>1. Answer({r}) /\ PopsAndGrows(Back({r})) /\ {r} \in SUBSET Requests
    BY <1>10, Domains DEF DoNoHandler
  <2>2. QED  BY <1>1, <1>4, <2>1
<1>11. ASSUME NEW r \in Served, DoCancel(r) PROVE RelayFlow
  <2>1. \A f \in Cascade(r) : Sent(f)
    BY <1>11, SentAbout DEF Sent
  <2>2. QED  BY <1>1, <1>2, <1>11, <2>1 DEF DoCancel
<1>12. CASE \E q \in Served : DoNoHandler(q) \/ DoCancel(q) \/ \E c \in Slots : DoServe(q, c)
  BY <1>2, <1>10, <1>11, <1>12 DEF DoServe
<1>13. ASSUME NEW r \in Requests, DoUndeliver(r) PROVE RelayFlow
  <2>1. Answer({r}) /\ PopsAndGrows(Back({r})) /\ {r} \in SUBSET Requests
    BY <1>13 DEF DoUndeliver
  <2>2. QED  BY <1>1, <1>4, <2>1
<1>14. CASE \E q \in Requests : DoUnrouted(q) \/ DoUndeliver(q) \/ \E c \in Slots : DoDeliver(q, c)
  BY <1>2, <1>13, <1>14 DEF DoUnrouted, DoDeliver
<1>15. ASSUME NEW c \in Slots, NEW p \in Peers, DoHearRequest(c, p) PROVE RelayFlow
  <2>1. requested[p] = "no"
    BY <1>15, EventIs DEF DoHearRequest, Asks, Said
  <2>2. CASE p \in Local /\ requested' = [requested EXCEPT ![p] = "live"] /\ Grows({Frame("REQ", p)})
    <3>1. Sent(Frame("REQ", p))
      BY <1>0, <2>1, <2>2, FrameParts DEF Sent
    <3>2. QED  BY <1>3, <2>2, <3>1
  <2>3. QED  BY <1>2, <1>15, <2>2 DEF DoHearRequest
<1>16. ASSUME NEW c \in Slots, NEW p \in Peers, DoHearBody(c, p) PROVE RelayFlow
  <2>1. ASSUME NEW f \in Forth({p}) PROVE Sent(f)
    <3>1. f = Frame("BODY", f.req) /\ f.req = p /\ requested[p] = "live"
      BY <2>1, SentAbout
    <3>2. QED  BY <1>16, <3>1 DEF Sent
  <2>2. QED  BY <1>1, <1>16, <2>1 DEF DoHearBody
<1>17. ASSUME NEW c \in Slots, NEW r \in Served, DoHearResponse(c, r) PROVE RelayFlow
  <2>1. Answer({r}) /\ Grows(Back({r})) /\ {r} \in SUBSET Requests
    BY <1>17, Domains DEF DoHearResponse
  <2>2. QED  BY <1>1, <1>4, <2>1
<1>18. ASSUME NEW D \in SUBSET Slots, DoBury(D) PROVE RelayFlow
  <2>1. Answer(Lost(D)) /\ Grows(Forth(Orphaned(D)) \cup Back(Lost(D)))
    BY <1>18 DEF DoBury, Buries
  <2>2. Lost(D) \in SUBSET Requests /\ Orphaned(D) \subseteq Peers
    BY Domains DEF Lost, Entries, Orphaned, Asked
  <2>3. \A f \in Back(Lost(D)) : Sent(f)
    BY <1>4, <2>1, <2>2
  <2>4. ASSUME NEW f \in Forth(Orphaned(D)) PROVE Sent(f)
    <3>1. f = Frame("BODY", f.req) /\ f.req \in Orphaned(D) /\ f.req \in Peers /\ requested[f.req] = "live"
      BY <2>2, SentAbout
    <3>2. outgoing'[f.req] = 0
      BY <1>18, <3>1 DEF DoBury, Buries
    <3>3. QED  BY <3>1, <3>2 DEF Sent
  <2>5. QED  BY <1>1, <2>1, <2>3, <2>4
<1>19. QED  BY <1>5, <1>6, <1>7, <1>8, <1>9, <1>12, <1>14, <1>15, <1>16, <1>17, <1>18 DEF Steps

LEMMA FlowsOrder ==
  ASSUME NEW N, Flows(N)
  PROVE  /\ Rel' \subseteq Rel \cup N
         /\ \A f \in Rel : f \in Rel' \/ f = Head(relayIn)
         /\ \A f, g : Before(relayIn, f, g) /\ (f \in N => g \notin Rel)
                        /\ (f \in N /\ g \in N => f = g \/ (f.kind = "BODY" /\ g.kind = "RESPONSE"))
                        => Before(relayIn, f, g)'
<1>1. CASE Grows(N)
  BY <1>1 DEF Grows, Moved, Fits
<1>2. CASE PopsAndGrows(N)
  BY <1>2 DEF PopsAndGrows, Moved, Fits
<1>3. CASE N = {} /\ Pops
  BY <1>3 DEF Pops, Moved, Fits
<1>4. CASE N = {} /\ UNCHANGED relayIn
  BY <1>4 DEF Rel
<1>5. QED  BY <1>1, <1>2, <1>3, <1>4 DEF Flows

\* What becomes of a slot's process in a step: it takes a frame, is given one or
\* spawned for one, makes a peer request, responds, or keeps or loses what it has.
Falls(c) ==
  /\ proc'[c].pipe \in {proc[c].pipe, <<>>} /\ proc'[c].taken \in {proc[c].taken, {}}
  /\ proc'[c].told \in {proc[c].told, {}} /\ proc'[c].ended \in {proc[c].ended, {}}
  /\ proc'[c].asked \in {proc[c].asked, {}}
  /\ proc'[c].state = "up" =>
       UNCHANGED <<proc[c].state, proc[c].pipe, proc[c].taken, proc[c].told, proc[c].ended, proc[c].asked>>
  /\ proc'[c].state = "hung" =>
       /\ proc[c].state \in {"up", "hung"}
       /\ UNCHANGED <<proc[c].pipe, proc[c].taken, proc[c].told, proc[c].ended, proc[c].asked>>
Given1(c, f) ==
  /\ Gets(c, f) /\ proc[c].state # "none" /\ CanSend(c)
  /\ \/ \E r \in Requests : DoDeliver(r, c) /\ f = Head(relayIn)
     \/ \E r \in Served : DoCancel(r) /\ f = Frame("CANCEL", r) /\ f \in Rel /\ incoming[r] = c
Starts(c, r) ==
  /\ Pipe(c)' = {Frame("REQ", r)} /\ Moved(<<>>, proc'[c].pipe, {}, {}, {Frame("REQ", r)})
  /\ proc'[c].taken = {} /\ proc'[c].told = {} /\ proc'[c].ended = {} /\ proc'[c].asked = {}
ProcMoves(c) ==
  \/ Falls(c) \/ DoTake(c) \/ (\E f : Given1(c, f))
  \/ \E r \in Served : DoServe(r, c) /\ (Gets(c, Frame("REQ", r)) \/ Starts(c, r))
  \/ \E p \in Peers : DoMake(c, p)
  \/ \E r \in Served : DoRespond(c, r)

LEMMA ProcMoving ==
  ASSUME IInv, Steps, NEW c \in Slots
  PROVE  ProcMoves(c)
<1> USE DEF says, maps
<1>0. proc[c] \in Process
  BY DEF IInv, TypeInv, TypeOK
<1>1. ASSUME proc'[c] = proc[c] PROVE ProcMoves(c)
  <2>1. Falls(c)
    BY <1>1 DEF Falls
  <2>2. QED  BY <2>1 DEF ProcMoves
<1>2. CASE \/ \E q \in Calls : DoRequest(q) \/ DoBody(q) \/ \E kind \in Kinds : DoCancelCall(q, kind)
           \/ \E p \in Peers : DoRemote(p)
  BY <1>1, <1>2 DEF DoRequest, DoBody, DoCancelCall, DoRemote
<1>3. ASSUME NEW d \in Slots, DoTake(d) PROVE ProcMoves(c)
  <2>1. CASE d = c
    BY <1>3, <2>1 DEF ProcMoves
  <2>2. CASE d # c
    <3>1. proc'[c] = proc[c]
      BY <1>3, <2>2, TakeDoes DEF DoTake, IInv
    <3>2. QED  BY <1>1, <3>1
  <2>3. QED  BY <2>1, <2>2
<1>4. ASSUME NEW d \in Slots, DoEof(d) \/ DoWriterFails(d) PROVE ProcMoves(c)
  <2>1. CASE d = c
    <3>1. Falls(c)
      BY <1>4, <2>1 DEF Falls, DoEof, DoWriterFails
    <3>2. QED  BY <3>1 DEF ProcMoves
  <2>2. CASE d # c
    <3>1. proc'[c] = proc[c]
      BY <1>4, <2>2 DEF DoEof, DoWriterFails
    <3>2. QED  BY <1>1, <3>1
  <2>3. QED  BY <2>1, <2>2
<1>5. ASSUME NEW d \in Slots, NEW p \in Peers, DoMake(d, p) \/ DoArgument(d, p) PROVE ProcMoves(c)
  <2>1. CASE DoArgument(d, p)
    BY <1>1, <2>1 DEF DoArgument
  <2>2. CASE DoMake(d, p)
    <3>1. CASE d = c
      BY <2>2, <3>1 DEF ProcMoves
    <3>2. CASE d # c
      BY <1>1, <2>2, <3>2 DEF DoMake
    <3>3. QED  BY <3>1, <3>2
  <2>3. QED  BY <1>5, <2>1, <2>2
<1>6. ASSUME NEW d \in Slots, NEW r \in Served, DoRespond(d, r) PROVE ProcMoves(c)
  <2>1. CASE d = c
    BY <1>6, <2>1 DEF ProcMoves
  <2>2. CASE d # c
    BY <1>1, <1>6, <2>2 DEF DoRespond
  <2>3. QED  BY <2>1, <2>2
<1>7. CASE DoStop
  <2>1. Falls(c)
    BY <1>7 DEF DoStop, Falls
  <2>2. QED  BY <2>1 DEF ProcMoves
<1>8. CASE DoKill \/ DoAil
  <2>0. Ails
    BY <1>8 DEF DoKill, DoAil
  <2>1. proc'[c].pipe = proc[c].pipe
    BY <2>0 DEF Ails
  <2>2. CASE UNCHANGED <<proc[c].state, proc[c].taken, proc[c].told, proc[c].ended, proc[c].asked>>
    <3>1. Falls(c)
      BY <2>1, <2>2 DEF Falls
    <3>2. QED  BY <3>1 DEF ProcMoves
  <2>3. CASE proc'[c].state \in {"hung", "dead"}
    <3>1. Falls(c)
      BY <2>0, <2>1, <2>3 DEF Ails, Falls
    <3>2. QED  BY <3>1 DEF ProcMoves
  <2>4. QED  BY <2>0, <2>2, <2>3 DEF Ails
<1>9. CASE DoOld \/ (\E d \in Slots, p \in Peers : DoHearRequest(d, p) \/ DoHearBody(d, p))
           \/ \E d \in Slots, r \in Served : DoHearResponse(d, r)
  BY <1>1, <1>9 DEF DoOld, DoHearRequest, DoHearBody, DoHearResponse
<1>10. ASSUME NEW d \in Slots, NEW f, Gets(d, f), d # c PROVE ProcMoves(c)
  BY <1>1, <1>10 DEF Gets
<1>11. ASSUME NEW d \in Slots, CanSend(d) PROVE proc[d].state # "none"
  BY <1>11 DEF CanSend, IInv, Lives, RunningHasProcess
<1>12. ASSUME NEW r \in Served, DoCancel(r) PROVE ProcMoves(c)
  <2>1. ASSUME NEW d \in Slots, d = incoming[r], CanSend(d), Gets(d, Frame("CANCEL", r)) PROVE ProcMoves(c)
    <3>1. CASE d = c
      <4>1. Given1(c, Frame("CANCEL", r))
        BY <1>11, <1>12, <2>1, <3>1 DEF Given1, DoCancel
      <4>2. QED  BY <4>1 DEF ProcMoves
    <3>2. CASE d # c
      BY <1>10, <2>1, <3>2
    <3>3. QED  BY <3>1, <3>2
  <2>2. QED  BY <1>1, <1>12, <2>1 DEF DoCancel
<1>13. ASSUME NEW r \in Served, NEW d \in Slots, DoServe(r, d) PROVE ProcMoves(c)
  <2>1. CASE d # c
    BY <1>1, <1>13, <2>1 DEF DoServe
  <2>2. CASE d = c
    <3>1. Gets(c, Frame("REQ", r)) \/ Starts(c, r)
      BY <1>13, <2>2 DEF DoServe, Starts
    <3>2. QED  BY <1>13, <2>2, <3>1 DEF ProcMoves
  <2>3. QED  BY <2>1, <2>2
<1>14. CASE \E q \in Served : DoNoHandler(q) \/ DoCancel(q) \/ \E d \in Slots : DoServe(q, d)
  BY <1>1, <1>12, <1>13, <1>14 DEF DoNoHandler
<1>15. ASSUME NEW r \in Requests, NEW d \in Slots, DoDeliver(r, d) PROVE ProcMoves(c)
  <2>1. CanSend(d) /\ Gets(d, Head(relayIn))
    BY <1>15 DEF DoDeliver
  <2>2. CASE d = c
    <3>1. Given1(c, Head(relayIn))
      BY <1>11, <1>15, <2>1, <2>2 DEF Given1
    <3>2. QED  BY <3>1 DEF ProcMoves
  <2>3. QED  BY <1>10, <2>1, <2>2
<1>16. CASE \E q \in Requests : DoUnrouted(q) \/ DoUndeliver(q) \/ \E d \in Slots : DoDeliver(q, d)
  BY <1>1, <1>15, <1>16 DEF DoUnrouted, DoUndeliver
<1>17. ASSUME NEW D \in SUBSET Slots, DoBury(D) PROVE ProcMoves(c)
  <2>1. CASE c \in D
    <3>1. Falls(c)
      BY <1>17, <2>1 DEF DoBury, Buries, Falls
    <3>2. QED  BY <3>1 DEF ProcMoves
  <2>2. CASE c \notin D
    BY <1>1, <1>17, <2>2 DEF DoBury, Buries
  <2>3. QED  BY <2>1, <2>2
<1>18. QED  BY <1>2, <1>3, <1>4, <1>5, <1>6, <1>7, <1>8, <1>9, <1>14, <1>16, <1>17 DEF Steps

\* The identity of a slot, once registered, stays.
LEMMA InstallStays ==
  ASSUME IInv, Steps, NEW c \in Slots, cart[c].install # NoInstall
  PROVE  cart'[c].install = cart[c].install
<1> USE DEF says, maps
<1>1. CASE \/ \E q \in Calls : DoRequest(q) \/ DoBody(q) \/ \E kind \in Kinds : DoCancelCall(q, kind)
           \/ \E p \in Peers : DoRemote(p)
           \/ \E d \in Slots : DoTake(d) \/ DoEof(d) \/ DoWriterFails(d)
           \/ \E d \in Slots, p \in Peers : DoMake(d, p) \/ DoArgument(d, p)
           \/ \E d \in Slots, q \in Served : DoRespond(d, q)
           \/ DoStop \/ DoKill \/ DoAil \/ DoOld
  BY <1>1 DEF DoRequest, DoBody, DoCancelCall, DoRemote, DoTake, DoEof, DoWriterFails, DoMake,
       DoArgument, DoRespond, DoStop, DoKill, DoAil, DoOld, Ails
<1>2. CASE \E q \in Served : DoNoHandler(q) \/ DoCancel(q) \/ \E d \in Slots : DoServe(q, d)
  BY <1>2 DEF DoNoHandler, DoCancel, DoServe
<1>3. CASE \E q \in Requests : DoUnrouted(q) \/ DoUndeliver(q) \/ \E d \in Slots : DoDeliver(q, d)
  BY <1>3 DEF DoUnrouted, DoUndeliver, DoDeliver
<1>4. CASE \/ \E d \in Slots, p \in Peers : DoHearRequest(d, p) \/ DoHearBody(d, p)
           \/ \E d \in Slots, q \in Served : DoHearResponse(d, q)
           \/ \E D \in SUBSET Slots : DoBury(D)
  BY <1>4 DEF DoHearRequest, DoHearBody, DoHearResponse, DoBury, Buries
<1>5. QED  BY <1>1, <1>2, <1>3, <1>4 DEF Steps

\* What is over stays so, and what was made stays made.
LEMMA OverStays ==
  ASSUME IInv, Asks, Steps, NEW r \in Requests, requested[r] = "over"
  PROVE  requested'[r] = "over"
<1> USE DEF says
<1>0. Calls \subseteq Requests /\ Peers \subseteq Requests
      /\ requested \in [Requests -> {"no", "live", "away", "over"}]
  BY Domains
<1>1. ASSUME NEW R, Answer(R) PROVE requested'[r] = "over"
  BY <1>1, AnswerDoes
<1>2. CASE UNCHANGED requested
  BY <1>2
<1>3. ASSUME NEW q \in Requests, NEW x, requested' = [requested EXCEPT ![q] = x], requested[q] # "over"
      PROVE  requested'[r] = "over"
  BY <1>0, <1>3
<1>4. CASE \/ \E c \in Slots : DoTake(c) \/ DoEof(c) \/ DoWriterFails(c)
           \/ \E c \in Slots, p \in Peers : DoMake(c, p) \/ DoArgument(c, p)
           \/ \E c \in Slots, q \in Served : DoRespond(c, q)
           \/ DoStop \/ DoKill \/ DoAil \/ DoOld
  BY <1>2, <1>4 DEF DoTake, DoEof, DoWriterFails, DoMake, DoArgument, DoRespond, DoStop, DoKill,
       DoAil, DoOld, Ails
<1>5. CASE \E q \in Calls : DoRequest(q) \/ DoBody(q) \/ \E kind \in Kinds : DoCancelCall(q, kind)
  BY <1>0, <1>2, <1>3, <1>5 DEF DoRequest, DoBody, DoCancelCall
<1>6. CASE \E p \in Peers : DoRemote(p)
  BY <1>0, <1>3, <1>6 DEF DoRemote
<1>7. ASSUME NEW c \in Slots, NEW p \in Peers, DoHearRequest(c, p) \/ DoHearBody(c, p)
      PROVE  requested'[r] = "over"
  <2>1. CASE DoHearRequest(c, p)
    <3>1. requested[p] = "no"
      BY <2>1, EventIs DEF DoHearRequest, Asks, Said
    <3>2. QED  BY <1>0, <1>3, <2>1, <3>1 DEF DoHearRequest
  <2>2. QED  BY <1>2, <1>7, <2>1 DEF DoHearBody
<1>8. CASE \E q \in Served : DoNoHandler(q) \/ DoCancel(q) \/ \E c \in Slots : DoServe(q, c)
  BY <1>1, <1>2, <1>8 DEF DoNoHandler, DoCancel, DoServe
<1>9. CASE \E q \in Requests : DoUnrouted(q) \/ DoUndeliver(q) \/ \E c \in Slots : DoDeliver(q, c)
  BY <1>1, <1>2, <1>9 DEF DoUndeliver, DoUnrouted, DoDeliver
<1>10. CASE \/ \E c \in Slots, q \in Served : DoHearResponse(c, q)
            \/ \E D \in SUBSET Slots : DoBury(D)
  BY <1>1, <1>10 DEF DoHearResponse, DoBury, Buries
<1>11. QED  BY <1>4, <1>5, <1>6, <1>7, <1>8, <1>9, <1>10 DEF Steps

LEMMA SentIs ==
  ASSUME NEW r
  PROVE  /\ Sent(Frame("REQ", r)) => requested[r] = "no" /\ requested'[r] = "live"
         /\ Sent(Frame("KILL", r)) => r \in Cancels /\ "KILL" \in Kinds
         /\ Sent(Frame("RESPONSE", r)) => r \in Peers /\ requested[r] \in {"live", "away"} /\ requested'[r] = "over"
         /\ Sent(Frame("BODY", r)) /\ r \notin Calls =>
              requested[r] = "live" /\ (outgoing'[r] = 0 \/ \E c \in Slots : DoHearBody(c, r))
         /\ Sent(Frame("CANCEL", r)) =>
              \/ r \in Cancels /\ r \in cancelled'
              \/ r \in Peers /\ \E q \in Served : DoCancel(q) /\ <<q, r>> \in links
<1>1. \A kind, q : Frame(kind, q).kind = kind /\ Frame(kind, q).req = q
  BY DEF Frame
<1>2. \A kind, k, q, x : Frame(kind, q) = Frame(k, x) => kind = k
  BY FrameParts
<1>3. Kinds \subseteq {"CANCEL", "KILL"}
  BY CancelsType
<1>4. Sent(Frame("REQ", r)) => requested[r] = "no" /\ requested'[r] = "live"
  BY <1>1, <1>2, <1>3 DEF Sent
<1>5. Sent(Frame("KILL", r)) => r \in Cancels /\ "KILL" \in Kinds
  BY <1>1, <1>2, <1>3 DEF Sent
<1>6. Sent(Frame("RESPONSE", r)) => r \in Peers /\ requested[r] \in {"live", "away"} /\ requested'[r] = "over"
  BY <1>1, <1>2, <1>3 DEF Sent
<1>7. Sent(Frame("BODY", r)) /\ r \notin Calls =>
        requested[r] = "live" /\ (outgoing'[r] = 0 \/ \E c \in Slots : DoHearBody(c, r))
  BY <1>1, <1>2, <1>3 DEF Sent
<1>8. Sent(Frame("CANCEL", r)) =>
        \/ r \in Cancels /\ r \in cancelled'
        \/ r \in Peers /\ \E q \in Served : DoCancel(q) /\ <<q, r>> \in links
  BY <1>1, <1>2, <1>3 DEF Sent
<1>9. QED  BY <1>4, <1>5, <1>6, <1>7, <1>8

\* A frame in a process' input was there, or has been given.
Given2(c, f) ==
  \/ f \in Rel /\ f = Head(relayIn) /\ \E r \in Requests : DoDeliver(r, c)
  \/ f \in Rel /\ \E r \in Served : DoCancel(r) /\ f = Frame("CANCEL", r) /\ incoming[r] = c
  \/ f \in Rel /\ \E r \in Served : DoServe(r, c) /\ f = Frame("REQ", r)

LEMMA PipeGains ==
  ASSUME IInv, Steps, NEW c \in Slots, NEW f, f \in Pipe(c)'
  PROVE  f \in Pipe(c) \/ Given2(c, f)
<1>0. ProcMoves(c)
  BY ProcMoving
<1>1. CASE Falls(c)
  <2>1. Pipe(c)' = Pipe(c) \/ Pipe(c)' = {}
    BY <1>1 DEF Falls, Pipe, In
  <2>2. QED  BY <2>1
<1>2. CASE DoTake(c)
  BY <1>2, TakeDoes DEF DoTake, IInv
<1>3. ASSUME NEW g, Given1(c, g) PROVE f \in Pipe(c) \/ Given2(c, f)
  <2>1. f \in Pipe(c) \/ f = g
    BY <1>3 DEF Given1, Gets
  <2>2. ASSUME NEW r \in Requests, DoDeliver(r, c), g = Head(relayIn) PROVE Given2(c, g)
    BY <2>2 DEF DoDeliver, Given2
  <2>3. ASSUME NEW r \in Served, DoCancel(r), g = Frame("CANCEL", r), g \in Rel, incoming[r] = c PROVE Given2(c, g)
    BY <2>3 DEF Given2
  <2>4. Given2(c, g)
    BY <1>3, <2>2, <2>3 DEF Given1
  <2>5. QED  BY <2>1, <2>4
<1>4. ASSUME NEW r \in Served, DoServe(r, c), Gets(c, Frame("REQ", r)) \/ Starts(c, r)
      PROVE  f \in Pipe(c) \/ Given2(c, f)
  <2>1. f \in Pipe(c) \/ f = Frame("REQ", r)
    BY <1>4 DEF Starts, Gets
  <2>2. Frame("REQ", r) \in Rel
    BY <1>4 DEF DoServe, Pops
  <2>3. QED  BY <1>4, <2>1, <2>2 DEF Given2
<1>5. ASSUME UNCHANGED proc[c].pipe PROVE f \in Pipe(c)
  BY <1>5 DEF Pipe
<1>6. QED  BY <1>0, <1>1, <1>2, <1>3, <1>4, <1>5 DEF ProcMoves, DoMake, DoRespond

\* Of what is given, who it is given to.
LEMMA GivenIs ==
  ASSUME NEW c, NEW kind, NEW q, Given2(c, Frame(kind, q))
  PROVE  /\ Frame(kind, q) \in Rel
         /\ kind \in {"BODY", "RESPONSE"} => Head(relayIn) = Frame(kind, q) /\ q \in Requests /\ DoDeliver(q, c)
         /\ kind = "REQ" => q \in Served /\ DoServe(q, c)
         /\ kind = "CANCEL" => q \in Served /\ DoCancel(q) /\ incoming[q] = c
<1>1. Frame(kind, q) \in Rel
  BY DEF Given2
<1>2. ASSUME NEW r \in Requests, DoDeliver(r, c), Frame(kind, q) = Head(relayIn)
      PROVE  kind \in {"BODY", "RESPONSE"} /\ r = q
  BY <1>2, FrameParts DEF DoDeliver
<1>3. ASSUME NEW r, NEW k, Frame(kind, q) = Frame(k, r) PROVE kind = k /\ q = r
  BY <1>3, FrameParts
<1>4. CASE \E r \in Requests : DoDeliver(r, c) /\ Frame(kind, q) = Head(relayIn)
  BY <1>1, <1>2, <1>4
<1>5. CASE \E r \in Served : DoCancel(r) /\ Frame(kind, q) = Frame("CANCEL", r) /\ incoming[r] = c
  BY <1>1, <1>3, <1>5
<1>6. CASE \E r \in Served : DoServe(r, c) /\ Frame(kind, q) = Frame("REQ", r)
  BY <1>1, <1>3, <1>6
<1>7. QED  BY <1>4, <1>5, <1>6 DEF Given2

LEMMA PipeResponse ==
  ASSUME IInv, Steps, NEW c \in Slots, NEW r, Frame("RESPONSE", r) \in Pipe(c)'
  PROVE  Frame("RESPONSE", r) \in Pipe(c) \/ Frame("RESPONSE", r) \in Rel
  BY PipeGains, GivenIs

-----------------------------------------------------------------------------
(* What the frames of the relay, of the processes and the events stand for    *)
KillsReal == \A r : Frame("KILL", r) \in Rel => r \in Cancels /\ "KILL" \in Kinds
ResponsesOver ==
  \A p \in Peers : Frame("RESPONSE", p) \in Rel \/ (\E c \in Slots : Frame("RESPONSE", p) \in Pipe(c))
                     => requested[p] = "over"
\* The body of a peer request comes back to this host only if it was given the
\* request, and before its response.
BodiesLocal == \A p \in Peers : Frame("BODY", p) \in Rel => p \in Local
BodyLast == \A p \in Peers : Before(relayIn, Frame("BODY", p), Frame("RESPONSE", p))
BodySaid == \A p \in Peers : Said(Frame("BODY", p)) => p \in bodySent /\ OneSaid(Frame("BODY", p))
DeathReal == \A c \in Slots : Tells(c, Death) => proc[c].state = "read"

LEMMA StillReal ==
  ASSUME IInv, Asks, KillsReal, ResponsesOver, BodiesLocal, BodyLast, Steps
  PROVE  KillsReal' /\ ResponsesOver' /\ BodiesLocal' /\ BodyLast'
<1>0. Peers \subseteq Requests /\ Calls \cap Peers = {} /\ \A p \in Peers : p \notin Calls
  BY Domains
<1>1. CASE ~up' /\ relayIn' = <<>>
  <2>1. Rel' = {} /\ \A f, g : Before(relayIn, f, g)'
    BY <1>1 DEF Rel, In, Before
  <2>2. ASSUME NEW p \in Peers, NEW c \in Slots, Frame("RESPONSE", p) \in Pipe(c)' PROVE requested'[p] = "over"
    <3>1. Frame("RESPONSE", p) \in Pipe(c) \/ Frame("RESPONSE", p) \in Rel
      BY <2>2, PipeResponse
    <3>2. QED  BY <1>0, <3>1, OverStays DEF ResponsesOver
  <2>3. QED  BY <2>1, <2>2 DEF KillsReal, ResponsesOver, BodiesLocal, BodyLast
<1>2. ASSUME NEW N, Flows(N), \A f \in N : Sent(f)
      PROVE  KillsReal' /\ ResponsesOver' /\ BodiesLocal' /\ BodyLast'
  <2>1. Rel' \subseteq Rel \cup N
    BY <1>2, FlowsOrder
  <2>2. ASSUME NEW r, Frame("KILL", r) \in Rel' PROVE r \in Cancels /\ "KILL" \in Kinds
    BY <1>2, <2>1, <2>2, SentIs DEF KillsReal
  <2>3. ASSUME NEW p \in Peers, Frame("RESPONSE", p) \in Rel' PROVE requested'[p] = "over"
    <3>1. Frame("RESPONSE", p) \in Rel => requested'[p] = "over"
      BY <1>0, OverStays DEF ResponsesOver
    <3>2. QED  BY <1>2, <2>1, <2>3, <3>1, SentIs
  <2>4. ASSUME NEW p \in Peers, NEW c \in Slots, Frame("RESPONSE", p) \in Pipe(c)' PROVE requested'[p] = "over"
    <3>1. Frame("RESPONSE", p) \in Pipe(c) \/ Frame("RESPONSE", p) \in Rel
      BY <2>4, PipeResponse
    <3>2. QED  BY <1>0, <3>1, OverStays DEF ResponsesOver
  <2>5. ASSUME NEW p \in Peers, Frame("BODY", p) \in N PROVE requested[p] = "live" /\ p \in Local
    <3>1. requested[p] = "live"
      BY <1>0, <1>2, <2>5, SentIs
    <3>2. p \in Served
      BY <1>0, <3>1 DEF IInv, TypeInv, LiveServed
    <3>3. QED  BY <1>0, <3>1, <3>2 DEF Served
  <2>6. ASSUME NEW p \in Peers PROVE Before(relayIn, Frame("BODY", p), Frame("RESPONSE", p))'
    <3>1. PICK f, g : f = Frame("BODY", p) /\ g = Frame("RESPONSE", p)
      OBVIOUS
    <3>2. Before(relayIn, f, g) /\ f.kind = "BODY" /\ g.kind = "RESPONSE"
      BY <3>1, FrameParts DEF BodyLast
    <3>3. f \in N => g \notin Rel
      BY <2>5, <3>1 DEF ResponsesOver
    <3>4. Before(relayIn, f, g)'
      BY <1>2, <3>2, <3>3, FlowsOrder
    <3>5. QED  BY <3>1, <3>4
  <2>7. QED  BY <2>1, <2>2, <2>3, <2>4, <2>5, <2>6 DEF KillsReal, ResponsesOver, BodiesLocal, BodyLast
<1>3. QED  BY <1>1, <1>2, RelayFlowing DEF RelayFlow

\* The argument of a peer request is ended once.
LEMMA StillBodySaid ==
  ASSUME IInv, BodySaid, Steps
  PROVE  BodySaid'
<1> USE DEF says, maps
<1>1. SUFFICES ASSUME NEW p \in Peers PROVE Said(Frame("BODY", p))' => p \in bodySent' /\ OneSaid(Frame("BODY", p))'
  BY DEF BodySaid
<1>2. PICK g : g = Frame("BODY", p)
  OBVIOUS
<1>3. OneSaid(g) /\ (Said(g) => p \in bodySent)
  BY <1>2 DEF BodySaid, OneSaid, Said
<1>4. SUFFICES Said(g)' => p \in bodySent' /\ OneSaid(g)'
  BY <1>2
<1>5. CASE UNCHANGED events /\ bodySent \subseteq bodySent'
  <2>1. OneSaid(g)' /\ (Said(g)' => Said(g))
    BY <1>3, <1>5 DEF OneSaid, Said, Ev
  <2>2. QED  BY <1>3, <1>5, <2>1
<1>6. CASE Drops /\ bodySent \subseteq bodySent'
  BY <1>3, <1>6, SaidLess
<1>7. ASSUME NEW c, NEW f, Tell(c, f), f # g, bodySent \subseteq bodySent' PROVE Said(g)' => p \in bodySent' /\ OneSaid(g)'
  BY <1>3, <1>7, SaidMore
<1>8. ASSUME NEW c \in Slots, NEW q \in Peers, DoArgument(c, q) PROVE Said(g)' => p \in bodySent' /\ OneSaid(g)'
  <2>1. Tell(c, Frame("BODY", q)) /\ bodySent' = bodySent \cup {q} /\ q \notin bodySent
    BY <1>8 DEF DoArgument
  <2>2. CASE q = p
    <3>1. OneSaid(g)'
      BY <1>2, <1>3, <2>1, <2>2, SaidMore
    <3>2. QED  BY <2>1, <2>2, <3>1
  <2>3. CASE q # p
    <3>1. Frame("BODY", q) # g
      BY <1>2, <2>3, FrameParts
    <3>2. QED  BY <1>7, <2>1, <3>1
  <2>4. QED  BY <2>2, <2>3
<1>9. Death # g /\ \A q : Frame("REQ", q) # g /\ Frame("RESPONSE", q) # g
  BY <1>2 DEF Death, Frame
<1>10. CASE \/ \E q \in Calls : DoRequest(q) \/ DoBody(q) \/ \E kind \in Kinds : DoCancelCall(q, kind)
            \/ \E q \in Peers : DoRemote(q)
            \/ \E c \in Slots : DoTake(c) \/ DoEof(c) \/ DoWriterFails(c)
  <2>1. ASSUME NEW c \in Slots, DoEof(c) PROVE Said(g)' => p \in bodySent' /\ OneSaid(g)'
    BY <1>7, <1>9, <2>1 DEF DoEof
  <2>2. QED  BY <1>5, <1>10, <2>1 DEF DoRequest, DoBody, DoCancelCall, DoRemote, DoTake, DoWriterFails
<1>11. CASE \/ \E c \in Slots, q \in Peers : DoMake(c, q) \/ DoArgument(c, q)
            \/ \E c \in Slots, q \in Served : DoRespond(c, q)
  BY <1>7, <1>8, <1>9, <1>11 DEF DoMake, DoRespond
<1>12. CASE DoStop \/ DoKill \/ DoAil \/ DoOld
  <2>1. CASE DoStop
    BY <2>1 DEF DoStop, Said
  <2>2. QED  BY <1>5, <1>6, <1>12, <2>1 DEF DoKill, DoAil, DoOld, Ails
<1>13. CASE \/ \E q \in Served : DoNoHandler(q) \/ DoCancel(q) \/ \E c \in Slots : DoServe(q, c)
            \/ \E q \in Requests : DoUnrouted(q) \/ DoUndeliver(q) \/ \E c \in Slots : DoDeliver(q, c)
  BY <1>5, <1>13 DEF DoNoHandler, DoCancel, DoServe, DoUnrouted, DoUndeliver, DoDeliver
<1>14. CASE \/ \E c \in Slots, q \in Peers : DoHearRequest(c, q) \/ DoHearBody(c, q)
            \/ \E c \in Slots, q \in Served : DoHearResponse(c, q)
            \/ \E D \in SUBSET Slots : DoBury(D)
  BY <1>5, <1>6, <1>14 DEF DoHearRequest, DoHearBody, DoHearResponse, DoBury, Buries
<1>15. QED  BY <1>10, <1>11, <1>12, <1>13, <1>14 DEF Steps

\* A death is told of the process that died.
LEMMA StillDeathReal ==
  ASSUME IInv, EventSlots, DeathReal, Steps
  PROVE  DeathReal'
<1> USE DEF says, maps
<1>1. SUFFICES ASSUME NEW c \in Slots, Tells(c, Death)' PROVE proc'[c].state = "read"
  BY DEF DeathReal
<1>2. ASSUME Tells(c, Death), UNCHANGED proc[c].state PROVE proc'[c].state = "read"
  BY <1>2 DEF DeathReal
<1>3. CASE UNCHANGED <<events, cart, proc>>
  BY <1>1, <1>2, <1>3, TellsSame
<1>4. CASE \/ \E q \in Calls : DoRequest(q) \/ DoBody(q) \/ \E kind \in Kinds : DoCancelCall(q, kind)
           \/ \E p \in Peers : DoRemote(p)
  BY <1>3, <1>4 DEF DoRequest, DoBody, DoCancelCall, DoRemote
<1>5. ASSUME NEW d \in Slots, NEW g, Gets(d, g), UNCHANGED <<events, cart>> PROVE proc'[c].state = "read"
  <2>1. UNCHANGED proc[c].state
    BY <1>5 DEF Gets
  <2>2. Tells(c, Death)
    BY <1>1, <1>5, TellsSame
  <2>3. QED  BY <1>2, <2>1, <2>2
<1>6. ASSUME NEW d \in Slots, NEW g, g # Death, Tell(d, g), UNCHANGED <<cart, proc[c].state>>
      PROVE  proc'[c].state = "read"
  BY <1>1, <1>2, <1>6, TellsOn
<1>7. ASSUME NEW d \in Slots, DoTake(d) PROVE proc'[c].state = "read"
  <2>1. Tells(c, Death)
    BY <1>1, <1>7, TellsSame DEF DoTake
  <2>2. c # d
    BY <1>7, <2>1 DEF DeathReal, DoTake
  <2>3. proc'[c] = proc[c]
    BY <1>7, <2>2, TakeDoes DEF DoTake, IInv
  <2>4. QED  BY <1>2, <2>1, <2>3
<1>8. ASSUME NEW d \in Slots, DoEof(d) PROVE proc'[c].state = "read"
  <2>1. CASE d = c
    BY <1>8, <2>1 DEF DoEof
  <2>2. CASE d # c
    BY <1>1, <1>2, <1>8, <2>2, TellsOn DEF DoEof
  <2>3. QED  BY <2>1, <2>2
<1>9. ASSUME NEW d \in Slots, DoWriterFails(d) PROVE proc'[c].state = "read"
  <2>1. UNCHANGED <<events, cart[c].generation, proc[c].state>>
    BY <1>9 DEF DoWriterFails
  <2>2. QED  BY <1>1, <1>2, <2>1, TellsSame
<1>10. \A q : Frame("REQ", q) # Death /\ Frame("BODY", q) # Death /\ Frame("RESPONSE", q) # Death
  BY DEF Death, Frame
<1>11. CASE \/ \E d \in Slots, p \in Peers : DoMake(d, p) \/ DoArgument(d, p)
            \/ \E d \in Slots, q \in Served : DoRespond(d, q)
  <2>1. ASSUME NEW d \in Slots, NEW p \in Peers, DoMake(d, p) PROVE proc'[c].state = "read"
    <3>1. Tell(d, Frame("REQ", p)) /\ UNCHANGED <<cart, proc[c].state>>
      BY <2>1 DEF DoMake
    <3>2. QED  BY <1>6, <1>10, <3>1
  <2>2. ASSUME NEW d \in Slots, NEW p \in Peers, DoArgument(d, p) PROVE proc'[c].state = "read"
    BY <1>6, <1>10, <2>2 DEF DoArgument
  <2>3. ASSUME NEW d \in Slots, NEW q \in Served, DoRespond(d, q) PROVE proc'[c].state = "read"
    <3>1. Tell(d, Frame("RESPONSE", q)) /\ UNCHANGED <<cart, proc[c].state>>
      BY <2>3 DEF DoRespond
    <3>2. QED  BY <1>6, <1>10, <3>1
  <2>4. QED  BY <1>11, <2>1, <2>2, <2>3
<1>12. CASE DoStop
  BY <1>1, <1>12 DEF DoStop, Tells
<1>13. CASE DoKill \/ DoAil
  <2>1. Ails
    BY <1>13 DEF DoKill, DoAil
  <2>2. Tells(c, Death)
    BY <1>1, <2>1, AilsTells
  <2>3. QED  BY <2>1, <2>2 DEF DeathReal, Ails
<1>14. CASE DoOld \/ (\E d \in Slots, p \in Peers : DoHearRequest(d, p) \/ DoHearBody(d, p))
            \/ \E d \in Slots, q \in Served : DoHearResponse(d, q)
  <2>1. Drops /\ UNCHANGED <<cart, proc>>
    BY <1>14 DEF DoOld, DoHearRequest, DoHearBody, DoHearResponse
  <2>2. QED  BY <1>1, <1>2, <2>1, TellsLess
<1>15. ASSUME NEW q \in Served, NEW d \in Slots, DoServe(q, d) PROVE proc'[c].state = "read"
  <2>1. Tells(c, Death) /\ ~(d = c /\ proc[c].state = "none")
    BY <1>1, <1>15, ServeTells
  <2>2. UNCHANGED proc[c].state
    BY <1>15, <2>1 DEF DoServe, Gets
  <2>3. QED  BY <1>2, <2>1, <2>2
<1>16. CASE \E q \in Served : DoNoHandler(q) \/ DoCancel(q) \/ \E d \in Slots : DoServe(q, d)
  <2>1. ASSUME NEW q \in Served, DoCancel(q) PROVE proc'[c].state = "read"
    BY <1>3, <1>5, <2>1 DEF DoCancel
  <2>2. QED  BY <1>3, <1>15, <1>16, <2>1 DEF DoNoHandler
<1>17. CASE \E q \in Requests : DoUnrouted(q) \/ DoUndeliver(q) \/ \E d \in Slots : DoDeliver(q, d)
  <2>1. ASSUME NEW q \in Requests, NEW d \in Slots, DoDeliver(q, d) PROVE proc'[c].state = "read"
    BY <1>5, <2>1 DEF DoDeliver
  <2>2. QED  BY <1>3, <1>17, <2>1 DEF DoUnrouted, DoUndeliver
<1>18. ASSUME NEW D \in SUBSET Slots, DoBury(D) PROVE proc'[c].state = "read"
  <2>1. c \notin D /\ Tells(c, Death)
    BY <1>1, <1>18, BuryTells
  <2>2. proc'[c] = proc[c]
    BY <1>18, <2>1 DEF DoBury, Buries
  <2>3. QED  BY <1>2, <2>1, <2>2
<1>19. QED  BY <1>4, <1>7, <1>8, <1>9, <1>11, <1>12, <1>13, <1>14, <1>16, <1>17, <1>18 DEF Steps

-----------------------------------------------------------------------------
(* Who serves a request, and who asks for one, by their installs             *)
Homed(c) ==
  /\ \A r \in Served : incoming[r] = c \/ r \in proc[c].taken \/ Given(c, r) => cart[c].install = Wants[r]
  /\ \A p \in proc[c].asked : cart[c].install = Wants[Parent[p]]
Homes == \A c \in Slots : Homed(c)

LEMMA TakenFrom ==
  ASSUME IInv, Steps, NEW c \in Slots, NEW r \in proc'[c].taken
  PROVE  r \in proc[c].taken \/ Given(c, r)
<1>0. ProcMoves(c)
  BY ProcMoving
<1>1. CASE DoTake(c)
  <2>1. PICK h : h = Head(proc[c].pipe)
    OBVIOUS
  <2>2. /\ h \in Frames /\ h \in Pipe(c)
        /\ proc'[c].taken = IF h.kind = "REQ" THEN proc[c].taken \cup {h.req} ELSE proc[c].taken
    BY <1>1, <2>1, TakeDoes DEF DoTake, IInv
  <2>3. h = Frame(h.kind, h.req)
    BY <2>2, FrameIs
  <2>4. QED  BY <2>2, <2>3 DEF Given
<1>2. CASE ~DoTake(c)
  <2>1. proc'[c].taken \subseteq proc[c].taken
    BY <1>0, <1>2 DEF ProcMoves, Falls, Given1, Gets, Starts, DoMake, DoRespond
  <2>2. QED  BY <2>1
<1>3. QED  BY <1>1, <1>2

LEMMA AskedFrom ==
  ASSUME IInv, Steps, NEW c \in Slots, NEW p \in proc'[c].asked
  PROVE  p \in proc[c].asked \/ DoMake(c, p)
<1>0. ProcMoves(c)
  BY ProcMoving
<1>1. CASE DoTake(c)
  BY <1>1, TakeDoes DEF DoTake, IInv
<1>2. ASSUME NEW q \in Peers, DoMake(c, q) PROVE p \in proc[c].asked \/ DoMake(c, p)
  BY <1>2 DEF DoMake
<1>3. CASE ~DoTake(c) /\ \A q \in Peers : ~DoMake(c, q)
  <2>1. proc'[c].asked \subseteq proc[c].asked
    BY <1>0, <1>3 DEF ProcMoves, Falls, Given1, Gets, Starts, DoRespond
  <2>2. QED  BY <2>1
<1>4. QED  BY <1>1, <1>2, <1>3

LEMMA StillHome ==
  ASSUME IInv, Homes, Steps
  PROVE  Homes'
<1>0. /\ Wants \in [Served -> Installs] /\ NoInstall \notin Installs /\ Parent \in [Peers -> Calls]
      /\ Calls \subseteq Served /\ 0 \notin Slots
      /\ \A c \in Slots : proc[c].asked \subseteq Peers
  BY Domains, WantsType, InstallsType, ParentType DEF IInv, TypeInv, TypeOK, Process
<1>1. SUFFICES ASSUME NEW c \in Slots PROVE Homed(c)'
  BY DEF Homes
<1>2. Homed(c)
  BY DEF Homes
<1>3. ASSUME NEW r \in Served, cart[c].install = Wants[r] PROVE cart'[c].install = Wants[r]
  <2>1. cart[c].install # NoInstall
    BY <1>0, <1>3
  <2>2. QED  BY <1>3, <2>1, InstallStays
<1>4. ASSUME NEW r \in Served, DoServe(r, c) PROVE cart'[c].install = Wants[r]
  BY <1>4 DEF DoServe
<1>5. ASSUME NEW r \in Served, incoming'[r] = c PROVE cart'[c].install = Wants[r]
  <2>1. incoming[r] = c \/ DoServe(r, c)
    BY <1>0, <1>5, EntriesMove DEF Enters, IsServed
  <2>2. QED  BY <1>2, <1>3, <1>4, <2>1 DEF Homed
<1>6. ASSUME NEW r \in Served, r \in proc'[c].taken PROVE cart'[c].install = Wants[r]
  BY <1>2, <1>3, <1>6, TakenFrom DEF Homed
<1>7. ASSUME NEW r \in Served, Frame("REQ", r) \in Pipe(c)' PROVE cart'[c].install = Wants[r]
  <2>1. Frame("REQ", r) \in Pipe(c) \/ DoServe(r, c)
    BY <1>7, PipeGains, GivenIs
  <2>2. QED  BY <1>2, <1>3, <1>4, <2>1 DEF Homed, Given
<1>8. ASSUME NEW p \in proc'[c].asked PROVE cart'[c].install = Wants[Parent[p]]
  <2>1. CASE p \in proc[c].asked
    <3>1. cart[c].install = Wants[Parent[p]] /\ Parent[p] \in Served
      BY <1>0, <1>2, <2>1 DEF Homed
    <3>2. QED  BY <1>3, <3>1
  <2>2. CASE DoMake(c, p)
    <3>1. Parent[p] \in proc[c].taken /\ proc[c].taken \subseteq Served
      BY <2>2 DEF DoMake, MakePeer, IInv, TypeInv, TypeOK, Process
    <3>2. cart[c].install = Wants[Parent[p]] /\ Parent[p] \in Served
      BY <1>2, <3>1 DEF Homed
    <3>3. QED  BY <1>3, <3>2
  <2>3. QED  BY <1>8, <2>1, <2>2, AskedFrom
<1>9. QED  BY <1>5, <1>6, <1>7, <1>8 DEF Homed, Given

-----------------------------------------------------------------------------
(* A roster that stays, and the cartridges it keeps                          *)
LEMMA RosterStays ==
  ASSUME TypeInv, MaxSyncs = 0, [Next]_vars
  PROVE  roster' = roster /\ \A d \in Slots : cart'[d].install = cart[d].install
<1> USE DEF tables, switch, outside
<1> DEFINE Goal == roster' = roster /\ \A d \in Slots : cart'[d].install = cart[d].install
<1>0. /\ cart \in [Slots -> Cartridge] /\ \A d \in Slots : cart[d] \in Cartridge
      /\ syncs \in Nat
  BY DEF TypeInv, TypeOK
<1>1. ASSUME UNCHANGED <<cart, roster>> PROVE Goal
  BY <1>1
<1>2. ASSUME NEW D \in SUBSET Slots, Bury(cart, D), UNCHANGED roster PROVE Goal
  <2>1. ASSUME NEW d \in Slots PROVE cart'[d].install = cart[d].install
    BY <1>0, <1>2 DEF Bury, Buried, Cartridge
  <2>2. QED  BY <1>2, <2>1
<1>3. CASE NoHandler \/ CancelRequest \/ \E r \in Requests : Unrouted(r) \/ Deliver(r) \/ Undeliverable(r)
  BY <1>1, <1>3 DEF NoHandler, CancelRequest, Unrouted, Deliver, Undeliverable
<1>4. CASE Serve
  <2>1. UNCHANGED roster /\ \E c : cart' = Spawned(c)
    BY <1>4 DEF Serve
  <2>2. QED  BY <1>0, <2>1 DEF Spawned
<1>5. CASE ServeFails
  <2>1. ASSUME NEW d \in Slots PROVE cart'[d].install = cart[d].install
    BY <1>0, <1>5 DEF ServeFails, Stop, Cartridge
  <2>2. QED  BY <1>5, <2>1 DEF ServeFails, Stop
<1>6. CASE ForceKill
  <2>1. PICK c : c = incoming[Head(relayIn).req]
    OBVIOUS
  <2>2. cart' = [cart EXCEPT ![c].reason = "cancelled"] \/ UNCHANGED cart
    BY <1>6, <2>1 DEF ForceKill
  <2>3. ASSUME NEW d \in Slots PROVE cart'[d].install = cart[d].install
    BY <1>0, <2>2 DEF Cartridge
  <2>4. QED  BY <1>6, <2>3 DEF ForceKill
<1>7. CASE OldEvent \/ HearRequest \/ HearBody \/ HearResponse
  BY <1>1, <1>7 DEF OldEvent, HearRequest, HearBody, HearResponse
<1>8. CASE HearDeath
  <2>1. PICK D : D = {Head(events).slot}
    OBVIOUS
  <2>2. D \in SUBSET Slots /\ Bury(cart, D) /\ UNCHANGED roster
    BY <1>8, <2>1, HeardEvent DEF HearDeath
  <2>3. QED  BY <1>2, <2>2
<1>9. CASE HeartbeatTick
  BY <1>2, <1>9 DEF HeartbeatTick, Late
<1>10. CASE ReapDrained
  <2>1. PICK carts, D :
          /\ RetireKill(carts, D) /\ UNCHANGED roster
          /\ carts = [c \in Slots |-> IF c \in Ready THEN [cart[c] EXCEPT !.retiring = "no"] ELSE cart[c]]
    BY <1>10 DEF ReapDrained
  <2>2. ASSUME NEW d \in Slots PROVE cart'[d].install = cart[d].install
    <3>1. carts[d].install = cart[d].install /\ carts[d] \in Cartridge
      BY <1>0, <2>1 DEF Cartridge
    <3>2. cart'[d].install = carts[d].install
      BY <2>1, <3>1 DEF RetireKill, Cartridge
    <3>3. QED  BY <3>1, <3>2
  <2>3. QED  BY <2>1, <2>2
<1>11. CASE \/ \E r \in Calls : EngineRequest(r) \/ EngineBody(r)
            \/ \E r \in Calls, kind \in Kinds : EngineCancel(r, kind)
            \/ \E p \in Peers : RemoteAnswers(p)
  BY <1>1, <1>11 DEF EngineRequest, EngineBody, EngineCancel, RemoteAnswers
<1>12. ASSUME NEW c \in Slots, Crash(c) \/ Hang(c) \/ ProbeLate(c) \/ KillCartridge(c) \/ DrainExpires(c) PROVE Goal
  <2>1. ASSUME NEW d \in Slots PROVE cart'[d].install = cart[d].install
    BY <1>0, <1>12 DEF Crash, Hang, ProbeLate, KillCartridge, DrainExpires, Cartridge
  <2>2. QED  BY <1>12, <2>1 DEF Crash, Hang, ProbeLate, KillCartridge, DrainExpires
<1>13. ASSUME NEW R, SyncRoster(R) PROVE Goal
  BY <1>0, <1>13 DEF SyncRoster
<1>14. ASSUME NEW c \in Slots, ProcessStep(c) PROVE Goal
  <2>1. CASE WriterFails(c) \/ AnswerProbe(c)
    <3>1. ASSUME NEW d \in Slots PROVE cart'[d].install = cart[d].install
      BY <1>0, <2>1 DEF WriterFails, AnswerProbe, Cartridge
    <3>2. QED  BY <2>1, <3>1 DEF WriterFails, AnswerProbe
  <2>2. CASE TakeFrame(c) \/ ReaderEof(c)
    BY <1>1, <2>2 DEF TakeFrame, ReaderEof
  <2>3. CASE (\E p \in Peers : MakePeer(c, p) \/ EndArgument(c, p)) \/ \E r \in Served : Respond(c, r)
    BY <1>1, <2>3 DEF MakePeer, EndArgument, Respond
  <2>4. QED  BY <1>14, <2>1, <2>2, <2>3 DEF ProcessStep
<1>15. CASE UNCHANGED vars
  BY <1>1, <1>15 DEF vars
<1>16. QED
  BY <1>3, <1>4, <1>5, <1>6, <1>7, <1>8, <1>9, <1>10, <1>11, <1>12, <1>13, <1>14, <1>15
     DEF Next, RelayStep, EventStep, Timers, Outside

\* A slot whose process does not fail and is not killed.
Steady(c) == proc[c].state \in {"none", "up"} /\ ~cart[c].late /\ cart[c].retiring = "no"

LEMMA SteadyStays ==
  ASSUME IInv, MaxSyncs = 0, [Next]_vars, up', NEW c \in Slots, c \notin Frail, Steady(c),
         \A r \in Served : Frame("KILL", r) \in Rel => incoming[r] # c
  PROVE  Steady(c)'
<1> USE DEF tables, switch, outside
<1>0. /\ TypeInv /\ cart \in [Slots -> Cartridge] /\ proc \in [Slots -> Process]
      /\ cart[c] \in Cartridge /\ proc[c] \in Process /\ syncs \in Nat
      /\ cart[c].running <=> proc[c].state # "none"
  BY DEF IInv, TypeInv, TypeOK, Lives, RunningHasProcess
<1>1. ASSUME UNCHANGED <<cart[c].late, cart[c].retiring, proc[c].state>> PROVE Steady(c)'
  BY <1>1 DEF Steady
<1>2. CASE UNCHANGED <<cart, proc>>
  BY <1>1, <1>2
<1>3. ASSUME NEW D \in SUBSET Slots, Bury(cart, D) PROVE Steady(c)'
  BY <1>0, <1>3 DEF Bury, Buried, NoProcess, Steady, Cartridge
<1>4. ASSUME NEW d \in Slots, NEW f, NEW x \in [Slots -> Process], x[c].state \in {"none", "up"},
             proc' = Give(x, d, f)
      PROVE  proc'[c].state \in {"none", "up"}
  BY <1>4 DEF Give, Process
<1>5. CASE NoHandler \/ \E r \in Requests : Unrouted(r) \/ Undeliverable(r)
  BY <1>2, <1>5 DEF NoHandler, Unrouted, Undeliverable
<1>6. ASSUME NEW r \in Requests, Deliver(r) PROVE Steady(c)'
  <2>1. PICK d \in Slots : proc' = Give(proc, d, Head(relayIn))
    <3>1. PICK d : d = IF ToServer(r) THEN Server(r) ELSE Maker(r)
      OBVIOUS
    <3>2. d \in Slots /\ proc' = Give(proc, d, Head(relayIn))
      BY <1>0, <1>6, <3>1, DeliverDoes DEF Deliver
    <3>3. QED  BY <3>2
  <2>2. proc'[c].state \in {"none", "up"} /\ UNCHANGED cart
    BY <1>0, <1>4, <1>6, <2>1 DEF Deliver, Steady
  <2>3. QED  BY <2>2 DEF Steady
<1>7. CASE CancelRequest
  <2>1. UNCHANGED cart
    BY <1>7 DEF CancelRequest
  <2>2. UNCHANGED proc \/ \E d \in Slots : proc' = Give(proc, d, Head(relayIn))
    <3>1. Head(relayIn).req \in Served
      BY <1>0, <1>7, TakenFrame DEF CancelRequest
    <3>2. QED  BY <1>7, <3>1 DEF CancelRequest, TypeInv, TypeOK, IInv
  <2>3. proc'[c].state \in {"none", "up"}
    BY <1>0, <1>4, <2>2 DEF Steady
  <2>4. QED  BY <2>1, <2>3 DEF Steady
<1>8. CASE Serve
  <2>1. PICK r, d : r = Head(relayIn).req /\ d = First(Offering(Wants[r]))
    OBVIOUS
  <2>2. d \in Slots
    BY <1>8, <2>1, ServeDoes DEF Serves
  <2>3. cart' = Spawned(d) /\ proc' = Give(IF cart[d].running THEN proc ELSE [proc EXCEPT ![d] = NewProcess], d, Head(relayIn))
    BY <1>8, <2>1 DEF Serve
  <2>4. PICK x : x = IF cart[d].running THEN proc ELSE [proc EXCEPT ![d] = NewProcess]
    OBVIOUS
  <2>5. x \in [Slots -> Process] /\ x[c].state \in {"none", "up"}
    BY <1>0, <2>2, <2>4, ProcessesTyped DEF Steady, NewProcess, NoProcess
  <2>6. proc'[c].state \in {"none", "up"}
    BY <1>4, <2>2, <2>3, <2>4, <2>5
  <2>7. UNCHANGED <<cart[c].late, cart[c].retiring>>
    BY <1>0, <2>2, <2>3 DEF Spawned, Cartridge
  <2>8. QED  BY <2>6, <2>7 DEF Steady
<1>9. CASE ServeFails
  BY <1>9 DEF ServeFails, Stop
<1>10. CASE ForceKill
  <2>1. PICK r : r = Head(relayIn).req
    OBVIOUS
  <2>2. r \in Served /\ Head(relayIn) = Frame("KILL", r)
    BY <1>0, <1>10, <2>1, TakenFrame, FrameIs DEF ForceKill
  <2>3. incoming[r] # c
    <3>1. Head(relayIn) \in Rel
      BY <1>0, <1>10, RelayTakes DEF ForceKill
    <3>2. QED  BY <2>2, <3>1
  <2>4. CASE incoming[r] = 0
    BY <1>2, <1>10, <2>1, <2>4 DEF ForceKill
  <2>5. CASE incoming[r] # 0
    <3>1. PICK d \in Slots : d = incoming[r] /\ d # c
      BY <2>2, <2>3, <2>5 DEF IInv, TypeInv, TypeOK
    <3>2. cart' = [cart EXCEPT ![d].reason = "cancelled"] /\ proc' = Kill(proc, d)
      BY <1>10, <2>1, <2>5, <3>1 DEF ForceKill
    <3>3. cart'[c] = cart[c] /\ proc'[c] = proc[c]
      BY <1>0, <3>1, <3>2, KillDoes
    <3>4. QED  BY <1>1, <3>3
  <2>6. QED  BY <2>4, <2>5
<1>11. CASE OldEvent \/ HearRequest \/ HearBody \/ HearResponse
  BY <1>2, <1>11 DEF OldEvent, HearRequest, HearBody, HearResponse
<1>12. CASE HearDeath
  <2>1. PICK D : D = {Head(events).slot}
    OBVIOUS
  <2>2. D \in SUBSET Slots /\ Bury(cart, D)
    BY <1>0, <1>12, <2>1, HeardEvent DEF HearDeath
  <2>3. QED  BY <1>3, <2>2
<1>13. CASE HeartbeatTick
  BY <1>3, <1>13 DEF HeartbeatTick, Late
<1>14. CASE ReapDrained
  <2>1. PICK carts, D :
          /\ RetireKill(carts, D) /\ D = {d \in Ready : cart[d].running}
          /\ carts = [d \in Slots |-> IF d \in Ready THEN [cart[d] EXCEPT !.retiring = "no"] ELSE cart[d]]
    BY <1>14 DEF ReapDrained
  <2>2. c \notin Ready
    BY DEF Steady, Ready
  <2>3. cart'[c] = cart[c] /\ proc'[c] = proc[c]
    BY <2>1, <2>2 DEF RetireKill
  <2>4. QED  BY <1>1, <2>3
<1>15. CASE \/ \E r \in Calls : EngineRequest(r) \/ EngineBody(r)
            \/ \E r \in Calls, kind \in Kinds : EngineCancel(r, kind)
            \/ \E p \in Peers : RemoteAnswers(p)
  BY <1>2, <1>15 DEF EngineRequest, EngineBody, EngineCancel, RemoteAnswers
<1>16. ASSUME NEW d \in Slots, Crash(d) \/ Hang(d) PROVE Steady(c)'
  <2>1. d # c
    BY <1>16 DEF Crash, Hang, MayFail
  <2>2. cart' = cart /\ proc'[c] = proc[c]
    BY <1>0, <1>16, <2>1 DEF Crash, Hang
  <2>3. QED  BY <1>1, <2>2
<1>17. ASSUME NEW d \in Slots, ProbeLate(d) \/ KillCartridge(d) PROVE Steady(c)'
  <2>1. d # c
    BY <1>0, <1>17 DEF ProbeLate, KillCartridge, MayFail, Steady, Alive
  <2>2. cart'[c] = cart[c] /\ proc'[c] = proc[c]
    BY <1>0, <1>17, <2>1, KillDoes DEF ProbeLate, KillCartridge
  <2>3. QED  BY <1>1, <2>2
<1>18. ASSUME NEW d \in Slots, DrainExpires(d) PROVE Steady(c)'
  <2>1. d # c
    BY <1>18 DEF DrainExpires, Steady
  <2>2. cart'[c] = cart[c] /\ proc'[c] = proc[c]
    BY <1>0, <1>18, <2>1 DEF DrainExpires
  <2>3. QED  BY <1>1, <2>2
<1>19. ASSUME NEW R, SyncRoster(R) PROVE Steady(c)'
  BY <1>0, <1>19 DEF SyncRoster
<1>20. ASSUME NEW d \in Slots, ProcessStep(d) PROVE Steady(c)'
  <2>1. CASE WriterFails(d) \/ ReaderEof(d)
    <3>1. d # c
      BY <2>1 DEF WriterFails, ReaderEof, Steady
    <3>2. cart'[c] = cart[c] /\ proc'[c] = proc[c]
      BY <1>0, <2>1, <3>1 DEF WriterFails, ReaderEof
    <3>3. QED  BY <1>1, <3>2
  <2>2. CASE AnswerProbe(d)
    <3>1. cart'[c].late \in {cart[c].late, FALSE} /\ UNCHANGED <<cart[c].retiring, proc[c].state>>
      BY <1>0, <2>2 DEF AnswerProbe, Cartridge
    <3>2. QED  BY <3>1 DEF Steady
  <2>3. CASE TakeFrame(d)
    <3>1. UNCHANGED cart
      BY <2>3 DEF TakeFrame
    <3>2. proc'[c].state \in {proc[c].state, "up"}
      BY <1>0, <2>3, TakeDoes
    <3>3. QED  BY <3>1, <3>2 DEF Steady
  <2>4. CASE (\E p \in Peers : MakePeer(d, p) \/ EndArgument(d, p)) \/ \E r \in Served : Respond(d, r)
    <3>1. ASSUME NEW p, MakePeer(d, p) \/ EndArgument(d, p) PROVE UNCHANGED <<cart, proc[c].state>>
      <4>1. UNCHANGED cart /\ (UNCHANGED proc \/ \E a : proc' = [proc EXCEPT ![d] = [@ EXCEPT !.asked = a]])
        BY <3>1 DEF MakePeer, EndArgument
      <4>2. ASSUME NEW a, proc' = [proc EXCEPT ![d] = [@ EXCEPT !.asked = a]] PROVE UNCHANGED proc[c].state
        BY <1>0, <4>2 DEF Process
      <4>3. QED  BY <4>1, <4>2
    <3>2. ASSUME NEW r, Respond(d, r) PROVE UNCHANGED <<cart, proc[c].state>>
      <4>1. UNCHANGED cart /\ \E t, e, s, a : proc' = [proc EXCEPT ![d] = [[[[@ EXCEPT !.taken = t] EXCEPT !.ended = e] EXCEPT !.told = s] EXCEPT !.asked = a]]
        BY <3>2 DEF Respond
      <4>2. QED  BY <1>0, <4>1 DEF Process
    <3>3. QED  BY <1>1, <2>4, <3>1, <3>2
  <2>5. QED  BY <1>20, <2>1, <2>2, <2>3, <2>4 DEF ProcessStep
<1>21. CASE UNCHANGED vars
  BY <1>2, <1>21 DEF vars
<1>22. QED
  BY <1>5, <1>6, <1>7, <1>8, <1>9, <1>10, <1>11, <1>12, <1>13, <1>14, <1>15, <1>16, <1>17, <1>18, <1>19,
     <1>20, <1>21 DEF Next, RelayStep, EventStep, Timers, Outside

Firm ==
  \A p \in Local :
    /\ Wants[p] \in roster
    /\ \A c \in Slots : cart[c].install = Wants[p] => c \notin Frail /\ (up => Steady(c))

LEMMA InitFirm ==
  ASSUME SteadyPeers, Init
  PROVE  Firm
<1>1. SUFFICES ASSUME NEW p \in Local
      PROVE  Wants[p] \in roster /\ \A c \in Slots : cart[c].install = Wants[p] => c \notin Frail /\ Steady(c)
  BY DEF Firm
<1>2. Wants[p] \in Installs /\ Wants[p] # NoInstall
  BY WantsType, InstallsType DEF Served
<1>3. Wants[p] \in roster
  BY DEF SteadyPeers, Init
<1>4. ASSUME NEW c \in Slots, cart[c].install = Wants[p] PROVE c \notin Frail /\ Steady(c)
  <2>1. c \in DOMAIN FirstRoster /\ FirstRoster[c] = Wants[p]
    BY <1>2, <1>4 DEF Init, Registered
  <2>2. proc[c].state = "none" /\ ~cart[c].late /\ cart[c].retiring = "no"
    BY DEF Init, Registered, NoProcess
  <2>3. QED  BY <2>1, <2>2 DEF SteadyPeers, Steady
<1>5. QED  BY <1>3, <1>4

LEMMA StillFirm ==
  ASSUME SteadyPeers, IInv, Homes, KillsReal, Firm, Steps, [Next]_vars
  PROVE  Firm'
<1>1. SUFFICES ASSUME NEW p \in Local
      PROVE  /\ Wants[p] \in roster'
             /\ \A c \in Slots : cart'[c].install = Wants[p] => c \notin Frail /\ (up' => Steady(c)')
  BY DEF Firm
<1>2. MaxSyncs = 0 /\ ("KILL" \in Kinds => \A r \in Cancels : Wants[r] # Wants[p])
  BY DEF SteadyPeers
<1>3. roster' = roster /\ \A c \in Slots : cart'[c].install = cart[c].install
  BY <1>2, RosterStays DEF IInv
<1>4. ASSUME NEW c \in Slots, cart[c].install = Wants[p], up' PROVE Steady(c)'
  <2>1. c \notin Frail /\ Steady(c)
    BY <1>4, UpBefore DEF Firm
  <2>2. ASSUME NEW r \in Served, Frame("KILL", r) \in Rel PROVE incoming[r] # c
    <3>1. r \in Cancels /\ Wants[r] # Wants[p]
      BY <1>2, <2>2 DEF KillsReal
    <3>2. QED  BY <1>4, <3>1 DEF Homes, Homed
  <2>3. QED  BY <1>2, <1>4, <2>1, <2>2, SteadyStays
<1>5. QED  BY <1>3, <1>4 DEF Firm

\* The cap of such a request is on offer; who serves it is neither done away
\* with nor beyond reach.
LEMMA Offered ==
  ASSUME IInv, Firm, up, NEW p \in Local
  PROVE  Offering(Wants[p]) # {}
  BY DEF Firm, IInv, Slotting, RosterFollowed, Offering

LEMMA ServerStands ==
  ASSUME IInv, DeadHoldNothing, Homes, DeathReal, Firm, up, NEW p \in Local, NEW c \in Slots, incoming[p] = c
  PROVE  /\ CanSend(c)
         /\ \A D : DoBury(D) => c \notin D
<1>1. Steady(c)
  BY DEF Homes, Homed, Firm, Served
<1>2. cart[c].running
  BY Domains DEF IInv, Lives, EntriesRunning
<1>3. cart[c].writer = "open"
  BY <1>1 DEF DeadHoldNothing, Steady, IInv, TypeInv, TypeOK, Cartridge
<1>4. ~cart[c].late /\ ~Tells(c, Death)
  BY <1>1 DEF Steady, DeathReal
<1>5. QED  BY <1>2, <1>3, <1>4 DEF CanSend, DoBury

-----------------------------------------------------------------------------
(* The body of a peer request that this host serves too                      *)
\* It comes down the relay once, after its maker has ended it.
Body(p) == Frame("BODY", p)
Traced(p) ==
  outgoing[p] # 0 =>
    /\ Before(relayIn, Body(p), Body(p))
    /\ Body(p) \in Rel \/ (p \in bodyDone /\ requested[p] = "live") => p \in bodySent /\ ~Said(Body(p))
BodyTrace == \A p \in Local : Traced(p)

\* A peer request has a maker once the host has heard of it.
LEMMA MakerFrom ==
  ASSUME IInv, Steps, NEW p \in Peers, outgoing'[p] # 0, outgoing[p] = 0
  PROVE  \E c \in Slots : DoHearRequest(c, p)
<1> USE DEF says, maps
<1>0. outgoing \in [Peers -> Slots \cup {0}]
  BY Domains
<1>1. CASE UNCHANGED outgoing
  BY <1>1
<1>2. ASSUME NEW q, outgoing' = [outgoing EXCEPT ![q] = 0] PROVE FALSE
  BY <1>0, <1>2
<1>3. CASE \/ \E q \in Calls : DoRequest(q) \/ DoBody(q) \/ \E kind \in Kinds : DoCancelCall(q, kind)
           \/ \E q \in Peers : DoRemote(q)
           \/ \E d \in Slots : DoTake(d) \/ DoEof(d) \/ DoWriterFails(d)
           \/ \E d \in Slots, q \in Peers : DoMake(d, q) \/ DoArgument(d, q)
           \/ \E d \in Slots, q \in Served : DoRespond(d, q)
           \/ DoStop \/ DoKill \/ DoAil \/ DoOld
  BY <1>1, <1>3 DEF DoRequest, DoBody, DoCancelCall, DoRemote, DoTake, DoEof, DoWriterFails, DoMake,
       DoArgument, DoRespond, DoStop, DoKill, DoAil, DoOld, Ails
<1>4. CASE \E q \in Served : DoNoHandler(q) \/ DoCancel(q) \/ \E d \in Slots : DoServe(q, d)
  BY <1>1, <1>4 DEF DoNoHandler, DoCancel, DoServe
<1>5. ASSUME NEW q \in Requests, DoUnrouted(q) \/ DoUndeliver(q) \/ \E d \in Slots : DoDeliver(q, d) PROVE FALSE
  BY <1>0, <1>1, <1>2, <1>5 DEF DoUnrouted, DoUndeliver, DoDeliver
<1>6. ASSUME NEW d \in Slots, NEW q \in Peers, DoHearRequest(d, q) PROVE DoHearRequest(d, p)
  BY <1>0, <1>6 DEF DoHearRequest
<1>7. CASE \/ \E d \in Slots, q \in Peers : DoHearRequest(d, q) \/ DoHearBody(d, q)
           \/ \E d \in Slots, q \in Served : DoHearResponse(d, q)
  BY <1>1, <1>6, <1>7 DEF DoHearBody, DoHearResponse
<1>8. ASSUME NEW D \in SUBSET Slots, DoBury(D) PROVE FALSE
  BY <1>0, <1>8 DEF DoBury, Buries
<1>9. QED  BY <1>3, <1>4, <1>5, <1>7, <1>8 DEF Steps

\* A mark that a body has ended is made when its end, or a response, is delivered.
LEMMA MarkFrom ==
  ASSUME IInv, Steps, NEW r \in Served, r \in bodyDone', r \notin bodyDone
  PROVE  \E c \in Slots : DoDeliver(r, c) /\ c = incoming[r]
<1> USE DEF says, maps
<1>1. CASE bodyDone' \subseteq bodyDone
  BY <1>1
<1>2. CASE \/ \E q \in Calls : DoRequest(q) \/ DoBody(q) \/ \E kind \in Kinds : DoCancelCall(q, kind)
           \/ \E q \in Peers : DoRemote(q)
           \/ \E d \in Slots : DoTake(d) \/ DoEof(d) \/ DoWriterFails(d)
           \/ \E d \in Slots, q \in Peers : DoMake(d, q) \/ DoArgument(d, q)
           \/ \E d \in Slots, q \in Served : DoRespond(d, q)
           \/ DoStop \/ DoKill \/ DoAil \/ DoOld
  BY <1>1, <1>2 DEF DoRequest, DoBody, DoCancelCall, DoRemote, DoTake, DoEof, DoWriterFails, DoMake,
       DoArgument, DoRespond, DoStop, DoKill, DoAil, DoOld, Ails
<1>3. CASE \E q \in Served : DoNoHandler(q) \/ DoCancel(q) \/ \E d \in Slots : DoServe(q, d)
  BY <1>1, <1>3 DEF DoNoHandler, DoCancel, DoServe
<1>4. ASSUME NEW q \in Requests, NEW d \in Slots, DoDeliver(q, d) PROVE DoDeliver(r, d) /\ d = incoming[r]
  BY <1>4 DEF DoDeliver
<1>5. CASE \E q \in Requests : DoUnrouted(q) \/ DoUndeliver(q) \/ \E d \in Slots : DoDeliver(q, d)
  BY <1>1, <1>4, <1>5 DEF DoUnrouted, DoUndeliver
<1>6. CASE \/ \E d \in Slots, q \in Peers : DoHearRequest(d, q) \/ DoHearBody(d, q)
           \/ \E d \in Slots, q \in Served : DoHearResponse(d, q)
           \/ \E D \in SUBSET Slots : DoBury(D)
  BY <1>1, <1>6 DEF DoHearRequest, DoHearBody, DoHearResponse, DoBury, Buries, Release
<1>7. QED  BY <1>2, <1>3, <1>5, <1>6 DEF Steps

LEMMA SentGrows ==
  ASSUME Steps
  PROVE  bodySent \subseteq bodySent'
<1> USE DEF says, maps
<1>1. CASE \/ \E q \in Calls : DoRequest(q) \/ DoBody(q) \/ \E kind \in Kinds : DoCancelCall(q, kind)
           \/ \E q \in Peers : DoRemote(q)
           \/ \E d \in Slots : DoTake(d) \/ DoEof(d) \/ DoWriterFails(d)
           \/ \E d \in Slots, q \in Peers : DoMake(d, q) \/ DoArgument(d, q)
           \/ \E d \in Slots, q \in Served : DoRespond(d, q)
           \/ DoStop \/ DoKill \/ DoAil \/ DoOld
  BY <1>1 DEF DoRequest, DoBody, DoCancelCall, DoRemote, DoTake, DoEof, DoWriterFails, DoMake,
       DoArgument, DoRespond, DoStop, DoKill, DoAil, DoOld, Ails
<1>2. CASE \/ \E q \in Served : DoNoHandler(q) \/ DoCancel(q) \/ \E d \in Slots : DoServe(q, d)
           \/ \E q \in Requests : DoUnrouted(q) \/ DoUndeliver(q) \/ \E d \in Slots : DoDeliver(q, d)
  BY <1>2 DEF DoNoHandler, DoCancel, DoServe, DoUnrouted, DoUndeliver, DoDeliver
<1>3. CASE \/ \E d \in Slots, q \in Peers : DoHearRequest(d, q) \/ DoHearBody(d, q)
           \/ \E d \in Slots, q \in Served : DoHearResponse(d, q)
           \/ \E D \in SUBSET Slots : DoBury(D)
  BY <1>3 DEF DoHearRequest, DoHearBody, DoHearResponse, DoBury, Buries
<1>4. QED  BY <1>1, <1>2, <1>3 DEF Steps

LEMMA BodySaidBy ==
  ASSUME Steps, NEW p, Said(Body(p))', ~Said(Body(p))
  PROVE  p \notin bodySent
<1> USE DEF says, maps
<1>1. CASE Ev' \subseteq Ev
  BY <1>1 DEF Said
<1>2. ASSUME NEW c, NEW f, Tell(c, f), f # Body(p) PROVE FALSE
  BY <1>2, EventIs DEF Tell, Said
<1>3. \A q : /\ Frame("REQ", q) # Body(p) /\ Frame("RESPONSE", q) # Body(p) /\ Death # Body(p)
             /\ Frame("BODY", q) = Body(p) => q = p
  BY FrameParts DEF Body, Death
<1>4. CASE UNCHANGED events
  BY <1>1, <1>4 DEF Ev
<1>5. CASE \/ \E q \in Calls : DoRequest(q) \/ DoBody(q) \/ \E kind \in Kinds : DoCancelCall(q, kind)
           \/ \E q \in Peers : DoRemote(q)
           \/ \E d \in Slots : DoTake(d) \/ DoEof(d) \/ DoWriterFails(d)
  BY <1>2, <1>3, <1>4, <1>5 DEF DoRequest, DoBody, DoCancelCall, DoRemote, DoTake, DoEof, DoWriterFails
<1>6. CASE \/ \E d \in Slots, q \in Peers : DoMake(d, q) \/ DoArgument(d, q)
           \/ \E d \in Slots, q \in Served : DoRespond(d, q)
  BY <1>2, <1>3, <1>6 DEF DoMake, DoArgument, DoRespond
<1>7. CASE DoStop \/ DoKill \/ DoAil \/ DoOld
  BY <1>1, <1>4, <1>7 DEF DoStop, DoKill, DoAil, DoOld, Ails, Drops
<1>8. CASE \/ \E q \in Served : DoNoHandler(q) \/ DoCancel(q) \/ \E d \in Slots : DoServe(q, d)
           \/ \E q \in Requests : DoUnrouted(q) \/ DoUndeliver(q) \/ \E d \in Slots : DoDeliver(q, d)
  BY <1>4, <1>8 DEF DoNoHandler, DoCancel, DoServe, DoUnrouted, DoUndeliver, DoDeliver
<1>9. CASE \/ \E d \in Slots, q \in Peers : DoHearRequest(d, q) \/ DoHearBody(d, q)
           \/ \E d \in Slots, q \in Served : DoHearResponse(d, q)
           \/ \E D \in SUBSET Slots : DoBury(D)
  BY <1>1, <1>4, <1>9 DEF DoHearRequest, DoHearBody, DoHearResponse, DoBury, Drops
<1>10. QED  BY <1>5, <1>6, <1>7, <1>8, <1>9 DEF Steps

LEMMA BodyComes ==
  ASSUME IInv, Asks, Steps, NEW p \in Local, outgoing'[p] # 0, NEW N, Flows(N), \A f \in N : Sent(f), Body(p) \in N
  PROVE  requested[p] = "live" /\ \E c \in Slots : DoHearBody(c, p)
  BY SentIs, Domains DEF Body

\* The marks of a request that is heard of were never made.
LEMMA HeardAnew ==
  ASSUME IInv, Unmade, Asks, NEW c, NEW p \in Peers, DoHearRequest(c, p)
  PROVE  Clean(p) /\ Body(p) \notin Rel /\ Body(p) \notin Rel'
<1>1. p \in Requests /\ requested[p] = "no"
  BY EventIs, Domains DEF DoHearRequest, Asks, Said
<1>2. Clean(p) /\ Body(p) \notin Rel
  BY <1>1, FrameParts DEF Unmade, Clean, Body
<1>3. Rel' \subseteq Rel \cup {Frame("REQ", p)}
  BY DEF DoHearRequest, Grows, Rel
<1>4. Body(p) # Frame("REQ", p)
  BY FrameParts DEF Body
<1>5. QED  BY <1>2, <1>3, <1>4

LEMMA StillTraced ==
  ASSUME IInv, Unmade, Asks, ResponsesOver, BodySaid, BodyTrace, Steps
  PROVE  BodyTrace'
<1>1. SUFFICES ASSUME NEW p \in Local, outgoing'[p] # 0
      PROVE  /\ Before(relayIn, Body(p), Body(p))'
             /\ Body(p) \in Rel' \/ (p \in bodyDone' /\ requested'[p] = "live") => p \in bodySent' /\ ~Said(Body(p))'
  BY DEF BodyTrace, Traced, Body
<1>2. p \in Peers /\ p \in Requests /\ p \in Served
  BY Domains
<1>b. PICK b : b = Body(p)
  OBVIOUS
<1>3. ASSUME NEW c \in Slots, DoHearRequest(c, p)
      PROVE  /\ Before(relayIn, b, b)'
             /\ b \notin Rel' /\ ~(p \in bodyDone')
  <2>1. Clean(p) /\ b \notin Rel'
    BY <1>2, <1>3, <1>b, HeardAnew
  <2>2. p \notin bodyDone'
    BY <1>2, <1>3, <2>1 DEF DoHearRequest, Clean
  <2>3. QED  BY <2>1, <2>2 DEF Rel, In, Before
<1>4. CASE outgoing[p] = 0
  BY <1>b, <1>1, <1>2, <1>3, <1>4, MakerFrom
<1>5. CASE outgoing[p] # 0
  <2>1. /\ Before(relayIn, b, b)
        /\ b \in Rel \/ (p \in bodyDone /\ requested[p] = "live") => p \in bodySent /\ ~Said(b)
    BY <1>5, <1>b DEF BodyTrace, Traced
  <2>2. ASSUME NEW c \in Slots, DoHearBody(c, p) PROVE Said(b) /\ p \in bodySent' /\ ~Said(b)' /\ b \notin Rel
    <3>1. Said(b) /\ Head(events).frame = b /\ Drops /\ UNCHANGED bodySent
      BY <2>2, <1>b, EventIs DEF DoHearBody, Said, Body, says
    <3>2. p \in bodySent /\ OneSaid(b)
      BY <1>2, <1>b, <3>1 DEF BodySaid, Body
    <3>3. QED  BY <2>1, <3>1, <3>2, SaidLess
  <2>3. ASSUME b \in Rel' PROVE b \in Rel \/ \E c \in Slots : DoHearBody(c, p)
    <3>1. CASE relayIn' = <<>>
      BY <2>3, <3>1 DEF Rel, In
    <3>2. ASSUME NEW N, Flows(N), \A f \in N : Sent(f) PROVE b \in Rel \/ \E c \in Slots : DoHearBody(c, p)
      <4>1. b \in Rel \/ b \in N
        BY <2>3, <3>2, FlowsOrder
      <4>2. QED  BY <1>1, <1>b, <3>2, <4>1, BodyComes
    <3>3. QED  BY <3>1, <3>2, RelayFlowing DEF RelayFlow
  <2>4. Before(relayIn, b, b)'
    <3>1. CASE relayIn' = <<>>
      BY <3>1 DEF Before
    <3>2. ASSUME NEW N, Flows(N), \A f \in N : Sent(f) PROVE Before(relayIn, b, b)'
      <4>1. b \in N => b \notin Rel
        BY <1>1, <1>b, <2>2, <3>2, BodyComes
      <4>2. QED  BY <2>1, <3>2, <4>1, FlowsOrder
    <3>3. QED  BY <3>1, <3>2, RelayFlowing DEF RelayFlow
  <2>5. ASSUME b \in Rel \/ (p \in bodyDone /\ requested[p] = "live") PROVE p \in bodySent' /\ ~Said(b)'
    <3>1. p \in bodySent /\ ~Said(b)
      BY <2>1, <2>5
    <3>2. QED  BY <1>b, <3>1, SentGrows, BodySaidBy
  <2>6. ASSUME p \in bodyDone', requested'[p] = "live" PROVE b \in Rel \/ (p \in bodyDone /\ requested[p] = "live")
    <3>1. CASE p \in bodyDone
      <4>1. requested[p] # "no"
        BY <1>2, <3>1 DEF Unmade, Clean
      <4>2. QED  BY <1>2, <2>6, <3>1, <4>1, BecomesLive
    <3>2. CASE p \notin bodyDone
      <4>1. PICK c \in Slots : DoDeliver(p, c)
        BY <1>2, <2>6, <3>2, MarkFrom
      <4>2. Head(relayIn) \in Rel /\ (Head(relayIn) = Frame("BODY", p) \/ Head(relayIn) = Frame("RESPONSE", p))
        BY <4>1 DEF DoDeliver
      <4>3. Frame("RESPONSE", p) \notin Rel
        BY <1>2, <2>6, OverStays DEF ResponsesOver
      <4>4. QED  BY <1>b, <4>2, <4>3 DEF Body
    <3>3. QED  BY <3>1, <3>2
  <2>7. QED  BY <1>b, <2>2, <2>3, <2>4, <2>5, <2>6
<1>6. QED  BY <1>4, <1>5

LEMMA EntryLost ==
  ASSUME IInv, Steps, NEW r \in Served, incoming[r] # 0, incoming'[r] = 0
  PROVE  \/ r \in bodyDone \/ DoUndeliver(r)
         \/ \E c \in Slots : DoDeliver(r, c)
         \/ \E D \in SUBSET Slots : DoBury(D) /\ incoming[r] \in D
<1> USE DEF says, maps
<1>0. incoming \in [Served -> Slots \cup {0}] /\ 0 \notin Slots
  BY Domains
<1>1. CASE UNCHANGED incoming
  BY <1>1
<1>2. CASE \/ \E q \in Calls : DoRequest(q) \/ DoBody(q) \/ \E kind \in Kinds : DoCancelCall(q, kind)
           \/ \E q \in Peers : DoRemote(q)
           \/ \E d \in Slots : DoTake(d) \/ DoEof(d) \/ DoWriterFails(d)
           \/ \E d \in Slots, q \in Peers : DoMake(d, q) \/ DoArgument(d, q)
           \/ \E d \in Slots, q \in Served : DoRespond(d, q)
           \/ DoStop \/ DoKill \/ DoAil \/ DoOld
  BY <1>1, <1>2 DEF DoRequest, DoBody, DoCancelCall, DoRemote, DoTake, DoEof, DoWriterFails, DoMake,
       DoArgument, DoRespond, DoStop, DoKill, DoAil, DoOld, Ails
<1>3. ASSUME NEW q \in Served, NEW c \in Slots, DoServe(q, c) PROVE FALSE
  BY <1>0, <1>3 DEF DoServe
<1>4. CASE \E q \in Served : DoNoHandler(q) \/ DoCancel(q) \/ \E d \in Slots : DoServe(q, d)
  BY <1>1, <1>3, <1>4 DEF DoNoHandler, DoCancel
<1>5. ASSUME NEW q \in Requests, NEW c \in Slots, DoDeliver(q, c) PROVE DoDeliver(r, c)
  BY <1>0, <1>5 DEF DoDeliver
<1>6. ASSUME NEW q \in Requests, DoUndeliver(q) PROVE DoUndeliver(r)
  BY <1>6 DEF DoUndeliver
<1>7. CASE \E q \in Requests : DoUnrouted(q) \/ DoUndeliver(q) \/ \E d \in Slots : DoDeliver(q, d)
  BY <1>1, <1>5, <1>6, <1>7 DEF DoUnrouted
<1>8. ASSUME NEW c \in Slots, NEW q \in Served, DoHearResponse(c, q) PROVE r \in bodyDone
  BY <1>0, <1>8 DEF DoHearResponse, Release
<1>9. ASSUME NEW D \in SUBSET Slots, DoBury(D) PROVE incoming[r] \in D
  BY <1>0, <1>9 DEF DoBury, Buries, Lost, Entries
<1>10. CASE \/ \E d \in Slots, q \in Peers : DoHearRequest(d, q) \/ DoHearBody(d, q)
            \/ \E d \in Slots, q \in Served : DoHearResponse(d, q)
            \/ \E D \in SUBSET Slots : DoBury(D)
  BY <1>1, <1>8, <1>9, <1>10 DEF DoHearRequest, DoHearBody
<1>11. QED  BY <1>2, <1>4, <1>7, <1>10 DEF Steps

\* While it is on its way to this host, the request is before it, or has been
\* served and its body is not taken for ended: it goes to who serves it.
Owed(p) ==
  \/ Frame("REQ", p) \in Rel /\ Before(relayIn, Frame("REQ", p), Body(p))
  \/ incoming[p] # 0 /\ p \notin bodyDone
Bodies == up => \A p \in Local : outgoing[p] # 0 /\ Body(p) \in Rel => Owed(p)

LEMMA OwedServed ==
  ASSUME IInv, DeadHoldNothing, Fresh, Homes, DeathReal, BodyLast, BodyTrace, Firm, Steps, up, NEW p \in Local,
         outgoing[p] # 0, outgoing'[p] # 0, Body(p) \in Rel, Body(p) \in Rel', incoming[p] # 0, p \notin bodyDone
  PROVE  incoming'[p] # 0 /\ p \notin bodyDone'
<1>0. p \in Peers /\ p \in Served /\ incoming \in [Served -> Slots \cup {0}]
  BY Domains
<1>1. ASSUME NEW c \in Slots, DoDeliver(p, c) PROVE FALSE
  <2>1. PICK b, h : b = Body(p) /\ h = Head(relayIn)
    OBVIOUS
  <2>2. Before(relayIn, b, b) /\ Before(relayIn, b, Frame("RESPONSE", p))
    BY <1>0, <2>1 DEF BodyTrace, Traced, BodyLast, Body
  <2>3. h = b \/ h = Frame("RESPONSE", p)
    BY <1>1, <2>1 DEF DoDeliver, Body
  <2>4. Before(relayIn, b, h)
    BY <2>2, <2>3
  <2>5. Pops
    BY <1>1 DEF DoDeliver
  <2>6. b \notin Rel'
    BY <2>1, <2>4, <2>5 DEF Pops, Moved
  <2>7. QED  BY <2>1, <2>6
<1>2. PICK c \in Slots : incoming[p] = c
  BY <1>0
<1>3. \A D : DoBury(D) => c \notin D
  BY <1>2, ServerStands
<1>4. ~DoUndeliver(p)
  BY <1>0 DEF DoUndeliver
<1>5. incoming'[p] # 0
  BY <1>0, <1>1, <1>2, <1>3, <1>4, EntryLost
<1>6. p \notin bodyDone'
  BY <1>0, <1>1, MarkFrom
<1>7. QED  BY <1>5, <1>6

LEMMA OwedFollows ==
  ASSUME IInv, Unmade, Asks, Fresh, Firm, Steps, up, up', NEW p \in Local,
         Frame("REQ", p) \in Rel, Before(relayIn, Frame("REQ", p), Body(p))
  PROVE  Owed(p)'
<1>0. p \in Peers /\ p \in Served /\ p \in Requests
  BY Domains
<1>1. PICK f, b : f = Frame("REQ", p) /\ b = Body(p)
  OBVIOUS
<1>2. ReqMoves(p)
  BY <1>0, RequestMoves DEF Fresh
<1>3. CASE f \in Rel'
  <2>1. CASE relayIn' = <<>>
    BY <1>3, <2>1 DEF Rel, In
  <2>2. ASSUME NEW N, Flows(N), \A g \in N : Sent(g) PROVE Before(relayIn, f, b)'
    <3>1. f \notin N
      <4>1. requested[p] # "no"
        BY <1>0, FrameParts DEF Unmade, Clean
      <4>2. QED  BY <1>1, <2>2, <4>1, SentIs
    <3>2. QED  BY <1>1, <2>2, <3>1, FlowsOrder
  <2>3. Before(relayIn, f, b)'
    BY <2>1, <2>2, RelayFlowing DEF RelayFlow
  <2>4. PICK s : s = relayIn'
    OBVIOUS
  <2>5. QED  BY <1>1, <1>3, <2>3 DEF Owed, Body
<1>4. CASE f \notin Rel'
  <2>1. ~DoNoHandler(p)
    BY Offered DEF DoNoHandler
  <2>2. PICK c \in Slots : incoming'[p] = c /\ DoServe(p, c)
    BY <1>1, <1>2, <1>4, <2>1 DEF ReqMoves, IsServed
  <2>3. p \notin bodyDone'
    BY <1>0, <2>2 DEF DoServe, Fresh
  <2>4. incoming'[p] # 0
    BY <2>2, Domains
  <2>5. QED  BY <2>3, <2>4 DEF Owed
<1>5. QED  BY <1>3, <1>4

LEMMA StillOwed ==
  ASSUME IInv, DeadHoldNothing, Unmade, Asks, Fresh, HeldLive, Homes, DeathReal, BodyLast, BodyTrace, Firm,
         Bodies, Steps
  PROVE  Bodies'
<1>1. SUFFICES ASSUME up', NEW p \in Local, outgoing'[p] # 0, Body(p) \in Rel' PROVE Owed(p)'
  BY DEF Bodies, Body
<1>2. p \in Peers /\ p \in Requests /\ p \in Served /\ up
  BY <1>1, Domains, UpBefore
<1>3. outgoing[p] # 0
  BY <1>1, <1>2, MakerFrom, HeardAnew
<1>4. CASE Body(p) \in Rel
  <2>1. Owed(p)
    BY <1>2, <1>3, <1>4 DEF Bodies
  <2>2. CASE incoming[p] # 0 /\ p \notin bodyDone
    <3>1. incoming'[p] # 0 /\ p \notin bodyDone'
      BY <1>1, <1>2, <1>3, <1>4, <2>2, OwedServed
    <3>2. QED  BY <3>1 DEF Owed
  <2>3. CASE Frame("REQ", p) \in Rel /\ Before(relayIn, Frame("REQ", p), Body(p))
    BY <1>1, <1>2, <2>3, OwedFollows
  <2>4. QED  BY <2>1, <2>2, <2>3 DEF Owed
<1>5. CASE Body(p) \notin Rel
  <2>1. CASE relayIn' = <<>>
    BY <1>1, <2>1 DEF Rel, In
  <2>2. ASSUME NEW N, Flows(N), \A f \in N : Sent(f) PROVE Owed(p)'
    <3>1. requested[p] = "live" /\ \E c \in Slots : DoHearBody(c, p)
      BY <1>1, <1>5, <2>2, FlowsOrder, BodyComes
    <3>2. PICK c \in Slots : DoHearBody(c, p)
      BY <3>1
    <3>3. Keeps(p)
      BY <1>2, <3>1 DEF HeldLive
    <3>4. CASE Frame("REQ", p) \in Rel
      <4>1. PICK b : b = Body(p)
        OBVIOUS
      <4>2. Before(relayIn, Frame("REQ", p), b)
        BY <1>5, <4>1 DEF Before, Rel, In
      <4>3. QED  BY <1>1, <1>2, <3>4, <4>1, <4>2, OwedFollows
    <3>5. CASE incoming[p] # 0
      <4>1. Said(Body(p))
        BY <3>2, EventIs DEF DoHearBody, Said, Body
      <4>2. p \notin bodyDone
        BY <1>3, <3>1, <4>1 DEF BodyTrace, Traced
      <4>3. UNCHANGED <<incoming, bodyDone>>
        BY <3>2 DEF DoHearBody, maps
      <4>4. QED  BY <3>5, <4>2, <4>3 DEF Owed
    <3>6. QED  BY <3>3, <3>4, <3>5, Domains DEF Keeps
  <2>3. QED  BY <2>1, <2>2, RelayFlowing DEF RelayFlow
<1>6. QED  BY <1>4, <1>5

-----------------------------------------------------------------------------
(* Who waits for a peer request                                              *)
Known(c, p) == Tells(c, Frame("REQ", p)) \/ outgoing[p] = c \/ Frame("RESPONSE", p) \in Pipe(c)
Asking == up => \A c \in Slots : \A p \in proc[c].asked : Known(c, p)

\* A request that was asked for is in the queue until it is heard.
LEMMA AskHeard ==
  ASSUME IInv, EventSlots, Steps, up', NEW c \in Slots, NEW p \in Peers, Tells(c, Frame("REQ", p)),
         proc[c].state \in {"up", "hung"}, proc'[c].state \in {"up", "hung"}
  PROVE  Tells(c, Frame("REQ", p))' \/ outgoing'[p] = c
<1> USE DEF says, maps
<1>f. PICK f : f = Frame("REQ", p)
  OBVIOUS
<1>1. SUFFICES Tells(c, f)' \/ outgoing'[p] = c
  BY <1>f
<1>2. ASSUME UNCHANGED events, cart'[c].generation = cart[c].generation PROVE Tells(c, f)'
  BY <1>2, <1>f, TellsSame
<1>3. ASSUME NEW d, NEW g, Tell(d, g), UNCHANGED cart PROVE Tells(c, f)'
  BY <1>3, <1>f, TellsOn
<1>4. ASSUME Drops, UNCHANGED cart, Head(events) # Event(c, f) PROVE Tells(c, f)'
  BY <1>4, <1>f, TellsLess
<1>5. CASE \/ \E q \in Calls : DoRequest(q) \/ DoBody(q) \/ \E kind \in Kinds : DoCancelCall(q, kind)
           \/ \E q \in Peers : DoRemote(q)
           \/ \E d \in Slots : DoTake(d) \/ DoEof(d) \/ DoWriterFails(d)
  <2>1. ASSUME NEW d \in Slots, DoWriterFails(d) PROVE cart'[c].generation = cart[c].generation
    BY <2>1 DEF DoWriterFails
  <2>2. QED  BY <1>2, <1>3, <1>5, <2>1 DEF DoRequest, DoBody, DoCancelCall, DoRemote, DoTake, DoEof, DoWriterFails
<1>6. CASE \/ \E d \in Slots, q \in Peers : DoMake(d, q) \/ DoArgument(d, q)
           \/ \E d \in Slots, q \in Served : DoRespond(d, q)
  BY <1>3, <1>6 DEF DoMake, DoArgument, DoRespond
<1>7. CASE DoStop \/ DoOld
  BY <1>4, <1>7 DEF DoStop, DoOld
<1>8. CASE DoKill \/ DoAil
  <2>1. Tells(c, f)
    BY <1>f
  <2>2. QED  BY <1>8, <2>1, AilsTells DEF DoKill, DoAil
<1>9. ASSUME NEW q \in Served, NEW d \in Slots, DoServe(q, d) PROVE Tells(c, f)'
  <2>1. Tells(c, f) /\ ~(c = d /\ proc[d].state = "none")
    BY <1>f
  <2>2. QED  BY <1>9, <2>1, ServeTells
<1>10. CASE \E q \in Served : DoNoHandler(q) \/ DoCancel(q) \/ \E d \in Slots : DoServe(q, d)
  BY <1>2, <1>9, <1>10 DEF DoNoHandler, DoCancel
<1>11. CASE \E q \in Requests : DoUnrouted(q) \/ DoUndeliver(q) \/ \E d \in Slots : DoDeliver(q, d)
  BY <1>2, <1>11 DEF DoUnrouted, DoUndeliver, DoDeliver
<1>12. ASSUME NEW d \in Slots, NEW q \in Peers, DoHearRequest(d, q) PROVE Tells(c, f)' \/ outgoing'[p] = c
  <2>1. CASE Head(events) = Event(c, f)
    <3>1. d = c /\ Frame("REQ", q) = f
      BY <1>12, <2>1, EventIs DEF DoHearRequest
    <3>2. q = p
      BY <1>f, <3>1, FrameParts
    <3>3. outgoing \in [Peers -> Slots \cup {0}]
      BY Domains
    <3>4. QED  BY <1>12, <3>1, <3>2, <3>3 DEF DoHearRequest
  <2>2. CASE Head(events) # Event(c, f)
    BY <1>4, <1>12, <2>2 DEF DoHearRequest
  <2>3. QED  BY <2>1, <2>2
<1>13. ASSUME NEW d \in Slots, NEW q, DoHearBody(d, q) \/ DoHearResponse(d, q) PROVE Tells(c, f)'
  <2>1. Head(events) = Event(d, Frame("BODY", q)) \/ Head(events) = Event(d, Frame("RESPONSE", q))
    BY <1>13 DEF DoHearBody, DoHearResponse
  <2>2. Frame("BODY", q) # f /\ Frame("RESPONSE", q) # f
    BY <1>f, FrameParts
  <2>3. Head(events) # Event(c, f)
    BY <2>1, <2>2, EventIs
  <2>4. QED  BY <1>4, <1>13, <2>3 DEF DoHearBody, DoHearResponse
<1>14. ASSUME NEW D \in SUBSET Slots, DoBury(D) PROVE Tells(c, f)'
  <2>1. c \notin D
    BY <1>14 DEF DoBury, Buries
  <2>2. Event(c, f)' = Event(c, f)
    BY <1>14, <2>1 DEF DoBury, Buries, Event
  <2>3. Event(c, f).frame.kind = "REQ"
    BY <1>f, EventIs, FrameParts
  <2>4. CASE UNCHANGED events
    BY <1>f, <2>2, <2>4 DEF Tells, Ev
  <2>5. CASE Drops /\ Head(events).frame.kind = "DEATH"
    BY <1>f, <2>2, <2>3, <2>5 DEF Tells, Drops
  <2>6. QED  BY <1>14, <2>4, <2>5 DEF DoBury
<1>15. CASE \/ \E d \in Slots, q \in Peers : DoHearRequest(d, q) \/ DoHearBody(d, q)
            \/ \E d \in Slots, q \in Served : DoHearResponse(d, q)
            \/ \E D \in SUBSET Slots : DoBury(D)
  BY <1>12, <1>13, <1>14, <1>15
<1>16. QED  BY <1>5, <1>6, <1>7, <1>8, <1>10, <1>11, <1>15 DEF Steps

\* What is delivered to who made a peer request is its response.
LEMMA MakerGetsResponse ==
  ASSUME IInv, BodiesLocal, Bodies, up, NEW p \in Peers, NEW c \in Slots, DoDeliver(p, c), ~ToServer(p)
  PROVE  Frame("RESPONSE", p) \in Pipe(c)'
<1>1. /\ Head(relayIn) \in Rel /\ Pops /\ Gets(c, Head(relayIn)) /\ outgoing[p] = c
      /\ Head(relayIn) = Frame("RESPONSE", p) \/ Head(relayIn) = Body(p)
  BY DEF DoDeliver, Body
<1>2. CASE Head(relayIn) = Body(p)
  <2>1. p \in Local /\ Body(p) \in Rel /\ outgoing[p] # 0
    BY <1>1, <1>2, Domains DEF BodiesLocal, Body
  <2>2. Owed(p)
    BY <2>1 DEF Bodies
  <2>3. p \in Served
    BY <2>1, Domains
  <2>4. ~(incoming[p] # 0 /\ p \notin bodyDone)
    BY <2>3 DEF ToServer, Server, BodyFlows
  <2>5. PICK f, h : f = Frame("REQ", p) /\ h = Head(relayIn)
    OBVIOUS
  <2>6. f \in Rel /\ Before(relayIn, f, h)
    BY <1>2, <2>2, <2>4, <2>5 DEF Owed
  <2>7. f \notin Rel'
    BY <1>1, <2>5, <2>6 DEF Pops, Moved
  <2>8. f = h
    BY <1>1, <2>5, <2>6, <2>7 DEF Pops
  <2>9. QED  BY <1>2, <2>5, <2>8, FrameParts DEF Body
<1>3. CASE Head(relayIn) = Frame("RESPONSE", p)
  BY <1>1, <1>3 DEF Gets
<1>4. QED  BY <1>1, <1>2, <1>3

LEMMA MakerStays ==
  ASSUME IInv, DeadHoldNothing, Unmade, Asks, Homes, Firm, BodiesLocal, Bodies, DeathReal, Steps, up,
         NEW c \in Slots, NEW p \in Peers, outgoing[p] = c,
         proc[c].state \in {"up", "hung"}, proc'[c].state \in {"up", "hung"}
  PROVE  outgoing'[p] = c \/ Frame("RESPONSE", p) \in Pipe(c)'
<1> USE DEF says, maps
<1>0. outgoing \in [Peers -> Slots \cup {0}] /\ 0 \notin Slots
  BY Domains
<1>1. CASE UNCHANGED outgoing
  BY <1>1
<1>2. CASE \/ \E q \in Calls : DoRequest(q) \/ DoBody(q) \/ \E kind \in Kinds : DoCancelCall(q, kind)
           \/ \E q \in Peers : DoRemote(q)
           \/ \E d \in Slots : DoTake(d) \/ DoEof(d) \/ DoWriterFails(d)
           \/ \E d \in Slots, q \in Peers : DoMake(d, q) \/ DoArgument(d, q)
           \/ \E d \in Slots, q \in Served : DoRespond(d, q)
           \/ DoStop \/ DoKill \/ DoAil \/ DoOld
  BY <1>1, <1>2 DEF DoRequest, DoBody, DoCancelCall, DoRemote, DoTake, DoEof, DoWriterFails, DoMake,
       DoArgument, DoRespond, DoStop, DoKill, DoAil, DoOld, Ails
<1>3. CASE \E q \in Served : DoNoHandler(q) \/ DoCancel(q) \/ \E d \in Slots : DoServe(q, d)
  BY <1>1, <1>3 DEF DoNoHandler, DoCancel, DoServe
<1>4. ASSUME NEW q \in Requests, NEW d \in Slots, DoDeliver(q, d) PROVE outgoing'[p] = c \/ Frame("RESPONSE", p) \in Pipe(c)'
  <2>1. CASE ToServer(q)
    BY <1>1, <1>4, <2>1 DEF DoDeliver, ToMaker
  <2>2. CASE ~ToServer(q) /\ q = p
    <3>1. d = c
      BY <1>4, <2>2 DEF DoDeliver
    <3>2. QED  BY <1>4, <2>2, <3>1, MakerGetsResponse
  <2>3. CASE ~ToServer(q) /\ q # p
    BY <1>0, <1>4, <2>3 DEF DoDeliver
  <2>4. QED  BY <2>1, <2>2, <2>3
<1>5. ASSUME NEW q \in Requests, DoUndeliver(q) PROVE outgoing'[p] = c
  <2>1. CASE q = p
    <3>1. CanSend(c)
      <4>1. cart[c].running
        BY DEF IInv, Lives, RunningHasProcess
      <4>2. cart[c].writer = "open"
        BY DEF DeadHoldNothing, IInv, TypeInv, TypeOK, Cartridge
      <4>3. QED  BY <4>1, <4>2 DEF CanSend
    <3>2. p \in Served /\ incoming[p] \in Slots /\ ~CanSend(incoming[p])
      BY <1>5, <2>1, <3>1 DEF DoUndeliver
    <3>3. p \in Local
      BY <3>2, Domains DEF Served
    <3>4. QED  BY <3>2, <3>3, ServerStands
  <2>2. CASE q # p
    BY <1>0, <1>5, <2>2 DEF DoUndeliver
  <2>3. QED  BY <2>1, <2>2
<1>6. CASE \E q \in Requests : DoUnrouted(q) \/ DoUndeliver(q) \/ \E d \in Slots : DoDeliver(q, d)
  BY <1>1, <1>4, <1>5, <1>6 DEF DoUnrouted
<1>7. ASSUME NEW d \in Slots, NEW q \in Peers, DoHearRequest(d, q) PROVE outgoing'[p] = c
  <2>1. CASE q = p
    <3>1. outgoing[p] = 0
      BY <1>7, <2>1, HeardAnew DEF Clean
    <3>2. QED  BY <1>0, <3>1
  <2>2. CASE q # p
    BY <1>0, <1>7, <2>2 DEF DoHearRequest
  <2>3. QED  BY <2>1, <2>2
<1>8. ASSUME NEW D \in SUBSET Slots, DoBury(D) PROVE outgoing'[p] = c
  <2>1. c \notin D
    BY <1>8 DEF DoBury, Buries
  <2>2. p \notin Orphaned(D)
    BY <2>1 DEF Orphaned, Asked
  <2>3. QED  BY <1>8, <2>2 DEF DoBury, Buries
<1>9. CASE \/ \E d \in Slots, q \in Peers : DoHearRequest(d, q) \/ DoHearBody(d, q)
           \/ \E d \in Slots, q \in Served : DoHearResponse(d, q)
           \/ \E D \in SUBSET Slots : DoBury(D)
  BY <1>1, <1>7, <1>8, <1>9 DEF DoHearBody, DoHearResponse
<1>10. QED  BY <1>2, <1>3, <1>6, <1>9 DEF Steps

\* A response that was given is taken by who asked, and by nobody that serves
\* the request.
LEMMA ResponseStays ==
  ASSUME SteadyPeers, IInv, Homes, Steps, NEW c \in Slots, NEW p \in Peers, p \in proc[c].asked, p \in proc'[c].asked,
         Frame("RESPONSE", p) \in Pipe(c), proc'[c].state \in {"up", "hung"}
  PROVE  Frame("RESPONSE", p) \in Pipe(c)'
<1>0. ProcMoves(c)
  BY ProcMoving
<1>1. p \notin proc[c].taken
  <2>1. ASSUME p \in proc[c].taken PROVE FALSE
    <3>1. p \in Served /\ p \in Local
      BY <2>1, Domains DEF IInv, TypeInv, TypeOK, Process, Served
    <3>2. Wants[p] = Wants[Parent[p]]
      BY <2>1, <3>1 DEF Homes, Homed
    <3>3. QED  BY <3>1, <3>2 DEF SteadyPeers
  <2>2. QED  BY <2>1
<1>2. CASE DoTake(c)
  <2>1. PICK h, f : h = Head(proc[c].pipe) /\ f = Frame("RESPONSE", p)
    OBVIOUS
  <2>2. /\ Pipe(c) = {h} \cup Pipe(c)'
        /\ proc'[c].asked = IF h.kind \notin {"REQ", "CANCEL"} /\ h.req \notin proc[c].taken
                            THEN proc[c].asked \ {h.req} ELSE proc[c].asked
    BY <1>2, <2>1, TakeDoes DEF DoTake, IInv
  <2>3. h # f
    <3>1. f.kind = "RESPONSE" /\ f.req = p
      BY <2>1, FrameParts
    <3>2. QED  BY <1>1, <2>2, <3>1
  <2>4. QED  BY <2>1, <2>2, <2>3
<1>3. CASE Falls(c)
  <2>1. proc'[c].pipe = proc[c].pipe
    BY <1>3 DEF Falls
  <2>2. QED  BY <2>1 DEF Pipe
<1>4. ASSUME NEW f, Given1(c, f) \/ Gets(c, f) PROVE Pipe(c) \subseteq Pipe(c)'
  BY <1>4 DEF Given1, Gets
<1>5. ASSUME NEW r, Starts(c, r) PROVE FALSE
  BY <1>5 DEF Starts
<1>6. ASSUME NEW q, DoMake(c, q) \/ DoRespond(c, q) PROVE Pipe(c)' = Pipe(c)
  BY <1>6 DEF DoMake, DoRespond, Pipe
<1>7. QED  BY <1>0, <1>2, <1>3, <1>4, <1>5, <1>6 DEF ProcMoves

LEMMA StillAsking ==
  ASSUME SteadyPeers, IInv, EventSlots, DeadHoldNothing, DeadHoldNothing', Unmade, Asks, Homes, Firm,
         BodiesLocal, Bodies, DeathReal, Asking, Steps
  PROVE  Asking'
<1>1. SUFFICES ASSUME up', NEW c \in Slots, NEW p \in proc'[c].asked PROVE Known(c, p)'
  BY DEF Asking
<1>2. up
  BY <1>1, UpBefore
<1>3. p \in proc[c].asked \/ DoMake(c, p)
  BY AskedFrom
<1>4. CASE DoMake(c, p)
  <2>1. Tells(c, Frame("REQ", p))'
    BY <1>4, TellsOn DEF DoMake
  <2>2. QED  BY <2>1 DEF Known
<1>5. CASE p \in proc[c].asked
  <2>1. p \in Peers
    BY <1>5 DEF IInv, TypeInv, TypeOK, Process
  <2>2. proc[c].state \in {"up", "hung"} /\ proc'[c].state \in {"up", "hung"}
    BY <1>1, <1>5 DEF DeadHoldNothing
  <2>3. Known(c, p)
    BY <1>2, <1>5 DEF Asking
  <2>4. CASE Tells(c, Frame("REQ", p))
    <3>1. Tells(c, Frame("REQ", p))' \/ outgoing'[p] = c
      BY <1>1, <2>1, <2>2, <2>4, AskHeard
    <3>2. QED  BY <3>1 DEF Known
  <2>5. CASE outgoing[p] = c
    <3>1. outgoing'[p] = c \/ Frame("RESPONSE", p) \in Pipe(c)'
      BY <1>2, <2>1, <2>2, <2>5, MakerStays
    <3>2. QED  BY <3>1 DEF Known
  <2>6. CASE Frame("RESPONSE", p) \in Pipe(c)
    <3>1. Frame("RESPONSE", p) \in Pipe(c)'
      BY <1>1, <1>5, <2>1, <2>2, <2>6, ResponseStays
    <3>2. QED  BY <3>1 DEF Known
  <2>7. QED  BY <2>3, <2>4, <2>5, <2>6 DEF Known
<1>6. QED  BY <1>3, <1>4, <1>5

-----------------------------------------------------------------------------
(* Nobody is forgotten                                                       *)
Waiting ==
  /\ KillsReal /\ ResponsesOver /\ BodiesLocal /\ BodyLast /\ BodySaid /\ DeathReal
  /\ Homes /\ Firm /\ BodyTrace /\ Bodies /\ Asking
WInv == RInv /\ Waiting

LEMMA InitWaiting ==
  ASSUME SteadyPeers, Init
  PROVE  Waiting
<1>0. /\ relayIn = <<>> /\ events = <<>> /\ proc = [c \in Slots |-> NoProcess]
      /\ incoming = [r \in Served |-> 0] /\ outgoing = [p \in Peers |-> 0]
  BY DEF Init
<1>1. Rel = {} /\ Ev = {} /\ \A f, g : Before(relayIn, f, g)
  BY <1>0 DEF Rel, Ev, In, Before
<1>2. ASSUME NEW c \in Slots
      PROVE  proc[c].taken = {} /\ proc[c].asked = {} /\ Pipe(c) = {}
  BY <1>0 DEF NoProcess, Pipe, In
<1>3. ASSUME NEW c \in Slots PROVE Homed(c)
  BY <1>0, <1>2 DEF Homed, Given, Slots
<1>4. KillsReal /\ ResponsesOver /\ BodiesLocal /\ BodyLast
  BY <1>1, <1>2 DEF KillsReal, ResponsesOver, BodiesLocal, BodyLast
<1>5. BodySaid /\ DeathReal
  BY <1>1 DEF BodySaid, DeathReal, Said, Tells
<1>6. Homes /\ Firm
  BY <1>3, InitFirm DEF Homes
<1>7. ASSUME NEW p \in Local PROVE outgoing[p] = 0
  BY <1>0, LocalType
<1>8. BodyTrace /\ Bodies
  BY <1>1, <1>7 DEF BodyTrace, Traced, Bodies
<1>9. Asking
  BY <1>2 DEF Asking
<1>10. QED  BY <1>4, <1>5, <1>6, <1>8, <1>9 DEF Waiting

LEMMA WaitingKept ==
  ASSUME SteadyPeers, IInv, Routing, Routing', Waiting, [Next]_vars
  PROVE  Waiting'
<1>1. Steps
  BY StepDoes DEF Routing
<1>2. KillsReal' /\ ResponsesOver' /\ BodiesLocal' /\ BodyLast'
  BY <1>1, StillReal DEF Routing, Waiting
<1>3. BodySaid' /\ DeathReal'
  BY <1>1, StillBodySaid, StillDeathReal DEF Routing, Waiting
<1>4. Homes' /\ Firm'
  BY <1>1, StillHome, StillFirm DEF Waiting
<1>5. BodyTrace' /\ Bodies'
  BY <1>1, StillTraced, StillOwed DEF Routing, Waiting
<1>6. Asking'
  BY <1>1, StillAsking DEF Routing, Waiting
<1>7. QED  BY <1>2, <1>3, <1>4, <1>5, <1>6 DEF Waiting

LEMMA WaitingKnown ==
  ASSUME WInv
  PROVE  NobodyForgotten
<1>1. ASSUME NEW c, NEW f PROVE Heard(c, f) <=> Tells(c, f)
  BY QueuedIn DEF Heard, Tells, Ev
<1>2. \A c, f : f \in Pipe(c) <=> Queued(proc[c].pipe, f)
  BY QueuedIn DEF Pipe
<1>3. MakersKnown
  BY <1>1, <1>2 DEF MakersKnown, WInv, Waiting, Asking, Known
<1>4. QED  BY <1>3, HeldKnown DEF NobodyForgotten, WInv

\* While the host runs, a served request that was not answered is in the relay's
\* queue or on the books of its server, which holds it, has said its response or
\* is dead; and a peer request that was not answered is in the event queue, on
\* the books of who asked, or has its response in that process's pipe. The
\* second half needs SteadyPeers: when the server of a local peer request is
\* taken away, the host answers in its place, and the request's own body, which
\* still comes down the relay, then goes to who asked as if it were the response.
THEOREM NobodyForgottenAlways ==
  ASSUME SteadyPeers
  PROVE  Spec => []NobodyForgotten
<1>1. Init => WInv
  BY InitInvariant, InitRouting, InitWaiting DEF WInv, RInv
<1>2. WInv /\ RInv' /\ [Next]_vars => WInv'
  BY WaitingKept DEF WInv, RInv
<1>3. WInv => NobodyForgotten
  BY WaitingKnown
<1>4. QED  BY <1>1, <1>2, <1>3, RoutingInvariant, PTL DEF Spec

-----------------------------------------------------------------------------
(* More of what moves in a step                                              *)
LEMMA CancelsGrow ==
  ASSUME Steps
  PROVE  cancelled \subseteq cancelled'
<1> USE DEF says, maps
<1>1. CASE \/ \E q \in Calls : DoRequest(q) \/ DoBody(q) \/ \E kind \in Kinds : DoCancelCall(q, kind)
           \/ \E q \in Peers : DoRemote(q)
           \/ \E d \in Slots : DoTake(d) \/ DoEof(d) \/ DoWriterFails(d)
           \/ \E d \in Slots, q \in Peers : DoMake(d, q) \/ DoArgument(d, q)
           \/ \E d \in Slots, q \in Served : DoRespond(d, q)
           \/ DoStop \/ DoKill \/ DoAil \/ DoOld
  BY <1>1 DEF DoRequest, DoBody, DoCancelCall, DoRemote, DoTake, DoEof, DoWriterFails, DoMake,
       DoArgument, DoRespond, DoStop, DoKill, DoAil, DoOld, Ails
<1>2. CASE \/ \E q \in Served : DoNoHandler(q) \/ DoCancel(q) \/ \E d \in Slots : DoServe(q, d)
           \/ \E q \in Requests : DoUnrouted(q) \/ DoUndeliver(q) \/ \E d \in Slots : DoDeliver(q, d)
  BY <1>2 DEF DoNoHandler, DoCancel, DoServe, DoUnrouted, DoUndeliver, DoDeliver
<1>3. CASE \/ \E d \in Slots, q \in Peers : DoHearRequest(d, q) \/ DoHearBody(d, q)
           \/ \E d \in Slots, q \in Served : DoHearResponse(d, q)
           \/ \E D \in SUBSET Slots : DoBury(D)
  BY <1>3 DEF DoHearRequest, DoHearBody, DoHearResponse, DoBury, Buries
<1>4. QED  BY <1>1, <1>2, <1>3 DEF Steps

\* What a process has newly said.
TellsNew(c, f) ==
  \/ \E p \in Peers : DoMake(c, p) /\ f = Frame("REQ", p)
  \/ \E p \in Peers : DoArgument(c, p) /\ f = Frame("BODY", p)
  \/ \E r \in Served : DoRespond(c, r) /\ f = Frame("RESPONSE", r)
  \/ DoEof(c) /\ f = Death

LEMMA TellsFrom ==
  ASSUME IInv, EventSlots, Steps, NEW c \in Slots, NEW f, Tells(c, f)'
  PROVE  Tells(c, f) \/ TellsNew(c, f)
<1> USE DEF says, maps
<1>1. ASSUME UNCHANGED events, cart'[c].generation = cart[c].generation PROVE Tells(c, f)
  BY <1>1, TellsSame
<1>2. ASSUME NEW d, NEW g, Tell(d, g), UNCHANGED cart PROVE Tells(c, f) \/ (c = d /\ f = g)
  BY <1>2, TellsOn
<1>3. ASSUME Drops, UNCHANGED cart PROVE Tells(c, f)
  BY <1>3, TellsLess
<1>4. CASE \/ \E q \in Calls : DoRequest(q) \/ DoBody(q) \/ \E kind \in Kinds : DoCancelCall(q, kind)
           \/ \E q \in Peers : DoRemote(q)
  BY <1>1, <1>4 DEF DoRequest, DoBody, DoCancelCall, DoRemote
<1>5. ASSUME NEW d \in Slots, DoTake(d) \/ DoEof(d) \/ DoWriterFails(d) PROVE Tells(c, f) \/ TellsNew(c, f)
  <2>1. CASE DoWriterFails(d)
    <3>1. cart'[c].generation = cart[c].generation
      BY <2>1 DEF DoWriterFails
    <3>2. QED  BY <1>1, <2>1, <3>1 DEF DoWriterFails
  <2>2. CASE DoEof(d)
    BY <1>2, <2>2 DEF DoEof, TellsNew
  <2>3. QED  BY <1>1, <1>5, <2>1, <2>2 DEF DoTake
<1>6. ASSUME NEW d \in Slots, NEW q \in Peers, DoMake(d, q) \/ DoArgument(d, q) PROVE Tells(c, f) \/ TellsNew(c, f)
  <2>1. CASE DoMake(d, q)
    <3>1. Tells(c, f) \/ (c = d /\ f = Frame("REQ", q))
      BY <1>2, <2>1 DEF DoMake
    <3>2. QED  BY <2>1, <3>1 DEF TellsNew
  <2>2. CASE DoArgument(d, q)
    <3>1. Tells(c, f) \/ (c = d /\ f = Frame("BODY", q))
      BY <1>2, <2>2 DEF DoArgument
    <3>2. QED  BY <2>2, <3>1 DEF TellsNew
  <2>3. QED  BY <1>6, <2>1, <2>2
<1>7. ASSUME NEW d \in Slots, NEW q \in Served, DoRespond(d, q) PROVE Tells(c, f) \/ TellsNew(c, f)
  <2>1. Tells(c, f) \/ (c = d /\ f = Frame("RESPONSE", q))
    BY <1>2, <1>7 DEF DoRespond
  <2>2. QED  BY <1>7, <2>1 DEF TellsNew
<1>8. CASE DoStop
  BY <1>8 DEF DoStop, Tells
<1>9. CASE DoKill \/ DoAil
  BY <1>9, AilsTells DEF DoKill, DoAil
<1>10. CASE DoOld
  BY <1>3, <1>10 DEF DoOld
<1>11. CASE \E q \in Served : DoNoHandler(q) \/ DoCancel(q) \/ \E d \in Slots : DoServe(q, d)
  BY <1>1, <1>11, ServeTells DEF DoNoHandler, DoCancel
<1>12. CASE \E q \in Requests : DoUnrouted(q) \/ DoUndeliver(q) \/ \E d \in Slots : DoDeliver(q, d)
  BY <1>1, <1>12 DEF DoUnrouted, DoUndeliver, DoDeliver
<1>13. CASE \/ \E d \in Slots, q \in Peers : DoHearRequest(d, q) \/ DoHearBody(d, q)
            \/ \E d \in Slots, q \in Served : DoHearResponse(d, q)
  BY <1>3, <1>13 DEF DoHearRequest, DoHearBody, DoHearResponse
<1>14. CASE \E D \in SUBSET Slots : DoBury(D)
  BY <1>14, BuryTells
<1>15. QED  BY <1>4, <1>5, <1>6, <1>7, <1>8, <1>9, <1>10, <1>11, <1>12, <1>13, <1>14 DEF Steps

\* What becomes of the slots' processes, from nothing and to nothing.
LEMMA StateMoves ==
  ASSUME IInv, Steps, NEW c \in Slots
  PROVE  /\ proc'[c].state = "none" /\ up' => proc[c].state = "none" \/ \E D \in SUBSET Slots : DoBury(D) /\ c \in D
         /\ proc[c].state = "none" /\ proc'[c].state # "none" => \E r \in Served : DoServe(r, c)
<1> USE DEF says, maps
<1>1. CASE UNCHANGED proc[c].state
  BY <1>1
<1>2. CASE \/ \E q \in Calls : DoRequest(q) \/ DoBody(q) \/ \E kind \in Kinds : DoCancelCall(q, kind)
           \/ \E p \in Peers : DoRemote(p)
           \/ \E d \in Slots, p \in Peers : DoMake(d, p) \/ DoArgument(d, p)
           \/ \E d \in Slots, q \in Served : DoRespond(d, q)
  BY <1>1, <1>2 DEF DoRequest, DoBody, DoCancelCall, DoRemote, DoMake, DoArgument, DoRespond
<1>3. ASSUME NEW d \in Slots, DoTake(d) \/ DoEof(d) \/ DoWriterFails(d) PROVE UNCHANGED proc[c].state
                                                   \/ (proc[c].state # "none" /\ proc'[c].state # "none")
  <2>1. CASE DoTake(d)
    BY <2>1, TakeDoes DEF DoTake, IInv
  <2>2. QED  BY <1>3, <2>1 DEF DoEof, DoWriterFails
<1>4. CASE DoStop \/ DoKill \/ DoAil \/ DoOld
  BY <1>4 DEF DoStop, DoKill, DoAil, DoOld, Ails
<1>5. ASSUME NEW d \in Slots, NEW f, Gets(d, f) PROVE UNCHANGED proc[c].state
  BY <1>5 DEF Gets
<1>6. ASSUME NEW q \in Served, NEW d \in Slots, DoServe(q, d) PROVE UNCHANGED proc[c].state
                                                   \/ (proc'[c].state # "none" /\ DoServe(q, c))
  BY <1>5, <1>6 DEF DoServe
<1>7. CASE \E q \in Served : DoNoHandler(q) \/ DoCancel(q) \/ \E d \in Slots : DoServe(q, d)
  BY <1>5, <1>6, <1>7 DEF DoNoHandler, DoCancel
<1>8. CASE \E q \in Requests : DoUnrouted(q) \/ DoUndeliver(q) \/ \E d \in Slots : DoDeliver(q, d)
  BY <1>5, <1>8 DEF DoUnrouted, DoUndeliver, DoDeliver
<1>9. CASE \/ \E d \in Slots, p \in Peers : DoHearRequest(d, p) \/ DoHearBody(d, p)
           \/ \E d \in Slots, q \in Served : DoHearResponse(d, q)
  BY <1>9 DEF DoHearRequest, DoHearBody, DoHearResponse
<1>10. ASSUME NEW D \in SUBSET Slots, DoBury(D) PROVE IF c \in D THEN proc'[c].state = "none" ELSE UNCHANGED proc[c].state
  BY <1>10 DEF DoBury, Buries
<1>11. QED  BY <1>2, <1>3, <1>4, <1>7, <1>8, <1>9, <1>10 DEF Steps

\* The maker of a peer request, and the links, come from its being heard of.
LEMMA MakerMoves ==
  ASSUME IInv, Steps, NEW p \in Peers
  PROVE  outgoing'[p] \in {0, outgoing[p]} \/ \E c \in Slots : DoHearRequest(c, p) /\ outgoing'[p] = c
<1> USE DEF says, maps
<1>0. outgoing \in [Peers -> Slots \cup {0}]
  BY Domains
<1>1. CASE UNCHANGED outgoing
  BY <1>1
<1>2. CASE \/ \E q \in Calls : DoRequest(q) \/ DoBody(q) \/ \E kind \in Kinds : DoCancelCall(q, kind)
           \/ \E q \in Peers : DoRemote(q)
           \/ \E d \in Slots : DoTake(d) \/ DoEof(d) \/ DoWriterFails(d)
           \/ \E d \in Slots, q \in Peers : DoMake(d, q) \/ DoArgument(d, q)
           \/ \E d \in Slots, q \in Served : DoRespond(d, q)
           \/ DoStop \/ DoKill \/ DoAil \/ DoOld
  BY <1>1, <1>2 DEF DoRequest, DoBody, DoCancelCall, DoRemote, DoTake, DoEof, DoWriterFails, DoMake,
       DoArgument, DoRespond, DoStop, DoKill, DoAil, DoOld, Ails
<1>3. CASE \E q \in Served : DoNoHandler(q) \/ DoCancel(q) \/ \E d \in Slots : DoServe(q, d)
  BY <1>1, <1>3 DEF DoNoHandler, DoCancel, DoServe
<1>4. ASSUME NEW q \in Requests, DoUnrouted(q) \/ DoUndeliver(q) \/ \E d \in Slots : DoDeliver(q, d)
      PROVE  outgoing'[p] \in {0, outgoing[p]}
  BY <1>0, <1>4 DEF DoUnrouted, DoUndeliver, DoDeliver
<1>5. ASSUME NEW d \in Slots, NEW q \in Peers, DoHearRequest(d, q)
      PROVE  outgoing'[p] = outgoing[p] \/ (DoHearRequest(d, p) /\ outgoing'[p] = d)
  BY <1>0, <1>5 DEF DoHearRequest
<1>6. CASE \/ \E d \in Slots, q \in Peers : DoHearRequest(d, q) \/ DoHearBody(d, q)
           \/ \E d \in Slots, q \in Served : DoHearResponse(d, q)
  BY <1>1, <1>5, <1>6 DEF DoHearBody, DoHearResponse
<1>7. ASSUME NEW D \in SUBSET Slots, DoBury(D) PROVE outgoing'[p] \in {0, outgoing[p]}
  BY <1>0, <1>7 DEF DoBury, Buries
<1>8. QED  BY <1>2, <1>3, <1>4, <1>6, <1>7 DEF Steps

LEMMA LinksFrom ==
  ASSUME Steps, NEW l \in links'
  PROVE  l \in links \/ \E p \in Peers : l = <<Parent[p], p>>
<1> USE DEF says, maps
<1>1. CASE \/ \E q \in Calls : DoRequest(q) \/ DoBody(q) \/ \E kind \in Kinds : DoCancelCall(q, kind)
           \/ \E q \in Peers : DoRemote(q)
           \/ \E d \in Slots : DoTake(d) \/ DoEof(d) \/ DoWriterFails(d)
           \/ \E d \in Slots, q \in Peers : DoMake(d, q) \/ DoArgument(d, q)
           \/ \E d \in Slots, q \in Served : DoRespond(d, q)
           \/ DoStop \/ DoKill \/ DoAil \/ DoOld
  BY <1>1 DEF DoRequest, DoBody, DoCancelCall, DoRemote, DoTake, DoEof, DoWriterFails, DoMake,
       DoArgument, DoRespond, DoStop, DoKill, DoAil, DoOld, Ails
<1>2. CASE \/ \E q \in Served : DoNoHandler(q) \/ DoCancel(q) \/ \E d \in Slots : DoServe(q, d)
           \/ \E q \in Requests : DoUnrouted(q) \/ DoUndeliver(q) \/ \E d \in Slots : DoDeliver(q, d)
  BY <1>2 DEF DoNoHandler, DoCancel, DoServe, DoUnrouted, DoUndeliver, DoDeliver
<1>3. CASE \/ \E d \in Slots, q \in Peers : DoHearRequest(d, q) \/ DoHearBody(d, q)
           \/ \E d \in Slots, q \in Served : DoHearResponse(d, q)
           \/ \E D \in SUBSET Slots : DoBury(D)
  BY <1>3 DEF DoHearRequest, DoHearBody, DoHearResponse, DoBury, Buries
<1>4. QED  BY <1>1, <1>2, <1>3 DEF Steps

\* What is said somewhere, of any process of any slot.
LEMMA ResponseSaidBy ==
  ASSUME Steps, NEW r, Said(Frame("RESPONSE", r))', ~Said(Frame("RESPONSE", r))
  PROVE  \E c \in Slots : DoRespond(c, r)
<1> USE DEF says, maps
<1>f. PICK f : f = Frame("RESPONSE", r)
  OBVIOUS
<1>0. ~Said(f) /\ Said(f)'
  BY <1>f
<1>1. CASE Ev' \subseteq Ev
  BY <1>0, <1>1 DEF Said
<1>2. ASSUME NEW c, NEW g, Tell(c, g), f # g PROVE FALSE
  BY <1>0, <1>2, EventIs DEF Tell, Said
<1>3. \A q : /\ Frame("REQ", q) # f /\ Frame("BODY", q) # f /\ Death # f
             /\ Frame("RESPONSE", q) = f => q = r
  BY <1>f, FrameParts DEF Death
<1>4. CASE UNCHANGED events
  BY <1>1, <1>4 DEF Ev
<1>5. CASE \/ \E q \in Calls : DoRequest(q) \/ DoBody(q) \/ \E kind \in Kinds : DoCancelCall(q, kind)
           \/ \E p \in Peers : DoRemote(p)
           \/ \E d \in Slots : DoTake(d) \/ DoEof(d) \/ DoWriterFails(d)
  BY <1>2, <1>3, <1>4, <1>5 DEF DoRequest, DoBody, DoCancelCall, DoRemote, DoTake, DoEof, DoWriterFails
<1>6. CASE \/ \E d \in Slots, q \in Peers : DoMake(d, q) \/ DoArgument(d, q)
           \/ \E d \in Slots, q \in Served : DoRespond(d, q)
  <2>1. ASSUME NEW d \in Slots, NEW q \in Peers PROVE ~DoMake(d, q) /\ ~DoArgument(d, q)
    BY <1>2, <1>3 DEF DoMake, DoArgument
  <2>2. PICK d \in Slots, q \in Served : DoRespond(d, q)
    BY <1>6, <2>1
  <2>3. q = r
    BY <1>2, <1>3, <2>2 DEF DoRespond
  <2>4. QED  BY <2>2, <2>3
<1>7. CASE DoStop \/ DoKill \/ DoAil \/ DoOld
  BY <1>1, <1>4, <1>7 DEF DoStop, DoKill, DoAil, DoOld, Ails, Drops
<1>8. CASE \/ \E q \in Served : DoNoHandler(q) \/ DoCancel(q) \/ \E d \in Slots : DoServe(q, d)
           \/ \E q \in Requests : DoUnrouted(q) \/ DoUndeliver(q) \/ \E d \in Slots : DoDeliver(q, d)
  BY <1>4, <1>8 DEF DoNoHandler, DoCancel, DoServe, DoUnrouted, DoUndeliver, DoDeliver
<1>9. CASE \/ \E d \in Slots, q \in Peers : DoHearRequest(d, q) \/ DoHearBody(d, q)
           \/ \E d \in Slots, q \in Served : DoHearResponse(d, q)
           \/ \E D \in SUBSET Slots : DoBury(D)
  BY <1>1, <1>4, <1>9 DEF DoHearRequest, DoHearBody, DoHearResponse, DoBury, Drops
<1>10. QED  BY <1>5, <1>6, <1>7, <1>8, <1>9 DEF Steps

\* How a request that was made ceases to be live here, or away.
OverBy(r) ==
  \/ requested[r] = "away" /\ r \in Peers /\ DoRemote(r)
  \/ r \in Served /\ DoNoHandler(r)
  \/ DoUndeliver(r)
  \/ \E c \in Slots : DoHearResponse(c, r)
  \/ \E D \in SUBSET Slots : DoBury(D) /\ r \in Lost(D)

LEMMA OverMoves ==
  ASSUME IInv, Asks, Steps, NEW r \in Requests, requested[r] \in {"live", "away"}
  PROVE  requested'[r] = requested[r] \/ (requested'[r] = "over" /\ OverBy(r))
<1> USE DEF says, maps
<1>0. requested \in [Requests -> {"no", "live", "away", "over"}] /\ Calls \subseteq Requests /\ Peers \subseteq Requests
  BY Domains
<1>1. ASSUME NEW R, Answer(R), requested'[r] # requested[r] PROVE r \in R /\ requested'[r] = "over"
  BY <1>1, AnswerDoes
<1>2. CASE UNCHANGED requested
  BY <1>2
<1>3. CASE \/ \E c \in Slots : DoTake(c) \/ DoEof(c) \/ DoWriterFails(c)
           \/ \E c \in Slots, p \in Peers : DoMake(c, p) \/ DoArgument(c, p)
           \/ \E c \in Slots, q \in Served : DoRespond(c, q)
           \/ DoStop \/ DoKill \/ DoAil \/ DoOld
  BY <1>2, <1>3 DEF DoTake, DoEof, DoWriterFails, DoMake, DoArgument, DoRespond, DoStop, DoKill,
       DoAil, DoOld, Ails
<1>4. CASE \E q \in Calls : DoRequest(q) \/ DoBody(q) \/ \E kind \in Kinds : DoCancelCall(q, kind)
  BY <1>0, <1>2, <1>4 DEF DoRequest, DoBody, DoCancelCall
<1>5. ASSUME NEW p \in Peers, DoRemote(p) PROVE requested'[r] = requested[r] \/ (requested'[r] = "over" /\ OverBy(r))
  <2>1. CASE p = r
    <3>1. requested'[r] = "over" /\ requested[r] = "away"
      BY <1>0, <1>5, <2>1 DEF DoRemote
    <3>2. QED  BY <1>5, <2>1, <3>1 DEF OverBy
  <2>2. CASE p # r
    BY <1>0, <1>5, <2>2 DEF DoRemote
  <2>3. QED  BY <2>1, <2>2
<1>6. ASSUME NEW q \in Served, DoNoHandler(q) PROVE requested'[r] = requested[r] \/ (requested'[r] = "over" /\ OverBy(r))
  <2>1. Answer({q})
    BY <1>6 DEF DoNoHandler
  <2>2. QED  BY <1>1, <1>6, <2>1 DEF OverBy
<1>7. CASE \E q \in Served : DoNoHandler(q) \/ DoCancel(q) \/ \E d \in Slots : DoServe(q, d)
  BY <1>2, <1>6, <1>7 DEF DoCancel, DoServe
<1>8. ASSUME NEW q \in Requests, DoUndeliver(q) PROVE requested'[r] = requested[r] \/ (requested'[r] = "over" /\ OverBy(r))
  <2>1. Answer({q})
    BY <1>8 DEF DoUndeliver
  <2>2. QED  BY <1>1, <1>8, <2>1 DEF OverBy
<1>9. CASE \E q \in Requests : DoUnrouted(q) \/ DoUndeliver(q) \/ \E d \in Slots : DoDeliver(q, d)
  BY <1>2, <1>8, <1>9 DEF DoUnrouted, DoDeliver
<1>10. ASSUME NEW d \in Slots, NEW p \in Peers, DoHearRequest(d, p) PROVE requested'[r] = requested[r]
  <2>1. requested[p] = "no"
    BY <1>10, EventIs DEF DoHearRequest, Asks, Said
  <2>2. p # r
    BY <2>1
  <2>3. QED  BY <1>0, <1>10, <2>2 DEF DoHearRequest
<1>11. CASE \E d \in Slots, p \in Peers : DoHearRequest(d, p) \/ DoHearBody(d, p)
  BY <1>2, <1>10, <1>11 DEF DoHearBody
<1>12. ASSUME NEW d \in Slots, NEW q \in Served, DoHearResponse(d, q)
       PROVE  requested'[r] = requested[r] \/ (requested'[r] = "over" /\ OverBy(r))
  <2>1. Answer({q})
    BY <1>12 DEF DoHearResponse
  <2>2. QED  BY <1>1, <1>12, <2>1 DEF OverBy
<1>13. ASSUME NEW D \in SUBSET Slots, DoBury(D) PROVE requested'[r] = requested[r] \/ (requested'[r] = "over" /\ OverBy(r))
  <2>1. Answer(Lost(D))
    BY <1>13 DEF DoBury, Buries
  <2>2. QED  BY <1>1, <1>13, <2>1 DEF OverBy
<1>14. QED  BY <1>3, <1>4, <1>5, <1>7, <1>9, <1>11, <1>12, <1>13 DEF Steps

LEMMA BecomesAway ==
  ASSUME IInv, Asks, Steps, NEW p \in Peers, requested'[p] = "away", requested[p] # "away"
  PROVE  requested[p] = "no" /\ \E c \in Slots : DoHearRequest(c, p)
<1>0. p \in Requests /\ p \notin Calls /\ requested[p] \in {"no", "live", "away", "over"}
  BY Domains
<1>1. requested[p] # "live" /\ requested[p] # "over"
  BY <1>0, OverMoves, OverStays
<1>2. QED  BY <1>0, <1>1, MadeBy

\* The body of a served request is taken for ended, or it is not served: that
\* stays, until it is served anew.
Ended(r) == r \in bodyDone \/ incoming[r] = 0

LEMMA EndedStays ==
  ASSUME IInv, Steps, NEW r \in Served, Ended(r), ~IsServed(r)
  PROVE  r \in bodyDone' \/ incoming'[r] = 0
<1> USE DEF says, maps
<1>0. incoming \in [Served -> Slots \cup {0}]
  BY Domains
<1>1. CASE r \notin bodyDone
  BY <1>1, EntriesMove DEF Enters, Ended
<1>2. CASE r \in bodyDone
  <2>1. CASE bodyDone \subseteq bodyDone'
    BY <1>2, <2>1
  <2>2. CASE \/ \E q \in Calls : DoRequest(q) \/ DoBody(q) \/ \E kind \in Kinds : DoCancelCall(q, kind)
             \/ \E p \in Peers : DoRemote(p)
             \/ \E d \in Slots : DoTake(d) \/ DoEof(d) \/ DoWriterFails(d)
             \/ \E d \in Slots, q \in Peers : DoMake(d, q) \/ DoArgument(d, q)
             \/ \E d \in Slots, q \in Served : DoRespond(d, q)
             \/ DoStop \/ DoKill \/ DoAil \/ DoOld
    BY <2>1, <2>2 DEF DoRequest, DoBody, DoCancelCall, DoRemote, DoTake, DoEof, DoWriterFails, DoMake,
         DoArgument, DoRespond, DoStop, DoKill, DoAil, DoOld, Ails
  <2>3. CASE \E q \in Served : DoNoHandler(q) \/ DoCancel(q) \/ \E d \in Slots : DoServe(q, d)
    BY <2>1, <2>3 DEF DoNoHandler, DoCancel, DoServe
  <2>4. ASSUME NEW q \in Requests, DoUnrouted(q) \/ DoUndeliver(q) \/ \E d \in Slots : DoDeliver(q, d)
        PROVE  r \in bodyDone' \/ incoming'[r] = 0
    BY <1>0, <1>2, <2>4 DEF DoUnrouted, DoUndeliver, DoDeliver
  <2>5. ASSUME NEW d \in Slots, NEW q \in Served, DoHearResponse(d, q) PROVE r \in bodyDone' \/ incoming'[r] = 0
    BY <1>0, <1>2, <2>5 DEF DoHearResponse, Release
  <2>6. CASE \E d \in Slots, q \in Peers : DoHearRequest(d, q) \/ DoHearBody(d, q)
    BY <2>1, <2>6 DEF DoHearRequest, DoHearBody
  <2>7. ASSUME NEW D \in SUBSET Slots, DoBury(D) PROVE r \in bodyDone' \/ incoming'[r] = 0
    BY <1>0, <1>2, <2>7 DEF DoBury, Buries
  <2>8. QED  BY <2>2, <2>3, <2>4, <2>5, <2>6, <2>7 DEF Steps
<1>3. QED  BY <1>1, <1>2

\* What a process is told, and the bodies that have ended, come from its input.
LEMMA ToldFrom ==
  ASSUME IInv, Steps, NEW c \in Slots, NEW r \in proc'[c].told
  PROVE  r \in proc[c].told \/ Frame("CANCEL", r) \in Pipe(c)
<1>0. ProcMoves(c)
  BY ProcMoving
<1>1. CASE DoTake(c)
  <2>1. PICK h : h = Head(proc[c].pipe)
    OBVIOUS
  <2>2. /\ h \in Frames /\ h \in Pipe(c)
        /\ proc'[c].told = IF h.kind = "CANCEL" THEN proc[c].told \cup ({h.req} \cap proc[c].taken) ELSE proc[c].told
    BY <1>1, <2>1, TakeDoes DEF DoTake, IInv
  <2>3. h = Frame(h.kind, h.req)
    BY <2>2, FrameIs
  <2>4. QED  BY <2>2, <2>3
<1>2. CASE ~DoTake(c)
  <2>1. proc'[c].told \subseteq proc[c].told
    BY <1>0, <1>2 DEF ProcMoves, Falls, Given1, Gets, Starts, DoMake, DoRespond
  <2>2. QED  BY <2>1
<1>3. QED  BY <1>1, <1>2

LEMMA EndedFrom ==
  ASSUME IInv, Steps, NEW c \in Slots, NEW r \in proc'[c].ended, r \notin proc[c].ended
  PROVE  /\ DoTake(c) /\ r \in proc[c].taken
         /\ \E kind \in {"BODY", "RESPONSE", "KILL"} : Frame(kind, r) \in Pipe(c)
<1>0. ProcMoves(c)
  BY ProcMoving
<1>1. CASE DoTake(c)
  <2>1. PICK h : h = Head(proc[c].pipe)
    OBVIOUS
  <2>2. /\ h \in Frames /\ h \in Pipe(c)
        /\ proc'[c].ended = IF h.kind \notin {"REQ", "CANCEL"} /\ h.req \in proc[c].taken
                            THEN proc[c].ended \cup {h.req} ELSE proc[c].ended
    BY <1>1, <2>1, TakeDoes DEF DoTake, IInv
  <2>3. h = Frame(h.kind, h.req) /\ h.kind \in {"REQ", "CANCEL", "KILL", "BODY", "RESPONSE"}
    BY <2>2, FrameIs DEF Frames
  <2>4. QED  BY <1>1, <2>2, <2>3
<1>2. CASE ~DoTake(c)
  <2>1. proc'[c].ended \subseteq proc[c].ended
    BY <1>0, <1>2 DEF ProcMoves, Falls, Given1, Gets, Starts, DoMake, DoRespond
  <2>2. QED  BY <2>1
<1>3. QED  BY <1>1, <1>2

\* A frame that is given only when it is not in a process' input is there once.
LEMMA PipeOnce ==
  ASSUME IInv, Steps, NEW c \in Slots, NEW f, Before(proc[c].pipe, f, f), Given2(c, f) => f \notin Pipe(c)
  PROVE  Before(proc[c].pipe, f, f)'
<1>0. ProcMoves(c)
  BY ProcMoving
<1>1. CASE Falls(c)
  <2>1. CASE proc'[c].pipe = proc[c].pipe
    BY <2>1 DEF Before
  <2>2. CASE proc'[c].pipe = <<>>
    BY <2>2 DEF Before
  <2>3. QED  BY <1>1, <2>1, <2>2 DEF Falls
<1>2. CASE DoTake(c)
  <2>1. PICK h : h = Head(proc[c].pipe)
    OBVIOUS
  <2>2. Moved(proc[c].pipe, proc'[c].pipe, {h}, Pipe(c)', {})
    BY <1>2, <2>1, TakeDoes DEF DoTake, IInv
  <2>3. QED  BY <2>2 DEF Moved, Fits
<1>3. ASSUME NEW g, Gets(c, g), g = f => f \notin Pipe(c) PROVE Before(proc[c].pipe, f, f)'
  BY <1>3 DEF Gets, Moved, Fits
<1>4. ASSUME NEW g, Given1(c, g) PROVE Before(proc[c].pipe, f, f)'
  <2>1. g = f => Given2(c, f)
    BY <1>4 DEF Given1, Given2, DoDeliver
  <2>2. QED  BY <1>3, <1>4, <2>1 DEF Given1
<1>5. ASSUME NEW r \in Served, DoServe(r, c), Gets(c, Frame("REQ", r)) PROVE Before(proc[c].pipe, f, f)'
  <2>1. Frame("REQ", r) = f => Given2(c, f)
    BY <1>5 DEF Given2, DoServe, Pops
  <2>2. QED  BY <1>3, <1>5, <2>1
<1>6. ASSUME NEW r, Starts(c, r) PROVE Before(proc[c].pipe, f, f)'
  <2>1. Before(<<>>, f, f)
    BY DEF Before
  <2>2. QED  BY <1>6, <2>1 DEF Starts, Moved, Fits
<1>7. ASSUME NEW q, DoMake(c, q) \/ DoRespond(c, q) PROVE Before(proc[c].pipe, f, f)'
  BY <1>7 DEF DoMake, DoRespond, Before
<1>8. QED  BY <1>0, <1>1, <1>2, <1>4, <1>5, <1>6, <1>7 DEF ProcMoves

\* What is at the head of the relay's stream, for who made a peer request, is
\* not its body.
LEMMA MakerHead ==
  ASSUME IInv, BodiesLocal, Bodies, up, NEW p \in Peers, outgoing[p] # 0, ~ToServer(p),
         Head(relayIn) = Body(p), Body(p) \in Rel, NEW N, Pops \/ PopsAndGrows(N)
  PROVE  FALSE
<1>1. p \in Local /\ p \in Served
  BY Domains DEF BodiesLocal, Body, Served
<1>2. Owed(p)
  BY <1>1 DEF Bodies
<1>3. ~(incoming[p] # 0 /\ p \notin bodyDone)
  BY <1>1 DEF ToServer, Server, BodyFlows
<1>4. PICK f, h : f = Frame("REQ", p) /\ h = Head(relayIn)
  OBVIOUS
<1>5. f \in Rel /\ Before(relayIn, f, h)
  BY <1>2, <1>3, <1>4 DEF Owed
<1>6. CASE Pops
  <2>1. f \notin Rel'
    BY <1>4, <1>5, <1>6 DEF Pops, Moved
  <2>2. f = h
    BY <1>4, <1>5, <1>6, <2>1 DEF Pops
  <2>3. QED  BY <1>4, <2>2, FrameParts DEF Body
<1>7. CASE PopsAndGrows(N)
  <2>1. f \notin In(Tail(relayIn))
    BY <1>4, <1>5, <1>7 DEF PopsAndGrows, Moved
  <2>2. f = h
    BY <1>4, <1>5, <1>7, <2>1 DEF PopsAndGrows
  <2>3. QED  BY <1>4, <2>2, FrameParts DEF Body
<1>8. QED  BY <1>6, <1>7

-----------------------------------------------------------------------------
(* Cancels, and what processes that are not there have left                  *)
Runs(c) == proc[c].state \in {"up", "hung"}
\* A peer request whose call is not cancelled; a request that may be cancelled.
Sound(p) == Parent[p] \notin cancelled
Void(r) == IF r \in Calls THEN r \in cancelled ELSE Parent[r] \in cancelled

\* A host that is down has no processes, no process is sent a kill, and it ends
\* the body of what it has taken.
Shut == ~up => \A c \in Slots : proc[c].state = "none"
NoKills == \A c \in Slots : \A r : Frame("KILL", r) \notin Pipe(c)
EndedTaken == \A c \in Slots : proc[c].ended \subseteq proc[c].taken

\* No event of a process that is yet to be spawned is on its way, and no request
\* that it made is on the books.
Makers ==
  up => \A c \in Slots : proc[c].state = "none" =>
          /\ \A f : ~Tells(c, f)
          /\ \A p \in Peers : outgoing[p] # c

\* The body of a peer request is only given to who serves the request.
BodyHome ==
  up => \A c \in Slots : \A p \in Peers : Body(p) \in Pipe(c) => p \in Local /\ cart[c].install = Wants[p]

\* A cancel, at any point of its way, is for a call that was cancelled or a peer
\* request of such a call.
Linked == \A l \in links : \E p \in Peers : l = <<Parent[p], p>>
CancelsReal ==
  \A r \in Served :
    Frame("CANCEL", r) \in Rel \/ (\E c \in Slots : Frame("CANCEL", r) \in Pipe(c) \/ r \in proc[c].told)
      => Void(r)

LEMMA StillShut ==
  ASSUME DeadHoldNothing, Shut, Steps, [Next]_vars
  PROVE  Shut'
<1>1. SUFFICES ASSUME ~up', NEW c \in Slots PROVE proc'[c].state = "none"
  BY DEF Shut
<1>2. CASE up
  <2>1. DoStop
    <3>1. ~UNCHANGED up
      BY <1>1, <1>2
    <3>2. QED
      BY <3>1 DEF Steps, DoRequest, DoBody, DoCancelCall, DoRemote, DoTake, DoEof, DoWriterFails, DoMake,
         DoArgument, DoRespond, DoKill, DoAil, DoOld, Ails, DoNoHandler, DoCancel, DoServe, DoUnrouted,
         DoUndeliver, DoDeliver, DoHearRequest, DoHearBody, DoHearResponse, DoBury, Buries
  <2>2. QED  BY <2>1 DEF DoStop
<1>3. CASE ~up
  <2>1. UNCHANGED vars
    BY <1>3 DEF Next, RelayStep, EventStep, Timers, Outside, ProcessStep, NoHandler, Serve, ServeFails,
       CancelRequest, ForceKill, Unrouted, Deliver, Undeliverable, Terminal, Takes, OldEvent, HearRequest,
       HearBody, HearResponse, HearDeath, Hears, HeartbeatTick, ReapDrained, TakeFrame, ReaderEof, WriterFails,
       AnswerProbe, MakePeer, EndArgument, Respond, EngineRequest, EngineBody, EngineCancel, RemoteAnswers,
       Crash, Hang, ProbeLate, KillCartridge, DrainExpires, SyncRoster
  <2>2. QED  BY <1>3, <2>1 DEF Shut, vars
<1>4. QED  BY <1>2, <1>3

LEMMA StillNoKills ==
  ASSUME IInv, NoKills, Steps
  PROVE  NoKills'
<1>1. SUFFICES ASSUME NEW c \in Slots, NEW r, Frame("KILL", r) \in Pipe(c)' PROVE FALSE
  BY DEF NoKills
<1>2. Given2(c, Frame("KILL", r))
  BY <1>1, PipeGains DEF NoKills
<1>3. ASSUME NEW k, NEW q, Frame("KILL", r) = Frame(k, q) PROVE k = "KILL"
  BY <1>3, FrameParts
<1>4. QED  BY <1>2, <1>3 DEF Given2, DoDeliver

LEMMA StillEnded ==
  ASSUME IInv, DeadHoldNothing', EndedTaken, Steps
  PROVE  EndedTaken'
<1>1. SUFFICES ASSUME NEW c \in Slots PROVE proc'[c].ended \subseteq proc'[c].taken
  BY DEF EndedTaken
<1>2. ProcMoves(c) /\ proc[c].ended \subseteq proc[c].taken
  BY ProcMoving DEF EndedTaken
<1>3. CASE Falls(c)
  <2>1. CASE proc'[c].state \in {"up", "hung"}
    BY <1>2, <1>3, <2>1 DEF Falls
  <2>2. CASE proc'[c].state \notin {"up", "hung"}
    BY <2>2 DEF DeadHoldNothing
  <2>3. QED  BY <2>1, <2>2
<1>4. CASE DoTake(c)
  <2>1. PICK h : h = Head(proc[c].pipe)
    OBVIOUS
  <2>2. /\ proc'[c].taken = IF h.kind = "REQ" THEN proc[c].taken \cup {h.req} ELSE proc[c].taken
        /\ proc'[c].ended = IF h.kind \notin {"REQ", "CANCEL"} /\ h.req \in proc[c].taken
                            THEN proc[c].ended \cup {h.req} ELSE proc[c].ended
    BY <1>4, <2>1, TakeDoes DEF DoTake, IInv
  <2>3. QED  BY <1>2, <2>2
<1>5. QED  BY <1>2, <1>3, <1>4 DEF ProcMoves, Given1, Gets, Starts, DoMake, DoRespond

LEMMA StillMakers ==
  ASSUME IInv, EventSlots, Makers, Steps
  PROVE  Makers'
<1>0. outgoing \in [Peers -> Slots \cup {0}] /\ 0 \notin Slots
  BY Domains
<1>1. SUFFICES ASSUME up', NEW c \in Slots, proc'[c].state = "none"
      PROVE  (\A f : ~Tells(c, f)') /\ \A p \in Peers : outgoing'[p] # c
  BY DEF Makers
<1>2. up
  BY <1>1, UpBefore
<1>3. ASSUME NEW D \in SUBSET Slots, DoBury(D), c \in D
      PROVE  (\A f : ~Tells(c, f)') /\ \A p \in Peers : outgoing'[p] # c
  <2>1. \A f : ~Tells(c, f)'
    BY <1>3, BuryTells
  <2>2. \A p \in Peers : outgoing'[p] # c
    BY <1>0, <1>3 DEF DoBury, Buries, Orphaned, Asked
  <2>3. QED  BY <2>1, <2>2
<1>4. CASE proc[c].state = "none"
  <2>1. (\A f : ~Tells(c, f)) /\ \A p \in Peers : outgoing[p] # c
    BY <1>2, <1>4 DEF Makers
  <2>2. ASSUME NEW f, Tells(c, f)' PROVE FALSE
    <3>1. TellsNew(c, f)
      BY <2>1, <2>2, TellsFrom
    <3>2. QED
      BY <1>4, <3>1 DEF TellsNew, DoMake, MakePeer, DoArgument, DoRespond, Respond, DoEof, Alive
  <2>3. ASSUME NEW p \in Peers, outgoing'[p] = c PROVE FALSE
    <3>1. PICK d \in Slots : DoHearRequest(d, p) /\ outgoing'[p] = d
      BY <1>0, <2>1, <2>3, MakerMoves
    <3>2. Tells(c, Frame("REQ", p))
      BY <2>3, <3>1 DEF DoHearRequest, Tells
    <3>3. QED  BY <2>1, <3>2
  <2>4. QED  BY <2>2, <2>3
<1>5. QED  BY <1>1, <1>3, <1>4, StateMoves

LEMMA StillBodyHome ==
  ASSUME IInv, Homes, BodiesLocal, Bodies, BodyHome, Steps
  PROVE  BodyHome'
<1>0. Wants \in [Served -> Installs] /\ NoInstall \notin Installs /\ 0 \notin Slots
  BY Domains, WantsType, InstallsType
<1>1. SUFFICES ASSUME up', NEW c \in Slots, NEW p \in Peers, Body(p) \in Pipe(c)'
      PROVE  p \in Local /\ cart'[c].install = Wants[p]
  BY DEF BodyHome, Body
<1>2. up
  BY <1>1, UpBefore
<1>3. SUFFICES p \in Local /\ cart[c].install = Wants[p]
  <2>1. p \in Served
    BY <1>3 DEF Served
  <2>2. cart[c].install # NoInstall
    BY <1>0, <1>3, <2>1
  <2>3. QED  BY <1>3, <2>2, InstallStays
<1>4. CASE Body(p) \in Pipe(c)
  BY <1>2, <1>4 DEF BodyHome
<1>5. CASE Given2(c, Body(p))
  <2>1. Body(p) \in Rel /\ Head(relayIn) = Body(p) /\ DoDeliver(p, c)
    BY <1>5, GivenIs DEF Body
  <2>2. p \in Local /\ p \in Served
    BY <2>1 DEF BodiesLocal, Body, Served
  <2>3. CASE ToServer(p) /\ c = incoming[p]
    BY <2>2, <2>3 DEF Homes, Homed
  <2>4. CASE ToMaker(p) /\ c = outgoing[p]
    <3>1. outgoing[p] # 0 /\ ~ToServer(p) /\ Pops
      BY <1>0, <2>1, <2>4 DEF ToMaker, DoDeliver
    <3>2. QED  BY <1>2, <2>1, <3>1, MakerHead
  <2>5. QED  BY <2>1, <2>3, <2>4 DEF DoDeliver
<1>6. QED  BY <1>1, <1>4, <1>5, PipeGains

LEMMA StillCancels ==
  ASSUME IInv, Asks, Linked, CancelsReal, Steps
  PROVE  Linked' /\ CancelsReal'
<1>0. /\ cancelled \subseteq cancelled' /\ Cancels \subseteq Calls /\ Parent \in [Peers -> Calls]
      /\ Calls \subseteq Served /\ \A p \in Peers : p \notin Calls
  BY CancelsGrow, CancelsType, ParentType, Domains
<1>1. Linked'
  BY LinksFrom DEF Linked
<1>2. ASSUME NEW r, Void(r) PROVE Void(r)'
  BY <1>0, <1>2 DEF Void
<1>3. ASSUME NEW r \in Served, Frame("CANCEL", r) \in Rel' PROVE Void(r)'
  <2>1. CASE relayIn' = <<>>
    BY <1>3, <2>1 DEF Rel, In
  <2>2. ASSUME NEW N, Flows(N), \A f \in N : Sent(f) PROVE Void(r)'
    <3>1. Frame("CANCEL", r) \in Rel \/ Frame("CANCEL", r) \in N
      BY <1>3, <2>2, FlowsOrder
    <3>2. CASE Frame("CANCEL", r) \in Rel
      BY <1>2, <3>2 DEF CancelsReal
    <3>3. CASE r \in Cancels /\ r \in cancelled'
      BY <1>0, <3>3 DEF Void
    <3>4. ASSUME r \in Peers, NEW q \in Served, DoCancel(q), <<q, r>> \in links PROVE Void(r)'
      <4>1. q = Parent[r] /\ q \in Calls
        BY <1>0, <3>4 DEF Linked
      <4>2. Void(q)
        BY <3>4 DEF DoCancel, CancelsReal
      <4>3. QED  BY <1>0, <3>4, <4>1, <4>2 DEF Void
    <3>5. QED  BY <2>2, <3>1, <3>2, <3>3, <3>4, SentIs
  <2>3. QED  BY <2>1, <2>2, RelayFlowing DEF RelayFlow
<1>4. ASSUME NEW r \in Served, NEW c \in Slots, Frame("CANCEL", r) \in Pipe(c)' PROVE Void(r)'
  <2>1. Frame("CANCEL", r) \in Pipe(c) \/ Frame("CANCEL", r) \in Rel
    BY <1>4, PipeGains, GivenIs
  <2>2. QED  BY <1>2, <2>1 DEF CancelsReal
<1>5. ASSUME NEW r \in Served, NEW c \in Slots, r \in proc'[c].told PROVE Void(r)'
  <2>1. r \in proc[c].told \/ Frame("CANCEL", r) \in Pipe(c)
    BY <1>5, ToldFrom
  <2>2. QED  BY <1>2, <2>1 DEF CancelsReal
<1>6. QED  BY <1>1, <1>3, <1>4, <1>5 DEF CancelsReal

-----------------------------------------------------------------------------
(* A peer request before this host serves it                                 *)
\* One that another host serves is not served here.
AwayFree == \A p \in Local : requested[p] = "away" => incoming[p] = 0 /\ Frame("REQ", p) \notin Rel

\* While the request is on its way, nobody has answered it and no process has
\* anything of it.
Untouched(p) ==
  /\ requested[p] = "live" /\ ~Said(Frame("RESPONSE", p))
  /\ \A c \in Slots : p \notin proc[c].taken /\ \A f \in Pipe(c) : f.req # p
Pristine == up => \A p \in Local : Frame("REQ", p) \in Rel => Untouched(p)

\* The response of a peer request comes down the relay once.
OneResponse == \A p \in Peers : Before(relayIn, Frame("RESPONSE", p), Frame("RESPONSE", p))

LEMMA StillAway ==
  ASSUME IInv, Unmade, Asks, Fresh, AwayFree, Steps
  PROVE  AwayFree'
<1>1. SUFFICES ASSUME NEW p \in Local, requested'[p] = "away"
      PROVE  incoming'[p] = 0 /\ Frame("REQ", p) \notin Rel'
  BY DEF AwayFree
<1>2. p \in Peers /\ p \in Served /\ p \in Requests
  BY Domains
<1>3. CASE requested[p] = "away"
  <2>1. incoming[p] = 0 /\ Frame("REQ", p) \notin Rel
    BY <1>3 DEF AwayFree
  <2>2. ~IsServed(p)
    BY <2>1 DEF IsServed, DoServe, Pops
  <2>3. incoming'[p] = 0
    BY <1>2, <2>1, <2>2, EntriesMove DEF Enters
  <2>4. Frame("REQ", p) \notin Rel'
    BY <1>2, <1>3, <2>1, RequestMoves DEF ReqMoves, Fresh
  <2>5. QED  BY <2>3, <2>4
<1>4. CASE requested[p] # "away"
  <2>1. PICK c \in Slots : DoHearRequest(c, p)
    BY <1>1, <1>2, <1>4, BecomesAway
  <2>2. Clean(p)
    BY <1>2, <2>1, HeardAnew
  <2>3. incoming[p] = 0 /\ Frame("REQ", p) \notin Rel
    BY <1>2, <2>2, FrameParts DEF Clean
  <2>4. UNCHANGED <<incoming, relayIn>>
    BY <1>1, <1>2, <2>1, Domains DEF DoHearRequest
  <2>5. QED  BY <2>3, <2>4 DEF Rel
<1>5. QED  BY <1>3, <1>4

\* What is delivered of it or cannot be, before the request is served, is nothing.
LEMMA NothingYet ==
  ASSUME IInv, Fresh, ResponsesOver, BodiesLocal, Bodies, up, NEW p \in Local,
         Frame("REQ", p) \in Rel, requested[p] = "live"
  PROVE  incoming[p] = 0 /\ ~DoUndeliver(p) /\ \A c \in Slots : ~DoDeliver(p, c)
<1>0. /\ p \in Peers /\ p \in Served /\ p \in Requests /\ 0 \notin Slots
      /\ outgoing[p] \in Slots \cup {0}
  BY Domains
<1>1. incoming[p] = 0 /\ ~ToServer(p)
  BY <1>0 DEF Fresh, ToServer, Server
<1>2. ASSUME Head(relayIn) \in Rel, Head(relayIn) = Frame(Head(relayIn).kind, p),
             Head(relayIn).kind \in {"BODY", "RESPONSE"}
      PROVE  Head(relayIn) = Body(p) /\ Body(p) \in Rel
  <2>1. Frame("RESPONSE", p) \notin Rel
    BY <1>0 DEF ResponsesOver
  <2>2. QED  BY <1>2, <2>1 DEF Body
<1>3. ASSUME NEW c \in Slots, DoDeliver(p, c) PROVE FALSE
  <2>1. outgoing[p] # 0 /\ Pops /\ Head(relayIn) = Body(p) /\ Body(p) \in Rel
    BY <1>0, <1>1, <1>2, <1>3 DEF DoDeliver, ToMaker
  <2>2. QED  BY <1>0, <1>1, <2>1, MakerHead
<1>4. ASSUME DoUndeliver(p) PROVE FALSE
  <2>1. outgoing[p] # 0 /\ PopsAndGrows(Back({p})) /\ Head(relayIn) = Body(p) /\ Body(p) \in Rel
    BY <1>0, <1>1, <1>2, <1>4 DEF DoUndeliver
  <2>2. QED  BY <1>0, <1>1, <2>1, MakerHead
<1>5. QED  BY <1>1, <1>3, <1>4

LEMMA StillPristine ==
  ASSUME IInv, Unmade, Asks, Fresh, Firm, ResponsesOver, BodiesLocal, Bodies, Pristine, Steps
  PROVE  Pristine'
<1>1. SUFFICES ASSUME up', NEW p \in Local, Frame("REQ", p) \in Rel'
      PROVE  /\ requested'[p] = "live" /\ ~Said(Frame("RESPONSE", p))'
             /\ \A c \in Slots : p \notin proc'[c].taken /\ \A f \in Pipe(c)' : f.req # p
  BY DEF Pristine, Untouched
<1>2. p \in Peers /\ p \in Served /\ p \in Requests /\ p \notin Calls /\ up /\ 0 \notin Slots
  BY <1>1, Domains, UpBefore
<1>3. CASE Frame("REQ", p) \in Rel
  <2>1. Untouched(p) /\ requested[p] = "live"
    BY <1>2, <1>3 DEF Pristine, Untouched
  <2>2. incoming[p] = 0 /\ ~DoUndeliver(p) /\ \A c \in Slots : ~DoDeliver(p, c)
    BY <1>2, <1>3, <2>1, NothingYet
  <2>3. ASSUME NEW c \in Slots, DoServe(p, c) PROVE FALSE
    BY <1>1, <1>2, <2>3, RequestServed DEF Fresh
  <2>4. requested'[p] = "live"
    <3>1. ~DoNoHandler(p)
      BY <1>2, Offered DEF DoNoHandler
    <3>2. ASSUME NEW c \in Slots, DoHearResponse(c, p) PROVE FALSE
      <4>1. Said(Frame("RESPONSE", p))
        BY <3>2, EventIs DEF DoHearResponse, Said
      <4>2. QED  BY <2>1, <4>1 DEF Untouched
    <3>3. ASSUME NEW D \in SUBSET Slots, p \in Lost(D) PROVE FALSE
      BY <1>2, <2>2, <3>3 DEF Lost, Entries
    <3>4. ~OverBy(p)
      BY <2>1, <2>2, <3>1, <3>2, <3>3 DEF OverBy
    <3>5. QED  BY <1>2, <2>1, <3>4, OverMoves
  <2>5. ~Said(Frame("RESPONSE", p))'
    BY <2>1, ResponseSaidBy DEF Untouched, DoRespond, Respond
  <2>6. ASSUME NEW c \in Slots, p \in proc'[c].taken PROVE FALSE
    <3>1. p \in proc[c].taken \/ Frame("REQ", p) \in Pipe(c)
      BY <2>6, TakenFrom DEF Given
    <3>2. QED  BY <2>1, <3>1, FrameParts DEF Untouched
  <2>7. ASSUME NEW c \in Slots, NEW f \in Pipe(c)', f.req = p PROVE FALSE
    <3>1. Given2(c, f)
      BY <2>1, <2>7, PipeGains DEF Untouched
    <3>2. ASSUME NEW r \in Requests, DoDeliver(r, c), f = Head(relayIn) PROVE FALSE
      <4>1. r = p
        BY <2>7, <3>2, FrameParts DEF DoDeliver
      <4>2. QED  BY <2>2, <3>2, <4>1
    <3>3. ASSUME NEW r \in Served, f = Frame("CANCEL", r), incoming[r] = c PROVE FALSE
      BY <1>2, <2>2, <2>7, <3>3, FrameParts
    <3>4. ASSUME NEW r \in Served, DoServe(r, c), f = Frame("REQ", r) PROVE FALSE
      BY <2>3, <2>7, <3>4, FrameParts
    <3>5. QED  BY <3>1, <3>2, <3>3, <3>4 DEF Given2
  <2>8. QED  BY <2>4, <2>5, <2>6, <2>7
<1>4. CASE Frame("REQ", p) \notin Rel
  <2>1. requested[p] = "no" /\ requested'[p] = "live"
    <3>1. CASE relayIn' = <<>>
      BY <1>1, <3>1 DEF Rel, In
    <3>2. ASSUME NEW N, Flows(N), \A f \in N : Sent(f) PROVE requested[p] = "no" /\ requested'[p] = "live"
      BY <1>1, <1>4, <3>2, FlowsOrder, SentIs
    <3>3. QED  BY <3>1, <3>2, RelayFlowing DEF RelayFlow
  <2>2. PICK c \in Slots : DoHearRequest(c, p)
    BY <1>2, <2>1, MadeBy
  <2>3. Clean(p)
    BY <1>2, <2>1 DEF Unmade
  <2>4. UNCHANGED proc /\ Ev' \subseteq Ev
    BY <2>2 DEF DoHearRequest, Drops
  <2>5. ~Said(Frame("RESPONSE", p))'
    BY <2>3, <2>4 DEF Clean, Said
  <2>6. \A d \in Slots : p \notin proc[d].taken /\ \A f \in Pipe(d) : f.req # p
    BY <2>3 DEF Clean
  <2>7. QED  BY <2>1, <2>4, <2>5, <2>6 DEF Pipe
<1>5. QED  BY <1>3, <1>4

LEMMA StillOneResponse ==
  ASSUME IInv, Asks, ResponsesOver, OneResponse, Steps
  PROVE  OneResponse'
<1>1. SUFFICES ASSUME NEW p \in Peers PROVE Before(relayIn, Frame("RESPONSE", p), Frame("RESPONSE", p))'
  BY DEF OneResponse
<1>2. PICK f : f = Frame("RESPONSE", p)
  OBVIOUS
<1>3. Before(relayIn, f, f)
  BY <1>2 DEF OneResponse
<1>4. CASE relayIn' = <<>>
  BY <1>4 DEF Before
<1>5. ASSUME NEW N, Flows(N), \A g \in N : Sent(g) PROVE Before(relayIn, f, f)'
  <2>1. f \in N => f \notin Rel
    BY <1>2, <1>5, SentIs DEF ResponsesOver
  <2>2. QED  BY <1>3, <1>5, <2>1, FlowsOrder
<1>6. QED  BY <1>2, <1>4, <1>5, RelayFlowing DEF RelayFlow

-----------------------------------------------------------------------------
(* A response and a body are told apart by what has ended                    *)
\* A process has the end of a request's body, or has ended its response.
Heeded(c, p) == Tells(c, Frame("RESPONSE", p)) \/ p \in proc[c].ended \/ Body(p) \in Pipe(c)

\* From then on the host takes the body for ended too; and when the response of
\* a peer request comes down the relay, nobody serves the request any more.
Settled == up => \A p \in Local : Sound(p) => \A c \in Slots : Heeded(c, p) => Ended(p)
Replied == up => \A p \in Local : Sound(p) /\ Frame("RESPONSE", p) \in Rel => incoming[p] = 0

\* A response that was given to a process is the one, and the last frame that is
\* for who made the request.
Answered ==
  up => \A p \in Peers : Sound(p) => \A c \in Slots : Frame("RESPONSE", p) \in Pipe(c) =>
          /\ outgoing[p] = 0 /\ Frame("RESPONSE", p) \notin Rel
          /\ Before(proc[c].pipe, Frame("RESPONSE", p), Frame("RESPONSE", p))

\* Who is on the books for a peer request, or has its response, asked for it.
Askers ==
  up => \A c \in Slots : Runs(c) => \A p \in Peers : Sound(p) /\ Known(c, p) => p \in proc[c].asked

\* A process serves nothing that it asked for.
LEMMA NotItself ==
  ASSUME SteadyPeers, Homes, NEW c \in Slots, NEW p \in Local, p \in proc[c].asked
  PROVE  p \notin proc[c].taken /\ cart[c].install # Wants[p]
<1>1. cart[c].install = Wants[Parent[p]] /\ p \in Served
  BY DEF Homes, Homed, Served
<1>2. Wants[Parent[p]] # Wants[p]
  BY DEF SteadyPeers
<1>3. QED  BY <1>1, <1>2 DEF Homes, Homed

LEMMA SoundBefore ==
  ASSUME Steps, NEW p, Sound(p)'
  PROVE  Sound(p)
  BY CancelsGrow DEF Sound

\* A request that is served was untouched.
LEMMA ServedUntouched ==
  ASSUME IInv, EndedTaken, Pristine, up, NEW p \in Local, IsServed(p)
  PROVE  /\ Untouched(p) /\ Head(relayIn) = Frame("REQ", p)
         /\ \A c \in Slots : ~Heeded(c, p)
<1>1. Head(relayIn) = Frame("REQ", p) /\ Frame("REQ", p) \in Rel
  BY DEF IsServed, DoServe, Pops
<1>2. Untouched(p)
  BY <1>1 DEF Pristine
<1>3. ASSUME NEW c \in Slots, Heeded(c, p) PROVE FALSE
  <2>1. ~Tells(c, Frame("RESPONSE", p))
    BY <1>2, EventIs DEF Untouched, Tells, Said
  <2>2. p \notin proc[c].ended
    BY <1>2 DEF Untouched, EndedTaken
  <2>3. Body(p) \notin Pipe(c)
    BY <1>2, FrameParts DEF Untouched, Body
  <2>4. QED  BY <1>3, <2>1, <2>2, <2>3 DEF Heeded
<1>4. QED  BY <1>1, <1>2, <1>3

LEMMA StillSettled ==
  ASSUME SteadyPeers, ~EarlyReply, IInv, EventSlots, DeadHoldNothing, Homes, BodiesLocal, Bodies,
         NoKills, EndedTaken, CancelsReal, Pristine, Askers, Settled, Steps
  PROVE  Settled'
<1>1. SUFFICES ASSUME up', NEW p \in Local, Sound(p)', NEW c \in Slots, Heeded(c, p)'
      PROVE  p \in bodyDone' \/ incoming'[p] = 0
  BY DEF Settled, Ended
<1>2. /\ p \in Peers /\ p \in Served /\ p \notin Calls /\ up /\ Sound(p)
      /\ 0 \notin Slots /\ incoming \in [Served -> Slots \cup {0}]
  BY <1>1, Domains, UpBefore, SoundBefore
<1>3. ASSUME DoRespond(c, p) PROVE Heeded(c, p)
  <2>1. p \in proc[c].ended \/ p \in proc[c].told
    BY <1>2, <1>3 DEF DoRespond, Respond
  <2>2. p \notin proc[c].told
    BY <1>2 DEF CancelsReal, Void, Sound
  <2>3. QED  BY <2>1, <2>2 DEF Heeded
<1>4. ASSUME Tells(c, Frame("RESPONSE", p))' PROVE Heeded(c, p)
  <2>1. CASE Tells(c, Frame("RESPONSE", p))
    BY <2>1 DEF Heeded
  <2>2. CASE TellsNew(c, Frame("RESPONSE", p))
    <3>1. DoRespond(c, p)
      BY <2>2, FrameParts DEF TellsNew, Death
    <3>2. QED  BY <1>3, <3>1
  <2>3. QED  BY <1>4, <2>1, <2>2, TellsFrom
<1>5. ASSUME p \in proc'[c].ended PROVE Heeded(c, p)
  <2>1. CASE p \in proc[c].ended
    BY <2>1 DEF Heeded
  <2>2. CASE p \notin proc[c].ended
    <3>1. PICK kind \in {"BODY", "RESPONSE", "KILL"} : Frame(kind, p) \in Pipe(c)
      BY <1>5, <2>2, EndedFrom
    <3>2. p \in proc[c].taken
      BY <1>5, <2>2, EndedFrom
    <3>3. CASE kind = "BODY"
      BY <3>1, <3>3 DEF Heeded, Body
    <3>4. CASE kind = "KILL"
      BY <3>1, <3>4 DEF NoKills
    <3>5. CASE kind = "RESPONSE"
      <4>1. Runs(c)
        BY <3>2 DEF DeadHoldNothing, Runs
      <4>2. Known(c, p)
        BY <3>1, <3>5 DEF Known
      <4>3. p \in proc[c].asked
        BY <1>2, <4>1, <4>2 DEF Askers
      <4>4. QED  BY <3>2, <4>3, NotItself
    <3>6. QED  BY <3>3, <3>4, <3>5
  <2>3. QED  BY <2>1, <2>2
<1>6. ASSUME Body(p) \in Pipe(c)', Body(p) \notin Pipe(c)
      PROVE  /\ Head(relayIn) = Body(p)
             /\ p \in bodyDone' \/ incoming'[p] = 0
  <2>1. Body(p) \in Rel /\ Head(relayIn) = Body(p) /\ DoDeliver(p, c)
    BY <1>6, PipeGains, GivenIs DEF Body
  <2>2. CASE ToServer(p)
    BY <1>2, <2>1, <2>2 DEF DoDeliver, ToMaker
  <2>3. CASE ~ToServer(p)
    <3>1. outgoing[p] # 0 /\ Pops
      BY <1>2, <2>1, <2>3 DEF DoDeliver
    <3>2. QED  BY <1>2, <2>1, <2>3, <3>1, MakerHead
  <2>4. QED  BY <2>1, <2>2, <2>3
<1>7. CASE Heeded(c, p)
  <2>1. Ended(p) /\ ~IsServed(p)
    BY <1>2, <1>7, ServedUntouched DEF Settled
  <2>2. QED  BY <1>2, <2>1, EndedStays
<1>8. CASE ~Heeded(c, p)
  <2>1. Body(p) \in Pipe(c)' /\ Body(p) \notin Pipe(c)
    BY <1>1, <1>4, <1>5, <1>8 DEF Heeded, Body
  <2>2. QED  BY <1>6, <2>1
<1>9. QED  BY <1>7, <1>8

LEMMA StillReplied ==
  ASSUME IInv, Asks, Fresh, Firm, ResponsesOver, EndedTaken, AwayFree, Pristine, Settled, Replied, Steps
  PROVE  Replied'
<1>1. SUFFICES ASSUME up', NEW p \in Local, Sound(p)', Frame("RESPONSE", p) \in Rel'
      PROVE  incoming'[p] = 0
  BY DEF Replied
<1>2. /\ p \in Peers /\ p \in Served /\ p \in Requests /\ up /\ Sound(p)
      /\ incoming \in [Served -> Slots \cup {0}]
  BY <1>1, Domains, UpBefore, SoundBefore
<1>3. ASSUME incoming[p] = 0, ~IsServed(p) PROVE incoming'[p] = 0
  BY <1>2, <1>3, EntriesMove DEF Enters
<1>4. ASSUME requested[p] # "live" PROVE ~IsServed(p)
  BY <1>2, <1>4, ServedUntouched DEF Untouched
<1>5. CASE Frame("RESPONSE", p) \in Rel
  <2>1. requested[p] # "live"
    BY <1>2, <1>5 DEF ResponsesOver
  <2>2. incoming[p] = 0
    BY <1>2, <1>5 DEF Replied
  <2>3. QED  BY <1>3, <1>4, <2>1, <2>2
<1>6. CASE Frame("RESPONSE", p) \notin Rel
  <2>1. requested[p] \in {"live", "away"} /\ requested'[p] = "over"
    <3>1. CASE relayIn' = <<>>
      BY <1>1, <3>1 DEF Rel, In
    <3>2. ASSUME NEW N, Flows(N), \A f \in N : Sent(f)
          PROVE  requested[p] \in {"live", "away"} /\ requested'[p] = "over"
      BY <1>1, <1>6, <3>2, FlowsOrder, SentIs
    <3>3. QED  BY <3>1, <3>2, RelayFlowing DEF RelayFlow
  <2>2. CASE requested[p] = "away"
    BY <1>3, <1>4, <2>2 DEF AwayFree
  <2>3. CASE requested[p] = "live"
    <3>1. OverBy(p)
      BY <1>2, <2>1, <2>3, OverMoves
    <3>2. ~DoNoHandler(p)
      BY <1>2, Offered DEF DoNoHandler
    <3>3. CASE DoUndeliver(p)
      BY <1>2, <3>3 DEF DoUndeliver
    <3>4. ASSUME NEW c \in Slots, DoHearResponse(c, p) PROVE incoming'[p] = 0
      <4>1. Tells(c, Frame("RESPONSE", p))
        BY <3>4 DEF DoHearResponse, Tells
      <4>2. Ended(p)
        BY <1>2, <4>1 DEF Settled, Heeded
      <4>3. QED  BY <1>2, <3>4, <4>2 DEF DoHearResponse, Release, Ended
    <3>5. ASSUME NEW D \in SUBSET Slots, DoBury(D), p \in Lost(D) PROVE incoming'[p] = 0
      BY <1>2, <3>5 DEF DoBury, Buries
    <3>6. QED  BY <2>3, <3>1, <3>2, <3>3, <3>4, <3>5 DEF OverBy
  <2>4. QED  BY <2>1, <2>2, <2>3
<1>7. QED  BY <1>5, <1>6

\* A response that is delivered goes to who made the request.
LEMMA ResponseForMaker ==
  ASSUME IInv, Replied, up, NEW p \in Peers, Sound(p), NEW c \in Slots, Given2(c, Frame("RESPONSE", p))
  PROVE  /\ Frame("RESPONSE", p) \in Rel /\ Head(relayIn) = Frame("RESPONSE", p) /\ Pops
         /\ outgoing[p] = c /\ outgoing'[p] = 0
<1>1. Frame("RESPONSE", p) \in Rel /\ Head(relayIn) = Frame("RESPONSE", p) /\ DoDeliver(p, c)
  BY GivenIs
<1>2. p \notin Calls /\ outgoing \in [Peers -> Slots \cup {0}]
  BY Domains
<1>3. ~ToServer(p)
  BY <1>1, <1>2 DEF Replied, ToServer, Server, Served
<1>4. QED  BY <1>1, <1>2, <1>3 DEF DoDeliver

LEMMA StillAnswered ==
  ASSUME IInv, Unmade, Asks, ResponsesOver, OneResponse, Replied, Answered, Steps
  PROVE  Answered'
<1>1. SUFFICES ASSUME up', NEW p \in Peers, Sound(p)', NEW c \in Slots, Frame("RESPONSE", p) \in Pipe(c)'
      PROVE  /\ outgoing'[p] = 0 /\ Frame("RESPONSE", p) \notin Rel'
             /\ Before(proc[c].pipe, Frame("RESPONSE", p), Frame("RESPONSE", p))'
  BY DEF Answered
<1>2. up /\ Sound(p)
  BY <1>1, UpBefore, SoundBefore
<1>3. PICK f : f = Frame("RESPONSE", p)
  OBVIOUS
<1>4. CASE f \in Pipe(c)
  <2>1. outgoing[p] = 0 /\ f \notin Rel /\ Before(proc[c].pipe, f, f) /\ requested[p] = "over"
    BY <1>2, <1>3, <1>4 DEF Answered, ResponsesOver
  <2>2. outgoing'[p] = 0
    <3>1. ASSUME NEW d \in Slots, DoHearRequest(d, p) PROVE FALSE
      <4>1. Clean(p)
        BY <3>1, HeardAnew
      <4>2. f.req = p
        BY <1>3, FrameParts
      <4>3. QED  BY <1>4, <4>1, <4>2 DEF Clean
    <3>2. QED  BY <2>1, <3>1, MakerMoves
  <2>3. f \notin Rel'
    <3>1. CASE relayIn' = <<>>
      BY <3>1 DEF Rel, In
    <3>2. ASSUME NEW N, Flows(N), \A g \in N : Sent(g) PROVE f \notin Rel'
      <4>1. f \notin N
        BY <1>3, <2>1, <3>2, SentIs
      <4>2. QED  BY <2>1, <3>2, <4>1, FlowsOrder
    <3>3. QED  BY <3>1, <3>2, RelayFlowing DEF RelayFlow
  <2>4. ~Given2(c, f)
    BY <2>1 DEF Given2
  <2>5. Before(proc[c].pipe, f, f)'
    BY <2>1, <2>4, PipeOnce
  <2>6. QED  BY <1>3, <2>2, <2>3, <2>5
<1>5. CASE f \notin Pipe(c)
  <2>1. Given2(c, Frame("RESPONSE", p))
    BY <1>1, <1>3, <1>5, PipeGains
  <2>2. f = Head(relayIn) /\ Pops /\ outgoing'[p] = 0
    BY <1>2, <1>3, <2>1, ResponseForMaker
  <2>3. f \notin Rel'
    <3>1. Before(relayIn, f, f)
      BY <1>3 DEF OneResponse
    <3>2. PICK N : N = {}
      OBVIOUS
    <3>3. f \notin N /\ (Pops \/ PopsAndGrows(N))
      BY <2>2, <3>2
    <3>4. QED  BY <2>2, <3>1, <3>3, FrameTaken
  <2>4. Before(proc[c].pipe, f, f)
    BY <1>5 DEF Before, Pipe, In
  <2>5. Before(proc[c].pipe, f, f)'
    BY <1>5, <2>4, PipeOnce
  <2>6. QED  BY <1>3, <2>2, <2>3, <2>5
<1>6. QED  BY <1>4, <1>5

\* A process that runs after a step ran before it, or is spawned by it.
LEMMA RunsBefore ==
  ASSUME IInv, Steps, NEW c \in Slots, Runs(c)', proc[c].state # "none"
  PROVE  Runs(c)
<1>1. ProcMoves(c)
  BY ProcMoving
<1>2. CASE Falls(c)
  BY <1>2 DEF Falls, Runs
<1>3. CASE DoTake(c)
  BY <1>3 DEF DoTake, Runs
<1>4. ASSUME NEW f, Given1(c, f) PROVE Runs(c)
  BY <1>4 DEF Given1, Gets, Runs
<1>5. ASSUME NEW r \in Served, DoServe(r, c) PROVE Runs(c)
  BY <1>5 DEF DoServe, Gets, Runs
<1>6. ASSUME NEW q, DoMake(c, q) \/ DoRespond(c, q) PROVE Runs(c)
  BY <1>6 DEF DoMake, DoRespond, Runs
<1>7. QED  BY <1>1, <1>2, <1>3, <1>4, <1>5, <1>6 DEF ProcMoves

\* Of a process that is spawned nothing is known.
LEMMA SpawnedKnowsNothing ==
  ASSUME IInv, EventSlots, Makers, Steps, up, NEW c \in Slots, NEW p \in Peers, Runs(c)', proc[c].state = "none"
  PROVE  ~Known(c, p)'
<1>1. PICK r \in Served : DoServe(r, c)
  BY StateMoves DEF Runs
<1>2. ~Tells(c, Frame("REQ", p))'
  BY <1>1, ServeTells
<1>3. outgoing'[p] # c
  BY <1>1 DEF DoServe, Makers
<1>4. Frame("RESPONSE", p) \notin Pipe(c)'
  BY <1>1, FrameParts DEF DoServe
<1>5. QED  BY <1>2, <1>3, <1>4 DEF Known

\* What is known of a process was known, or it is the process that asks now.
LEMMA KnownFrom ==
  ASSUME IInv, EventSlots, Replied, Steps, up, NEW c \in Slots, NEW p \in Peers, Sound(p), Known(c, p)'
  PROVE  Known(c, p) \/ DoMake(c, p)
<1>1. CASE Tells(c, Frame("REQ", p))'
  <2>1. Tells(c, Frame("REQ", p)) \/ TellsNew(c, Frame("REQ", p))
    BY <1>1, TellsFrom
  <2>2. CASE TellsNew(c, Frame("REQ", p))
    BY <2>2, FrameParts DEF TellsNew, Death
  <2>3. QED  BY <2>1, <2>2 DEF Known
<1>2. CASE outgoing'[p] = c
  <2>1. CASE outgoing[p] = c
    BY <2>1 DEF Known
  <2>2. CASE outgoing[p] # c
    <3>1. PICK d \in Slots : DoHearRequest(d, p) /\ outgoing'[p] = d
      BY <1>2, <2>2, Domains, MakerMoves
    <3>2. Tells(c, Frame("REQ", p))
      BY <1>2, <3>1 DEF DoHearRequest, Tells
    <3>3. QED  BY <3>2 DEF Known
  <2>3. QED  BY <2>1, <2>2
<1>3. CASE Frame("RESPONSE", p) \in Pipe(c)'
  <2>1. CASE Frame("RESPONSE", p) \in Pipe(c)
    BY <2>1 DEF Known
  <2>2. CASE Given2(c, Frame("RESPONSE", p))
    BY <2>2, ResponseForMaker DEF Known
  <2>3. QED  BY <1>3, <2>1, <2>2, PipeGains
<1>4. QED  BY <1>1, <1>2, <1>3 DEF Known

\* Who asked goes on asking until it takes the response.
LEMMA AskingGoesOn ==
  ASSUME SteadyPeers, IInv, EventSlots, Asks, ResponsesOver, Homes, NoKills, BodyHome, CancelsReal, Answered,
         Steps, up, NEW c \in Slots, NEW p \in Peers, Sound(p), p \in proc[c].asked,
         Runs(c)', proc[c].state # "none", Known(c, p)'
  PROVE  p \in proc'[c].asked
<1>1. ProcMoves(c)
  BY ProcMoving
<1>2. CASE Falls(c)
  BY <1>2 DEF Falls, Runs
<1>3. CASE DoTake(c)
  <2>1. PICK h : h = Head(proc[c].pipe)
    OBVIOUS
  <2>2. /\ h \in Frames /\ h \in Pipe(c)
        /\ Moved(proc[c].pipe, proc'[c].pipe, {h}, Pipe(c)', {})
        /\ proc'[c].asked = IF h.kind \notin {"REQ", "CANCEL"} /\ h.req \notin proc[c].taken
                            THEN proc[c].asked \ {h.req} ELSE proc[c].asked
    BY <1>3, <2>1, TakeDoes DEF DoTake, IInv
  <2>3. SUFFICES ASSUME h.kind \notin {"REQ", "CANCEL"}, h.req = p PROVE FALSE
    BY <2>2
  <2>4. h = Frame(h.kind, p) /\ h.kind \in {"KILL", "BODY", "RESPONSE"}
    BY <2>2, <2>3, FrameIs DEF Frames
  <2>5. CASE h.kind = "KILL"
    BY <2>2, <2>4, <2>5 DEF NoKills
  <2>6. CASE h.kind = "BODY"
    <3>1. Body(p) \in Pipe(c)
      BY <2>2, <2>4, <2>6 DEF Body
    <3>2. p \in Local /\ cart[c].install = Wants[p]
      BY <3>1 DEF BodyHome
    <3>3. QED  BY <3>2, NotItself
  <2>7. CASE h.kind = "RESPONSE"
    <3>1. h = Frame("RESPONSE", p)
      BY <2>4, <2>7
    <3>2. outgoing[p] = 0 /\ Before(proc[c].pipe, h, h) /\ requested[p] = "over"
      BY <2>2, <3>1 DEF Answered, ResponsesOver
    <3>3. h \notin Pipe(c)'
      BY <3>2, <2>2 DEF Moved
    <3>4. outgoing'[p] # c
      BY <1>3, <3>2, Domains DEF DoTake, maps
    <3>5. ~Tells(c, Frame("REQ", p))
      BY <3>2, EventIs DEF Asks, Tells, Said
    <3>6. ~Tells(c, Frame("REQ", p))'
      BY <1>3, <3>5, TellsSame DEF DoTake
    <3>7. QED  BY <3>1, <3>3, <3>4, <3>6 DEF Known
  <2>8. QED  BY <2>4, <2>5, <2>6, <2>7
<1>4. ASSUME NEW f, Given1(c, f) \/ Gets(c, f) PROVE p \in proc'[c].asked
  BY <1>4 DEF Given1, Gets
<1>5. ASSUME NEW r \in Served, DoServe(r, c) PROVE p \in proc'[c].asked
  BY <1>4, <1>5 DEF DoServe
<1>6. ASSUME NEW q, DoMake(c, q) PROVE p \in proc'[c].asked
  BY <1>6 DEF DoMake
<1>7. ASSUME NEW r \in Served, DoRespond(c, r) PROVE p \in proc'[c].asked
  <2>1. ASSUME p \in Children(c, r) PROVE FALSE
    <3>1. Parent[p] = r /\ r \in proc[c].told
      BY <1>7, <2>1 DEF DoRespond, Respond, Children
    <3>2. Void(r)
      BY <3>1 DEF CancelsReal
    <3>3. r \in Calls
      BY <3>1, ParentType
    <3>4. QED  BY <3>1, <3>2, <3>3 DEF Void, Sound
  <2>2. QED  BY <1>7, <2>1 DEF DoRespond
<1>8. QED  BY <1>1, <1>2, <1>3, <1>4, <1>5, <1>6, <1>7 DEF ProcMoves

LEMMA StillAskers ==
  ASSUME SteadyPeers, IInv, EventSlots, Asks, ResponsesOver, Homes, NoKills, Makers, BodyHome, CancelsReal,
         Replied, Answered, Askers, Steps
  PROVE  Askers'
<1>1. SUFFICES ASSUME up', NEW c \in Slots, Runs(c)', NEW p \in Peers, Sound(p)', Known(c, p)'
      PROVE  p \in proc'[c].asked
  BY DEF Askers
<1>2. up /\ Sound(p)
  BY <1>1, UpBefore, SoundBefore
<1>3. proc[c].state # "none"
  BY <1>1, <1>2, SpawnedKnowsNothing
<1>4. Known(c, p) \/ DoMake(c, p)
  BY <1>1, <1>2, KnownFrom
<1>5. CASE Known(c, p)
  <2>1. p \in proc[c].asked
    BY <1>1, <1>2, <1>3, <1>5, RunsBefore DEF Askers
  <2>2. QED  BY <1>1, <1>2, <1>3, <2>1, AskingGoesOn
<1>6. CASE DoMake(c, p)
  BY <1>6 DEF DoMake
<1>7. QED  BY <1>4, <1>5, <1>6

-----------------------------------------------------------------------------
(* The response goes to who asked                                            *)
Answering ==
  /\ Shut /\ NoKills /\ EndedTaken /\ Makers /\ BodyHome /\ Linked /\ CancelsReal
  /\ AwayFree /\ Pristine /\ OneResponse
  /\ Settled /\ Replied /\ Answered /\ Askers
AInv == WInv /\ Answering

LEMMA InitAnswering ==
  ASSUME Init
  PROVE  Answering
<1>0. /\ up /\ relayIn = <<>> /\ events = <<>> /\ proc = [c \in Slots |-> NoProcess]
      /\ outgoing = [p \in Peers |-> 0] /\ links = {} /\ requested = [r \in Requests |-> "no"]
  BY DEF Init
<1>1. Rel = {} /\ Ev = {} /\ \A f, g : Before(relayIn, f, g)
  BY <1>0 DEF Rel, Ev, In, Before
<1>2. ASSUME NEW c \in Slots
      PROVE  /\ proc[c].state = "none" /\ proc[c].ended = {} /\ proc[c].told = {} /\ Pipe(c) = {}
             /\ \A f : ~Tells(c, f)
  BY <1>0, <1>1 DEF NoProcess, Pipe, In, Tells
<1>3. Shut /\ NoKills /\ EndedTaken /\ BodyHome /\ Linked
  BY <1>0, <1>2 DEF Shut, NoKills, EndedTaken, BodyHome, Linked
<1>4. Makers
  BY <1>0, <1>2 DEF Makers, Slots
<1>5. CancelsReal /\ Pristine /\ OneResponse
  BY <1>1, <1>2 DEF CancelsReal, Pristine, OneResponse
<1>6. AwayFree
  <2>1. ASSUME NEW p \in Local PROVE requested[p] = "no"
    BY <1>0, LocalType DEF Requests
  <2>2. QED  BY <2>1 DEF AwayFree
<1>7. Settled /\ Replied
  BY <1>1, <1>2 DEF Settled, Replied, Heeded
<1>8. Answered /\ Askers
  BY <1>2 DEF Answered, Askers, Runs
<1>9. QED  BY <1>3, <1>4, <1>5, <1>6, <1>7, <1>8 DEF Answering

LEMMA AnsweringKept ==
  ASSUME SteadyPeers, ~EarlyReply, WInv, WInv', Answering, [Next]_vars
  PROVE  Answering'
<1>1. Steps
  BY StepDoes DEF WInv, RInv, Routing
<1>2. Shut' /\ NoKills' /\ EndedTaken'
  BY <1>1, StillShut, StillNoKills, StillEnded DEF WInv, RInv, Routing, Answering
<1>3. Makers' /\ BodyHome' /\ Linked' /\ CancelsReal'
  BY <1>1, StillMakers, StillBodyHome, StillCancels DEF WInv, RInv, Routing, Waiting, Answering
<1>4. AwayFree' /\ OneResponse'
  BY <1>1, StillAway, StillOneResponse DEF WInv, RInv, Routing, Waiting, Answering
<1>5. Pristine'
  BY <1>1, StillPristine DEF WInv, RInv, Routing, Waiting, Answering
<1>6. Settled'
  BY <1>1, StillSettled DEF WInv, RInv, Routing, Waiting, Answering
<1>7. Replied'
  BY <1>1, StillReplied DEF WInv, RInv, Routing, Waiting, Answering
<1>8. Answered'
  BY <1>1, StillAnswered DEF WInv, RInv, Routing, Waiting, Answering
<1>9. Askers'
  BY <1>1, StillAskers DEF WInv, RInv, Routing, Waiting, Answering
<1>10. QED  BY <1>2, <1>3, <1>4, <1>5, <1>6, <1>7, <1>8, <1>9 DEF Answering

\* What a running process has in its input it asked for; of a body, it serves
\* the request, and so it did not.
LEMMA AnsweringRight ==
  ASSUME SteadyPeers, AInv
  PROVE  RoutedRight
<1>1. ASSUME NEW c \in Slots, NEW p \in Peers, Runs(c), Sound(p)
      PROVE  /\ Queued(proc[c].pipe, Frame("RESPONSE", p)) => p \in proc[c].asked
             /\ Queued(proc[c].pipe, Frame("BODY", p)) => p \notin proc[c].asked
  <2>1. up
    BY <1>1 DEF AInv, Answering, Shut, Runs
  <2>2. \A f : Queued(proc[c].pipe, f) <=> f \in Pipe(c)
    BY QueuedIn DEF Pipe
  <2>3. ASSUME Frame("RESPONSE", p) \in Pipe(c) PROVE p \in proc[c].asked
    BY <1>1, <2>1, <2>3 DEF AInv, Answering, Askers, Known
  <2>4. ASSUME Frame("BODY", p) \in Pipe(c), p \in proc[c].asked PROVE FALSE
    <3>1. p \in Local /\ cart[c].install = Wants[p]
      BY <2>1, <2>4 DEF AInv, Answering, BodyHome, Body
    <3>2. QED  BY <2>4, <3>1, NotItself DEF AInv, WInv, Waiting
  <2>5. QED  BY <2>2, <2>3, <2>4
<1>2. QED  BY <1>1 DEF RoutedRight, Runs, Sound

\* Unless its call is cancelled, the response of a peer request is only ever in
\* the input of the process that asked, and the request's body never is there:
\* when this host serves its own peer request both streams come down the relay
\* under one key, and the marks of what has ended always tell them apart. That
\* needs a server that is not taken away (SteadyPeers) and a handler that reads
\* its whole input before it responds: an early response is taken for the end of
\* the body, and goes to who serves the request (EarlyReply).
THEOREM RoutedRightAlways ==
  ASSUME SteadyPeers, EarlyReply = FALSE
  PROVE  Spec => []RoutedRight
<1>1. Init => AInv
  BY InitInvariant, InitRouting, InitWaiting, InitAnswering DEF AInv, WInv, RInv
<1>2. AInv /\ RInv' /\ [Next]_vars => AInv'
  <2>1. SUFFICES ASSUME AInv, RInv', [Next]_vars PROVE AInv'
    OBVIOUS
  <2>2. WInv'
    BY <2>1, WaitingKept DEF AInv, WInv, RInv
  <2>3. Answering'
    BY <2>1, <2>2, AnsweringKept DEF AInv
  <2>4. QED  BY <2>2, <2>3 DEF AInv
<1>3. AInv => RoutedRight
  BY AnsweringRight
<1>4. QED  BY <1>1, <1>2, <1>3, RoutingInvariant, PTL DEF Spec
=============================================================================
