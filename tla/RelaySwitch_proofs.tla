------------------------- MODULE RelaySwitch_proofs -------------------------
(***************************************************************************)
(* For any masters, calls, peers and pumps: a request is answered at most  *)
(* once, no call ends in silence, a cancel that is through has left no     *)
(* live child, and what is open is in somebody's hands.  The inductive     *)
(* invariant of the first three follows the one token a request has: it is *)
(* the table's entry, or the terminal somebody is delivering, or the       *)
(* terminal that was delivered, and never two of these.  The last one has  *)
(* an invariant of its own, at the end.                                    *)
(***************************************************************************)
EXTENDS RelaySwitch, SequenceTheorems, TLAPS

\* What the agents hold names a master, or a peer, where they will use it so.
Placed ==
  /\ \A r \in Requests : pc[r] \notin {"new", "sent", "refused"} => dest[r] \in Masters
  /\ \A r \in onHost : dest[r] \in Masters
  /\ \A r \in entries : pc[r] # "new"
  /\ \A p \in Peers : pc[p] # "new" => home[p] \in Masters
  /\ \A k \in Pumps : /\ pump[k] \in {"peer", "reply"} => job[k] \in Peers
                      /\ pump[k] = "reply" => home[job[k]] \in Masters
                      /\ pump[k] \in {"notify", "hold", "probe"} => job[k] \in Masters
  /\ driver # "idle" => target \in Masters
  /\ \A a \in Agents : task[a].at \in Dying => task[a].master \in Masters

\* A peer request that has been sent and not been taken is in the queue once.
IsRequest(i) == i \in DOMAIN inbox /\ inbox[i].type = "REQ"
SentOnce ==
  \A i \in DOMAIN inbox : IsRequest(i) =>
    /\ pc[inbox[i].about] = "sent"
    /\ \A j \in DOMAIN inbox : IsRequest(j) /\ inbox[i].about = inbox[j].about => i = j

TypeInv == TypeOK /\ Placed /\ SentOnce

\* The queue's lock: one pump at a time has a frame in its hands.
Alone == \A k, l \in Pumps : pump[k] # "idle" /\ pump[l] # "idle" => k = l

Replying(r) == \E k \in Pumps : pump[k] = "reply" /\ job[k] = r

Early == {"new", "sent", "routed"}
Live  == {"registered", "open", "failing"}

\* The request's terminal is still to come, and nobody has it in hand.
Untold(r) == told[r] = 0 /\ canceller # r /\ ~Replying(r)

\* One token per request.
TokenOf(r) == /\ told[r] \in {0, 1}
              /\ r \in entries => Untold(r) /\ pc[r] \in Live
              /\ pc[r] \in Early => Untold(r)
              /\ canceller = r => told[r] = 0
              /\ Replying(r) => told[r] = 0 /\ canceller # r
OneToken == \A r \in Requests : TokenOf(r)

\* The live children of what was cancelled are still to be cancelled; what was
\* cancelled does not come back.
Family ==
  /\ \A r \in Requests : \A p \in children[r] : Parent[p] = r /\ pc[p] \notin Early
  /\ \A r \in cancelled : r \notin entries /\ pc[r] \notin Early
  /\ \A r \in cancelled : children[r] \cap entries \subseteq cascade
  /\ canceller = NoOne => cascade = {}

IInv == TypeInv /\ Alone /\ OneToken /\ NoSilentEnd /\ Family

-----------------------------------------------------------------------------
(* What the operators do to the tasks and to the queue                     *)

\* An agent that is doing something to a master knows which.
TasksPlaced ==
  \A a \in Agents : task[a].at \in Dying => task[a].master \in Masters

LEMMA IdleTyped == Idle \in Task
  BY DEF Idle, Task

\* An agent's task is set to another.
LEMMA TaskSetTyped ==
  ASSUME TypeInv, NEW a \in Agents, NEW t \in Task,
         t.at \in Dying => t.master \in Masters,
         task' = [task EXCEPT ![a] = t]
  PROVE  task' \in [Agents -> Task] /\ TasksPlaced'
  BY DEF TypeInv, TypeOK, Placed, TasksPlaced

\* A master that exists is declared dead.
LEMMA DeclareDeadTyped ==
  ASSUME TypeInv, NEW a \in Agents, NEW m \in Masters, DeclareDead(a, m)
  PROVE  task' \in [Agents -> Task] /\ TasksPlaced'
<1> DEFINE t == [Idle EXCEPT !.at = "declared", !.master = m]
<1>1. t \in Task /\ t.master \in Masters
  BY DEF Task, Idle, Dying
<1>2. task' = [task EXCEPT ![a] = t]
  BY DEF DeclareDead
<1>3. QED  BY <1>1, <1>2, TaskSetTyped

\* A rebuild needs no master.
LEMMA RebuildTyped ==
  ASSUME TypeInv, NEW a \in Agents, Rebuild(a)
  PROVE  task' \in [Agents -> Task] /\ TasksPlaced'
<1> DEFINE t == [Idle EXCEPT !.at = "rebuilding", !.unread = Masters]
<1>1. t \in Task /\ t.at \notin Dying
  BY DEF Task, Idle, Dying
<1>2. task' = [task EXCEPT ![a] = t]
  BY DEF Rebuild
<1>3. QED  BY <1>1, <1>2, TaskSetTyped

\* A write counts what fails on an open socket.
LEMMA WriteTyped ==
  ASSUME TypeInv, NEW m, NEW ok, Write(m, ok)
  PROVE  losses' \in Nat
<1>1. losses \in Nat /\ (losses' = losses \/ losses' = losses + 1)
  BY DEF TypeInv, TypeOK, Write
<1>2. QED  BY <1>1

\* What is taken from the queue.
LEMMA TakenFrame ==
  ASSUME TypeInv, NEW k, NEW type, Takes(k, type)
  PROVE  /\ Head(inbox) \in Frame /\ inbox' \in Seq(Frame)
         /\ Head(inbox).from \in Masters
         /\ type = "REQ" => Head(inbox).about \in Peers
         /\ type = "END" => Head(inbox).about \in Requests
         /\ type = "NOTIFY" => Head(inbox).about \in BOOLEAN
<1>1. inbox \in Seq(Frame)
  BY DEF TypeInv, TypeOK
<1>2. Head(inbox) \in Frame /\ inbox' \in Seq(Frame)
  BY <1>1, HeadTailProperties DEF Takes
<1>3. Head(inbox).type = type
  BY DEF Takes
<1>4. QED  BY <1>2, <1>3 DEF Frame

-----------------------------------------------------------------------------
(* The queue: a peer request is in it once, and until it is taken          *)

\* The peer requests that are sent stay so, but for one that is taken.
SentKept(except) == \A p \in Peers : pc[p] = "sent" /\ p # except => pc'[p] = "sent"

LEMMA QueueKept ==
  ASSUME TypeInv, inbox' = inbox, SentKept(NoOne)
  PROVE  SentOnce'
<1>1. inbox \in Seq(Frame)
  BY DEF TypeInv, TypeOK
<1>2. \A i \in DOMAIN inbox : IsRequest(i) => inbox[i].about \in Peers
  BY <1>1, ElementOfSeq, LenProperties DEF Frame, IsRequest
<1>3. NoOne \notin Peers
  BY NoOneAssumption DEF Requests
<1>4. QED  BY <1>2, <1>3 DEF TypeInv, SentOnce, SentKept, IsRequest

LEMMA QueueTaken ==
  ASSUME TypeInv, inbox # <<>>, inbox' = Tail(inbox),
         SentKept(IF Head(inbox).type = "REQ" THEN Head(inbox).about ELSE NoOne)
  PROVE  SentOnce'
<1>1. inbox \in Seq(Frame)
  BY DEF TypeInv, TypeOK
<1>2. \A i \in DOMAIN inbox : IsRequest(i) => inbox[i].about \in Peers
  BY <1>1, ElementOfSeq, LenProperties DEF Frame, IsRequest
<1>3. NoOne \notin Peers
  BY NoOneAssumption DEF Requests
<1>4. /\ Len(inbox) \in Nat /\ DOMAIN inbox = 1..Len(inbox)
      /\ inbox' \in Seq(Frame) /\ Len(inbox') = Len(inbox) - 1
      /\ \A i \in 1..Len(inbox') : inbox'[i] = inbox[i + 1]
  BY <1>1, LenProperties, HeadTailProperties
<1>5. DOMAIN inbox' = 1..(Len(inbox) - 1) /\ Head(inbox) = inbox[1] /\ Len(inbox) > 0
  BY <1>1, <1>4, LenProperties, EmptySeq
<1>6. \A i \in DOMAIN inbox' : i + 1 \in DOMAIN inbox /\ i + 1 # 1 /\ inbox'[i] = inbox[i + 1]
  BY <1>4, <1>5
<1>7. ASSUME NEW i \in DOMAIN inbox', IsRequest(i)'
      PROVE  /\ pc'[inbox'[i].about] = "sent"
             /\ \A j \in DOMAIN inbox' :
                  IsRequest(j)' /\ inbox'[i].about = inbox'[j].about => i = j
  <2>1. IsRequest(i + 1) /\ i \in Nat
    BY <1>4, <1>5, <1>6, <1>7 DEF IsRequest
  <2>2. Head(inbox).type = "REQ" => inbox[i + 1].about # Head(inbox).about
    BY <1>4, <1>5, <1>6, <2>1 DEF TypeInv, SentOnce, IsRequest
  <2>3. pc'[inbox'[i].about] = "sent"
    BY <1>2, <1>3, <1>6, <2>1, <2>2 DEF TypeInv, SentOnce, SentKept, IsRequest
  <2>4. ASSUME NEW j \in DOMAIN inbox', IsRequest(j)', inbox'[i].about = inbox'[j].about
        PROVE  i = j
    <3>1. IsRequest(j + 1) /\ j \in Nat
      BY <1>4, <1>5, <1>6, <2>4 DEF IsRequest
    <3>2. i + 1 = j + 1
      BY <1>6, <2>1, <2>4, <3>1 DEF TypeInv, SentOnce, IsRequest
    <3>3. QED  BY <2>1, <3>1, <3>2
  <2>5. QED  BY <2>3, <2>4
<1>8. QED  BY <1>7 DEF SentOnce

LEMMA QueueAppended ==
  ASSUME TypeInv, NEW f \in Frame, inbox' = Append(inbox, f), SentKept(NoOne),
         f.type = "REQ" => pc[f.about] # "sent" /\ pc'[f.about] = "sent"
  PROVE  SentOnce'
<1>1. inbox \in Seq(Frame)
  BY DEF TypeInv, TypeOK
<1>2. \A i \in DOMAIN inbox : IsRequest(i) => inbox[i].about \in Peers
  BY <1>1, ElementOfSeq, LenProperties DEF Frame, IsRequest
<1>3. NoOne \notin Peers
  BY NoOneAssumption DEF Requests
<1>4. /\ Len(inbox) \in Nat /\ DOMAIN inbox = 1..Len(inbox)
      /\ DOMAIN inbox' = 1..(Len(inbox) + 1)
      /\ \A i \in 1..Len(inbox) : inbox'[i] = inbox[i]
      /\ inbox'[Len(inbox) + 1] = f
  BY <1>1, LenProperties, AppendProperties
<1>5. \A i \in DOMAIN inbox' : i \in DOMAIN inbox \/ i = Len(inbox) + 1
  BY <1>4
<1>6. \A i \in DOMAIN inbox : IsRequest(i) => inbox[i].about # f.about \/ f.type # "REQ"
  BY DEF TypeInv, SentOnce
<1>7. \A i \in DOMAIN inbox : inbox'[i] = inbox[i] /\ i # Len(inbox) + 1 /\ (IsRequest(i)' <=> IsRequest(i))
  BY <1>4 DEF IsRequest
<1>8. ASSUME NEW i \in DOMAIN inbox', IsRequest(i)'
      PROVE  pc'[inbox'[i].about] = "sent"
  BY <1>2, <1>3, <1>4, <1>5, <1>7, <1>8 DEF TypeInv, SentOnce, SentKept, IsRequest
<1>9. ASSUME NEW i \in DOMAIN inbox', IsRequest(i)', NEW j \in DOMAIN inbox', IsRequest(j)',
             inbox'[i].about = inbox'[j].about
      PROVE  i = j
  <2>1. CASE i \in DOMAIN inbox /\ j \in DOMAIN inbox
    BY <1>7, <1>9, <2>1 DEF TypeInv, SentOnce
  <2>2. CASE i = Len(inbox) + 1 /\ j \in DOMAIN inbox
    BY <1>4, <1>6, <1>7, <1>9, <2>2 DEF IsRequest
  <2>3. CASE j = Len(inbox) + 1 /\ i \in DOMAIN inbox
    BY <1>4, <1>6, <1>7, <1>9, <2>3 DEF IsRequest
  <2>4. QED  BY <1>5, <2>1, <2>2, <2>3
<1>10. QED  BY <1>8, <1>9 DEF SentOnce

\* A terminal more, or none.
LEMMA DeliverTyped ==
  ASSUME TypeInv, NEW r \in Requests, Deliver(r)
  PROVE  told' \in [Requests -> Nat] /\ losses' \in Nat
<1>1. told \in [Requests -> Nat] /\ losses \in Nat
  BY DEF TypeInv, TypeOK
<1>2. told' = [told EXCEPT ![r] = @ + 1] \/ told' = told
  BY DEF Deliver
<1>3. losses' \in Nat
  BY <1>1, WriteTyped DEF Deliver
<1>4. QED  BY <1>1, <1>2, <1>3

\* A peer request that is taken is one that was sent.
LEMMA TakenIsSent ==
  ASSUME TypeInv, NEW k, Takes(k, "REQ")
  PROVE  pc[Head(inbox).about] = "sent"
<1>1. inbox \in Seq(Frame) /\ inbox # <<>> /\ Head(inbox).type = "REQ"
  BY DEF TypeInv, TypeOK, Takes
<1>2. 1 \in DOMAIN inbox /\ Head(inbox) = inbox[1]
  BY <1>1, LenProperties, EmptySeq
<1>3. QED  BY <1>1, <1>2 DEF TypeInv, SentOnce, IsRequest

Doing == {"idle", "peer", "reply", "stuck", "notify", "hold", "probe"}

\* A pump turns to something else.
LEMMA TurnTyped ==
  ASSUME TypeInv, NEW k \in Pumps, NEW what \in Doing,
         NEW on \in Requests \cup Masters \cup {NoOne}, Turn(k, what, on)
  PROVE  /\ pump' \in [Pumps -> Doing] /\ job' \in [Pumps -> Requests \cup Masters \cup {NoOne}]
         /\ pump'[k] = what /\ job'[k] = on
         /\ \A l \in Pumps \ {k} : pump'[l] = pump[l] /\ job'[l] = job[l]
  BY DEF TypeInv, TypeOK, Doing, Turn

\* One terminal more has been delivered.
LEMMA ToldTyped ==
  ASSUME TypeInv, NEW r \in Requests, told' = [told EXCEPT ![r] = @ + 1]
  PROVE  told' \in [Requests -> Nat]
  BY DEF TypeInv, TypeOK

\* The new connection is counted, and down.
LEMMA LoseArrivingTyped ==
  ASSUME TypeInv, NEW m \in Masters, LoseArriving(m)
  PROVE  newcomer' \in [master : Masters \cup {NoOne}, up : BOOLEAN] /\ losses' \in Nat
<1>1. losses' \in Nat
  BY DEF TypeInv, TypeOK, LoseArriving
<1>2. newcomer = [master |-> m, up |-> TRUE] /\ newcomer' = [newcomer EXCEPT !.up = FALSE]
  BY DEF LoseArriving, Arriving
<1>3. newcomer' = [master |-> m, up |-> FALSE]
  BY <1>2
<1>4. QED  BY <1>1, <1>3

Progress == {"new", "sent", "routed", "registered", "open", "failing", "failed", "refused"}

\* A request whose destination is a master is written, or its master declared dead.
LEMMA WriteRequestTyped ==
  ASSUME TypeInv, NEW a \in Agents, NEW r \in Requests, WriteRequest(a, r)
  PROVE  TypeOK' /\ Placed'
<1>1. task' \in [Agents -> Task] /\ TasksPlaced'
  <2>1. dest[r] \in Masters
    BY DEF WriteRequest, TypeInv, Placed
  <2>2. task \in [Agents -> Task] /\ TasksPlaced
    BY DEF TypeInv, TypeOK, Placed, TasksPlaced
  <2>3. CASE UNCHANGED task
    BY <2>2, <2>3 DEF TasksPlaced
  <2>4. CASE DeclareDead(a, dest[r])
    BY <2>1, <2>4, DeclareDeadTyped
  <2>5. QED  BY <2>3, <2>4 DEF WriteRequest
<1>2. pc \in [Requests -> Progress] /\ onHost \subseteq Requests /\ dest[r] \in Masters
  BY DEF TypeInv, TypeOK, Placed, WriteRequest, Progress
<1>3. PICK s \in {"open", "failing"} : pc' = [pc EXCEPT ![r] = s]
  BY DEF WriteRequest
<1>4. pc' \in [Requests -> Progress] /\ onHost' \subseteq onHost \cup {r}
      /\ forsaken' \subseteq forsaken \cup {r}
  BY <1>2, <1>3 DEF WriteRequest, Progress
<1>5. UNCHANGED <<masterVars, linkVars, capTable, tableVars, home, told, pumpVars,
                  cancelVars, probeVars, notices>>
  BY DEF WriteRequest
<1>6. TypeOK'
  <2>1. losses' \in Nat
    BY WriteTyped DEF WriteRequest
  <2>2. QED  BY <1>1, <1>2, <1>4, <1>5, <2>1 DEF TypeInv, TypeOK, Progress, masterVars, linkVars,
     tableVars, pumpVars, cancelVars, probeVars
<1>7. pc[r] = "registered"
  BY DEF WriteRequest
<1>8. Placed'
  <2>1. \A q \in Requests : pc'[q] = pc[q] \/ (q = r /\ pc'[q] \in {"open", "failing"} /\ pc[q] = "registered")
    BY <1>2, <1>3, <1>7
  <2>2. UNCHANGED <<dest, entries, home, pump, job, driver, target>>
    BY <1>5 DEF tableVars, pumpVars, probeVars
  <2>3. QED  BY <1>1, <1>2, <1>4, <2>1, <2>2 DEF TypeInv, TypeOK, Placed, TasksPlaced, Requests
<1>9. QED  BY <1>6, <1>8 DEF TypeInv

\* A peer request is refused, or goes to a master of the table.
LEMMA TakeRequestTyped ==
  ASSUME TypeInv, NEW k \in Pumps, TakeRequest(k)
  PROVE  TypeOK' /\ Placed'
<1> DEFINE p == Head(inbox).about
<1>1. p \in Peers /\ p \in Requests /\ inbox' \in Seq(Frame)
  BY TakenFrame DEF TakeRequest, Requests
<1>2. /\ pc \in [Requests -> Progress] /\ dest \in [Requests -> Masters \cup {NoOne}]
      /\ pump \in [Pumps -> Doing] /\ job \in [Pumps -> Requests \cup Masters \cup {NoOne}]
      /\ capTable \subseteq Masters
  BY DEF TypeInv, TypeOK, Progress, Doing
<1>3. told' \in [Requests -> Nat] /\ losses' \in Nat
  <2>1. Deliver(p) \/ (told' = told /\ losses' = losses)
    BY DEF TakeRequest
  <2>2. QED  BY <1>1, <2>1, DeliverTyped DEF TypeInv, TypeOK
<1>4. UNCHANGED <<masterVars, linkVars, capTable, entries, children, home, onHost, forsaken,
                  cancelVars, probeVars, task, notices>>
  BY DEF TakeRequest
<1>5. \/ pc' = [pc EXCEPT ![p] = "refused"] /\ UNCHANGED <<dest, pump, job>>
      \/ /\ \E m \in capTable : dest' = [dest EXCEPT ![p] = m]
         /\ pc' = [pc EXCEPT ![p] = "routed"]
         /\ pump' = [pump EXCEPT ![k] = "peer"] /\ job' = [job EXCEPT ![k] = p]
  BY DEF TakeRequest, Turn
<1>6. /\ pc' \in [Requests -> Progress] /\ dest' \in [Requests -> Masters \cup {NoOne}]
      /\ pump' \in [Pumps -> Doing] /\ job' \in [Pumps -> Requests \cup Masters \cup {NoOne}]
  <2>1. CASE pc' = [pc EXCEPT ![p] = "refused"] /\ UNCHANGED <<dest, pump, job>>
    BY <1>1, <1>2, <2>1 DEF Progress
  <2>2. CASE /\ \E m \in capTable : dest' = [dest EXCEPT ![p] = m]
             /\ pc' = [pc EXCEPT ![p] = "routed"]
             /\ pump' = [pump EXCEPT ![k] = "peer"] /\ job' = [job EXCEPT ![k] = p]
    BY <1>1, <1>2, <2>2 DEF Progress, Doing
  <2>3. QED  BY <1>5, <2>1, <2>2
<1>7. TypeOK'
  <2>1. \A r \in Requests : dest[r] \in Masters => dest'[r] \in Masters
    BY <1>1, <1>2, <1>5
  <2>2. QED
    BY <1>1, <1>3, <1>4, <1>6, <2>1
    DEF TypeInv, TypeOK, Progress, Doing, masterVars, linkVars, cancelVars, probeVars
<1>8. Placed'
  <2>1. UNCHANGED <<onHost, entries, home, driver, target, task>>
    BY <1>4 DEF probeVars
  <2>2. \A r \in Requests : /\ dest[r] \in Masters => dest'[r] \in Masters
                            /\ pc'[r] \notin {"new", "sent", "refused"} =>
                                 dest'[r] \in Masters \/ (r # p /\ pc'[r] = pc[r])
                            /\ r # p => pc'[r] = pc[r]
                            /\ pc'[p] # "new"
    BY <1>1, <1>2, <1>5
  <2>3. \A r \in Peers : pc'[r] # "new" => home[r] \in Masters
    <3>1. home[p] \in Masters
      BY <1>1, TakenIsSent DEF TypeInv, Placed, TakeRequest
    <3>2. QED  BY <2>2, <3>1 DEF TypeInv, Placed, Requests
  <2>4. \A l \in Pumps : (pump'[l] = pump[l] /\ job'[l] = job[l]) \/ (pump'[l] = "peer" /\ job'[l] = p)
    BY <1>2, <1>5
  <2>5. QED  BY <1>1, <2>1, <2>2, <2>3, <2>4 DEF TypeInv, TypeOK, Placed, Requests
<1>9. QED  BY <1>7, <1>8 DEF TypeInv

LEMMA PlacesKept == TypeInv /\ [Next]_vars => TypeOK' /\ Placed'
<1> SUFFICES ASSUME TypeInv, [Next]_vars PROVE TypeOK' /\ Placed'
  OBVIOUS
<1> USE NoOneAssumption, ParentAssumption
<1> USE DEF TypeInv, TypeOK, Placed, TasksPlaced, Dying, Quiet, Requests, Agents,
            masterVars, linkVars, tableVars, requestVars, pumpVars, cancelVars, probeVars, boundVars
<1>1. ASSUME NEW a \in Agents, Inspect(a) PROVE TypeOK' /\ Placed'
  <2>1. task' \in [Agents -> Task] /\ TasksPlaced'
    <3>1. PICK at \in {"inspected", "handled"} : task' = [task EXCEPT ![a].at = at]
      BY <1>1 DEF Inspect
    <3>2. task[a] \in Task /\ task[a].master \in Masters
      BY <1>1 DEF Inspect
    <3> DEFINE t == [task[a] EXCEPT !.at = at]
    <3>3. t \in Task /\ t.master \in Masters
      BY <3>2 DEF Task
    <3>4. task' = [task EXCEPT ![a] = t]
      BY <3>1
    <3>5. QED  BY <3>3, <3>4, TaskSetTyped
  <2>2. QED  BY <1>1, <2>1 DEF Inspect
<1>2. ASSUME NEW a \in Agents, Retire(a) PROVE TypeOK' /\ Placed'
  <2>1. PICK m \in Masters : m = task[a].master
    BY <1>2 DEF Retire
  <2> DEFINE t == [task[a] EXCEPT !.at = "retired"]
  <2>2. t \in Task /\ t.master \in Masters /\ Idle \in Task /\ Idle.at = "none"
    <3>1. task[a] \in Task
      OBVIOUS
    <3>2. QED  BY <2>1, <3>1 DEF Task, Idle
  <2>3. task' \in [Agents -> Task] /\ TasksPlaced'
    <3>1. task' = [task EXCEPT ![a] = t] \/ task' = [task EXCEPT ![a] = Idle]
      BY <1>2, <2>1 DEF Retire
    <3> HIDE DEF t
    <3>2. QED  BY <2>2, <3>1, TaskSetTyped
  <2>4. forsaken' \subseteq Requests /\ driver' \in {driver, "lost"} /\ (driver' = "lost" => driver # "idle")
    <3>1. DeadKeys(m) \subseteq Requests
      BY DEF DeadKeys
    <3>2. forsaken' \subseteq forsaken \cup DeadKeys(m)
      BY <1>2, <2>1 DEF Retire
    <3>3. driver' = CutOff(m)
      BY <1>2, <2>1 DEF Retire
    <3>4. driver = "idle" \/ driver # "idle"
      OBVIOUS
    <3>5. QED  BY <3>1, <3>2, <3>3, <3>4 DEF CutOff
  <2>5. QED  BY <1>2, <2>3, <2>4 DEF Retire
<1>3. ASSUME NEW a \in Agents, Condemn(a) PROVE TypeOK' /\ Placed'
  <2>1. task' \in [Agents -> Task] /\ TasksPlaced'
    <3> DEFINE t == [task[a] EXCEPT !.at = "condemned"]
    <3>1. task[a] \in Task /\ task[a].master \in Masters
      BY <1>3 DEF Condemn
    <3>2. t \in Task /\ t.master \in Masters
      BY <3>1 DEF Task
    <3>3. task' = [task EXCEPT ![a] = t]
      BY <1>3 DEF Condemn
    <3>4. QED  BY <3>2, <3>3, TaskSetTyped
  <2>2. QED  BY <1>3, <2>1 DEF Condemn
<1>4. ASSUME NEW a \in Agents, LookUp(a) PROVE TypeOK' /\ Placed'
  <2>1. task' \in [Agents -> Task] /\ TasksPlaced'
    <3> DEFINE t == [Idle EXCEPT !.at = "rebuilding", !.unread = Masters,
                                 !.keys = DeadKeys(task[a].master)]
    <3>1. t \in Task /\ t.at = "rebuilding"
      BY DEF Task, Idle, DeadKeys
    <3>2. task' = [task EXCEPT ![a] = t]
      BY <1>4 DEF LookUp
    <3>3. QED  BY <3>1, <3>2, TaskSetTyped
  <2>2. QED  BY <1>4, <2>1 DEF LookUp
<1>5. ASSUME NEW a \in Agents, Sweep(a) PROVE TypeOK' /\ Placed'
  <2>1. task' \in [Agents -> Task] /\ TasksPlaced'
    <3>1. PICK r \in task[a].keys : task' = [task EXCEPT ![a].keys = @ \ {r}]
      BY <1>5 DEF Sweep
    <3> DEFINE t == [task[a] EXCEPT !.keys = @ \ {r}]
    <3>2. task[a] \in Task /\ task[a].at = "rebuilding"
      BY <1>5 DEF Sweep
    <3>3. t \in Task /\ t.at = "rebuilding"
      <4>1. task[a].keys \ {r} \in SUBSET Requests
        BY <3>2 DEF Task
      <4>2. QED  BY <3>2, <4>1 DEF Task
    <3>4. task' = [task EXCEPT ![a] = t]
      BY <3>1
    <3>5. QED  BY <3>3, <3>4, TaskSetTyped
  <2>2. told' \in [Requests -> Nat] /\ losses' \in Nat
    BY <1>5, DeliverTyped DEF Sweep, Task
  <2>3. QED  BY <1>5, <2>1, <2>2 DEF Sweep
<1>6. ASSUME NEW a \in Agents, ReadMaster(a) PROVE TypeOK' /\ Placed'
  <2>1. task' \in [Agents -> Task] /\ TasksPlaced'
    <3>1. PICK m : /\ m = CHOOSE n \in task[a].unread : TRUE
                   /\ task' = [task EXCEPT ![a].unread = @ \ {m},
                                 ![a].seen = IF healthy[m] /\ caps[m] THEN @ \cup {m} ELSE @]
      BY <1>6 DEF ReadMaster
    <3>2. task[a] \in Task /\ task[a].at = "rebuilding" /\ task[a].unread # {}
      BY <1>6 DEF ReadMaster
    <3>3. m \in Masters
      BY <3>1, <3>2 DEF Task
    <3> DEFINE t == [task[a] EXCEPT !.unread = @ \ {m},
                                    !.seen = IF healthy[m] /\ caps[m] THEN @ \cup {m} ELSE @]
    <3>4. t \in Task /\ t.at = "rebuilding"
      <4>1. /\ task[a].unread \ {m} \in SUBSET Masters
            /\ task[a].seen \in SUBSET Masters /\ task[a].seen \cup {m} \in SUBSET Masters
        BY <3>2, <3>3 DEF Task
      <4>2. QED  BY <3>2, <4>1 DEF Task
    <3>5. task' = [task EXCEPT ![a] = t]
      BY <3>1, <3>2 DEF Task
    <3>6. QED  BY <3>4, <3>5, TaskSetTyped
  <2>2. QED  BY <1>6, <2>1 DEF ReadMaster
<1>7. ASSUME NEW a \in Agents, WriteTable(a) PROVE TypeOK' /\ Placed'
  <2>1. task' \in [Agents -> Task] /\ TasksPlaced'
    BY <1>7, TaskSetTyped, IdleTyped DEF WriteTable, Idle
  <2>2. capTable' \subseteq Masters
    BY <1>7 DEF WriteTable, Task
  <2>3. QED  BY <1>7, <2>1, <2>2 DEF WriteTable
<1>8. ASSUME NEW c \in Calls, Route(c) PROVE TypeOK' /\ Placed'
  BY <1>8 DEF Route
<1>9. ASSUME NEW r \in Requests, Register(r) PROVE TypeOK' /\ Placed'
  BY <1>9 DEF Register, Linked
<1>10. ASSUME NEW a \in Agents, NEW r \in Requests, WriteRequest(a, r) PROVE TypeOK' /\ Placed'
  BY <1>10, WriteRequestTyped
<1>11. ASSUME NEW a \in Agents, NEW r \in Requests, GiveUp(a, r) PROVE TypeOK' /\ Placed'
  BY <1>11 DEF GiveUp
<1>12. ASSUME NEW k \in Pumps, TakeRequest(k) PROVE TypeOK' /\ Placed'
  BY <1>12, TakeRequestTyped
<1>13. ASSUME NEW k \in Pumps, PeerDone(k) PROVE TypeOK' /\ Placed'
  BY <1>13 DEF PeerDone, Turn
<1>14. ASSUME NEW k \in Pumps, TakeTerminal(k) PROVE TypeOK' /\ Placed'
  <2>1. inbox' \in Seq(Frame) /\ Head(inbox).about \in Requests
    BY <1>14, TakenFrame DEF TakeTerminal
  <2>2. told' \in [Requests -> Nat]
    BY <1>14, <2>1 DEF TakeTerminal
  <2>3. PICK r \in Requests : r = Head(inbox).about
    BY <2>1
  <2>4. (Turn(k, "reply", r) /\ r \in Peers /\ r \in entries) \/ UNCHANGED <<pump, job>>
    BY <1>14, <2>3 DEF TakeTerminal
  <2>5. /\ job' \in [Pumps -> Requests \cup Masters \cup {NoOne}] /\ pump' \in [Pumps -> Doing]
        /\ \A l \in Pumps : \/ pump'[l] = pump[l] /\ job'[l] = job[l]
                            \/ pump'[l] = "reply" /\ job'[l] = r /\ r \in Peers /\ pc[r] # "new"
    <3>1. CASE Turn(k, "reply", r) /\ r \in Peers /\ r \in entries
      BY <2>3, <3>1, TurnTyped DEF Doing
    <3>2. CASE UNCHANGED <<pump, job>>
      BY <3>2 DEF Doing
    <3>3. QED  BY <2>4, <3>1, <3>2
  <2>6. UNCHANGED <<masterVars, linkVars, capTable, dest, children, pc, home, onHost, forsaken,
                    cancelVars, probeVars, task, boundVars>> /\ entries' \subseteq entries
    BY <1>14 DEF TakeTerminal
  <2>7. QED  BY <2>1, <2>2, <2>5, <2>6 DEF Doing
<1>15. ASSUME NEW k \in Pumps, Reply(k) PROVE TypeOK' /\ Placed'
  <2>1. task' \in [Agents -> Task] /\ TasksPlaced'
    BY <1>15, DeclareDeadTyped DEF Reply
  <2>2. told' \in [Requests -> Nat]
    <3>1. job[k] \in Requests
      BY <1>15 DEF Reply
    <3>2. told' = [told EXCEPT ![job[k]] = @ + 1] \/ told' = told
      BY <1>15 DEF Reply
    <3>3. QED  BY <3>1, <3>2, ToldTyped
  <2>3. losses' \in Nat
    BY <1>15, WriteTyped DEF Reply
  <2>4. CASE Turn(k, "idle", NoOne)
    BY <1>15, <2>1, <2>2, <2>4, <2>3 DEF Reply, Turn
  <2>5. CASE Turn(k, "stuck", NoOne)
    BY <1>15, <2>1, <2>2, <2>5, <2>3 DEF Reply, Turn
  <2>6. QED  BY <1>15, <2>4, <2>5 DEF Reply, Turn
<1>16. ASSUME NEW k \in Pumps, Unstick(k) PROVE TypeOK' /\ Placed'
  BY <1>16 DEF Unstick, Turn
<1>17. ASSUME NEW k \in Pumps, TakeEof(k) PROVE TypeOK' /\ Placed'
  <2>1. inbox' \in Seq(Frame)
    BY <1>17, TakenFrame DEF TakeEof
  <2>2. task' \in [Agents -> Task] /\ TasksPlaced'
    BY <1>17, TakenFrame, DeclareDeadTyped DEF TakeEof
  <2>3. QED  BY <1>17, <2>1, <2>2 DEF TakeEof
<1>18. ASSUME NEW k \in Pumps, TakeNotify(k) PROVE TypeOK' /\ Placed'
  <2>1. inbox' \in Seq(Frame) /\ Head(inbox).from \in Masters /\ Head(inbox).about \in BOOLEAN
    BY <1>18, TakenFrame DEF TakeNotify
  <2>2. task' \in [Agents -> Task] /\ TasksPlaced'
    BY <1>18, RebuildTyped DEF TakeNotify
  <2>3. UNCHANGED <<healthy, reader, linkVars, capTable, tableVars, requestVars, cancelVars,
                    probeVars, boundVars>>
    BY <1>18 DEF TakeNotify
  <2>4. \/ /\ caps' = [caps EXCEPT ![Head(inbox).from] = Head(inbox).about]
           /\ \E what \in {"hold", "notify"} : Turn(k, what, Head(inbox).from)
        \/ UNCHANGED <<caps, pump, job>>
    BY <1>18 DEF TakeNotify
  <2>5. /\ caps' \in [Masters -> BOOLEAN] /\ pump' \in [Pumps -> Doing]
        /\ job' \in [Pumps -> Requests \cup Masters \cup {NoOne}]
        /\ \A l \in Pumps : \/ pump'[l] = pump[l] /\ job'[l] = job[l]
                            \/ pump'[l] \in {"hold", "notify"} /\ job'[l] \in Masters
    <3>1. PICK m \in Masters : m = Head(inbox).from
      BY <2>1
    <3>2. caps' \in [Masters -> BOOLEAN]
      BY <2>1, <2>4
    <3>3. CASE \E what \in {"hold", "notify"} : Turn(k, what, m)
      <4>1. PICK what \in {"hold", "notify"} : Turn(k, what, m)
        BY <3>3
      <4>2. QED  BY <3>1, <3>2, <4>1, TurnTyped DEF Doing
    <3>4. CASE UNCHANGED <<pump, job>>
      BY <3>2, <3>4 DEF Doing
    <3>5. QED  BY <2>4, <3>1, <3>3, <3>4
  <2>6. QED  BY <2>1, <2>2, <2>3, <2>5 DEF Doing
<1>19. ASSUME NEW k \in Pumps, HoldBack(k) PROVE TypeOK' /\ Placed'
  <2>1. task' \in [Agents -> Task] /\ TasksPlaced'
    BY <1>19, RebuildTyped DEF HoldBack
  <2>2. QED  BY <1>19, <2>1 DEF HoldBack, Turn
<1>20. ASSUME NEW k \in Pumps, NotifyDone(k) PROVE TypeOK' /\ Placed'
  <2>1. probes' \in Seq(Masters)
    BY <1>20 DEF NotifyDone
  <2>2. QED  BY <1>20, <2>1 DEF NotifyDone, Turn
<1>21. ASSUME NEW c \in Calls, Cancel(c) PROVE TypeOK' /\ Placed'
  <2>1. task' \in [Agents -> Task] /\ TasksPlaced'
    BY <1>21, DeclareDeadTyped DEF Cancel, SendCancel
  <2>2. losses' \in Nat
    BY <1>21, WriteTyped DEF Cancel, SendCancel
  <2>3. QED  BY <1>21, <2>1, <2>2 DEF Cancel, SendCancel
<1>22. ASSUME CancelChild PROVE TypeOK' /\ Placed'
  <2>1. PICK p \in cascade :
          IF p \in entries
            THEN /\ cascade' = (cascade \ {p}) \cup Descend(p)
                 /\ entries' = entries \ {p}
                 /\ cancelled' = cancelled \cup {p}
                 /\ SendCancel(p)
            ELSE /\ cascade' = cascade \ {p}
                 /\ UNCHANGED <<entries, cancelled, task, losses>>
    BY <1>22 DEF CancelChild
  <2>2. task' \in [Agents -> Task] /\ TasksPlaced'
    BY <2>1, DeclareDeadTyped DEF SendCancel
  <2>3. losses' \in Nat
    BY <2>1, WriteTyped DEF SendCancel
  <2>4. p \in Peers /\ Descend(p) \subseteq Peers
    BY <2>1 DEF Descend
  <2>5. entries' \subseteq entries /\ cancelled' \subseteq Requests /\ cascade' \subseteq Peers
    BY <2>1, <2>4
  <2>6. UNCHANGED <<masterVars, linkVars, capTable, dest, children, requestVars, pumpVars,
                    canceller, probeVars, notices>>
    BY <1>22 DEF CancelChild
  <2>7. QED  BY <2>2, <2>3, <2>5, <2>6
<1>23. ASSUME CancelDone PROVE TypeOK' /\ Placed'
  BY <1>23 DEF CancelDone
<1>24. ASSUME ProbeStart PROVE TypeOK' /\ Placed'
  <2>1. Head(probes) \in Masters /\ Tail(probes) \in Seq(Masters)
    BY <1>24, HeadTailProperties DEF ProbeStart
  <2>2. task' \in [Agents -> Task] /\ TasksPlaced'
    BY <1>24, <2>1, DeclareDeadTyped DEF ProbeStart
  <2>3. losses' \in Nat
    BY <1>24, WriteTyped DEF ProbeStart
  <2>4. QED  BY <1>24, <2>1, <2>2, <2>3 DEF ProbeStart
<1>25. ASSUME ProbeAnswered PROVE TypeOK' /\ Placed'
  BY <1>25 DEF ProbeAnswered
<1>26. ASSUME ProbeFails PROVE TypeOK' /\ Placed'
  BY <1>26 DEF ProbeFails
<1>27. ASSUME ProbeVerdict PROVE TypeOK' /\ Placed'
  <2>1. task' \in [Agents -> Task] /\ TasksPlaced'
    BY <1>27, RebuildTyped DEF ProbeVerdict
  <2>2. QED  BY <1>27, <2>1 DEF ProbeVerdict
<1>28. ASSUME NEW p \in Peers, MakePeerRequest(p) PROVE TypeOK' /\ Placed'
  <2>1. dest[Parent[p]] \in Masters
    BY <1>28 DEF MakePeerRequest
  <2>2. inbox' \in Seq(Frame)
    BY <1>28, <2>1 DEF MakePeerRequest, Frame
  <2>3. QED  BY <1>28, <2>1, <2>2 DEF MakePeerRequest
<1>29. ASSUME NEW r \in Requests, Answer(r) PROVE TypeOK' /\ Placed'
  <2>1. inbox' \in Seq(Frame)
    BY <1>29 DEF Answer, Frame
  <2>2. QED  BY <1>29, <2>1 DEF Answer
<1>30. ASSUME NEW m \in Masters, Notify(m) PROVE TypeOK' /\ Placed'
  <2>1. inbox' \in Seq(Frame)
    BY <1>30 DEF Notify, Frame
  <2>2. QED  BY <1>30, <2>1 DEF Notify
<1>31. ASSUME NEW m \in Masters, Lose(m) PROVE TypeOK' /\ Placed'
  <2>1. inbox' \in Seq(Frame)
    BY <1>31 DEF Lose, Eof, Frame
  <2>2. driver' \in {driver, "lost"} /\ (driver' = "lost" => driver # "idle")
    BY <1>31 DEF Lose, CutOff
  <2>3. onHost' \subseteq onHost
    BY <1>31 DEF Lose, Abandoned
  <2>4. QED  BY <1>31, <2>1, <2>2, <2>3 DEF Lose
<1>32. ASSUME NEW m \in Masters, Arrive(m) PROVE TypeOK' /\ Placed'
  BY <1>32 DEF Arrive
<1>33. ASSUME NEW m \in Masters, LoseArriving(m) PROVE TypeOK' /\ Placed'
  <2>1. inbox' \in Seq(Frame)
    BY <1>33 DEF LoseArriving, Eof, Frame
  <2>2. newcomer' \in [master : Masters \cup {NoOne}, up : BOOLEAN] /\ losses' \in Nat
    BY <1>33, LoseArrivingTyped
  <2>3. UNCHANGED <<masterVars, link, capTable, tableVars, requestVars, pump, job, cancelVars,
                    probeVars, task, notices>>
    BY <1>33 DEF LoseArriving
  <2>4. QED  BY <2>1, <2>2, <2>3
<1>34. ASSUME NEW m \in Masters, Attach(m) PROVE TypeOK' /\ Placed'
  <2>1. task' \in [Agents -> Task] /\ TasksPlaced'
    BY <1>34, RebuildTyped DEF Attach
  <2>2. onHost' \subseteq onHost /\ newcomer.up \in BOOLEAN
    BY <1>34 DEF Attach, Abandoned
  <2>3. QED  BY <1>34, <2>1, <2>2 DEF Attach, Nobody
<1>35. CASE UNCHANGED vars
  BY <1>35 DEF vars
<1>36. QED
  BY <1>1, <1>2, <1>3, <1>4, <1>5, <1>6, <1>7, <1>8, <1>9, <1>10, <1>11, <1>12, <1>13,
     <1>14, <1>15, <1>16, <1>17, <1>18, <1>19, <1>20, <1>21, <1>22, <1>23, <1>24, <1>25,
     <1>26, <1>27, <1>28, <1>29, <1>30, <1>31, <1>32, <1>33, <1>34, <1>35
  DEF Next, TaskStep, CallStep, PumpStep, PeerStep, DriverStep

\* The queue changes by a frame that is taken or one that is added.
LEMMA SentOnceKept == TypeInv /\ [Next]_vars => SentOnce'
<1> SUFFICES ASSUME TypeInv, [Next]_vars PROVE SentOnce'
  OBVIOUS
<1> USE DEF requestVars, pumpVars, TypeInv
<1>1. /\ pc \in [Requests -> Progress] /\ Peers \subseteq Requests /\ NoOne \notin Requests
      /\ Parent \in [Peers -> Requests] /\ inbox \in Seq(Frame) /\ Calls \cap Peers = {}
  BY NoOneAssumption, ParentAssumption DEF TypeOK, Progress, Requests
<1>2. ASSUME inbox' = inbox, pc' = pc PROVE SentOnce'
  BY <1>2, QueueKept DEF SentKept
<1>3. ASSUME NEW f \in Frame, inbox' = Append(inbox, f), pc' = pc, f.type # "REQ" PROVE SentOnce'
  BY <1>3, QueueAppended DEF SentKept
<1>4. ASSUME NEW k, NEW type, Takes(k, type), pc' = pc PROVE SentOnce'
  BY <1>4, QueueTaken DEF Takes, SentKept
<1>5. ASSUME NEW a \in Agents, TaskStep(a) PROVE SentOnce'
  BY <1>2, <1>5 DEF TaskStep, Inspect, Retire, Condemn, LookUp, Sweep, ReadMaster,
     WriteTable
<1>6. ASSUME NEW r \in Requests, NEW a \in Agents, NEW s \in Progress, inbox' = inbox,
             pc[r] # "sent", pc' = [pc EXCEPT ![r] = s]
      PROVE  SentOnce'
  BY <1>1, <1>6, QueueKept DEF SentKept
<1>7. ASSUME NEW r \in Requests, NEW a \in Agents, Register(r) \/ WriteRequest(a, r) \/ GiveUp(a, r)
      PROVE  SentOnce'
  <2>1. pc[r] # "sent" /\ inbox' = inbox /\ \E s \in Progress : pc' = [pc EXCEPT ![r] = s]
    BY <1>7 DEF Register, WriteRequest, GiveUp, Progress
  <2>2. QED  BY <1>6, <2>1
<1>8. ASSUME NEW c \in Calls, Route(c) PROVE SentOnce'
  <2>1. pc[c] # "sent" /\ inbox' = inbox /\ pc' = [pc EXCEPT ![c] = "routed"] /\ c \in Requests /\ c \in Agents
    BY <1>8 DEF Route, Requests, Agents
  <2>2. QED  BY <1>6, <2>1 DEF Progress
<1>9. ASSUME NEW c \in Calls, CallStep(c) PROVE SentOnce'
  BY <1>7, <1>9 DEF CallStep, Requests, Agents
<1>10. ASSUME NEW k \in Pumps, PeerStep(k) PROVE SentOnce'
  BY <1>7, <1>10 DEF PeerStep, Requests, Agents
<1>11. ASSUME NEW k \in Pumps, TakeRequest(k) PROVE SentOnce'
  <2>1. /\ inbox # <<>> /\ inbox' = Tail(inbox) /\ Head(inbox).type = "REQ"
        /\ \E s \in Progress : pc' = [pc EXCEPT ![Head(inbox).about] = s]
    BY <1>11 DEF TakeRequest, Takes, Progress
  <2>2. Head(inbox).about \in Peers
    BY <1>11, TakenFrame DEF TakeRequest
  <2>3. QED  BY <1>1, <2>1, <2>2, QueueTaken DEF SentKept
<1>12. ASSUME NEW k \in Pumps,
              PeerDone(k) \/ Reply(k) \/ Unstick(k) \/ HoldBack(k) \/ NotifyDone(k)
       PROVE  SentOnce'
  BY <1>2, <1>12 DEF PeerDone, Reply, Unstick, HoldBack, NotifyDone
<1>13. ASSUME NEW k \in Pumps, TakeTerminal(k) \/ TakeEof(k) \/ TakeNotify(k) PROVE SentOnce'
  BY <1>4, <1>13 DEF TakeTerminal, TakeEof, TakeNotify
<1>14. ASSUME NEW c \in Calls, Cancel(c) PROVE SentOnce'
  BY <1>2, <1>14 DEF Cancel
<1>15. ASSUME CancelChild \/ CancelDone \/ DriverStep PROVE SentOnce'
  BY <1>2, <1>15 DEF CancelChild, CancelDone, DriverStep, ProbeStart, ProbeAnswered,
     ProbeFails, ProbeVerdict
<1>16. ASSUME NEW p \in Peers, MakePeerRequest(p) PROVE SentOnce'
  <2> DEFINE f == [type |-> "REQ", from |-> dest[Parent[p]], about |-> p]
  <2>1. f \in Frame
    BY <1>16 DEF MakePeerRequest, Placed, Frame
  <2>2. inbox' = Append(inbox, f) /\ pc[p] = "new" /\ pc' = [pc EXCEPT ![p] = "sent"]
    BY <1>16 DEF MakePeerRequest
  <2>3. QED  BY <1>1, <2>1, <2>2, QueueAppended DEF SentKept
<1>17. ASSUME NEW r \in Requests, Answer(r) PROVE SentOnce'
  <2> DEFINE f == [type |-> "END", from |-> dest[r], about |-> r]
  <2>1. f \in Frame /\ f.type # "REQ"
    BY <1>17 DEF Answer, Placed, Frame
  <2>2. (inbox' = inbox \/ inbox' = Append(inbox, f)) /\ pc' = pc
    BY <1>17 DEF Answer
  <2>3. QED  BY <1>2, <1>3, <2>1, <2>2
<1>18. ASSUME NEW m \in Masters, Notify(m) PROVE SentOnce'
  <2>1. PICK some \in BOOLEAN : inbox' = Append(inbox, [type |-> "NOTIFY", from |-> m, about |-> some])
    BY <1>18 DEF Notify
  <2>2. [type |-> "NOTIFY", from |-> m, about |-> some] \in Frame
    BY DEF Frame
  <2>3. pc' = pc
    BY <1>18 DEF Notify
  <2>4. QED  BY <1>3, <2>1, <2>2, <2>3
<1>19. ASSUME NEW m \in Masters, Lose(m) \/ LoseArriving(m) PROVE SentOnce'
  <2> DEFINE f == Eof(m)
  <2>1. f \in Frame /\ f.type # "REQ"
    BY DEF Eof, Frame
  <2>2. (inbox' = inbox \/ inbox' = Append(inbox, f)) /\ pc' = pc
    BY <1>19 DEF Lose, LoseArriving
  <2>3. QED  BY <1>2, <1>3, <2>1, <2>2
<1>20. ASSUME NEW m \in Masters, Arrive(m) \/ Attach(m) PROVE SentOnce'
  BY <1>2, <1>20 DEF Arrive, Attach
<1>21. CASE UNCHANGED vars
  BY <1>2, <1>21 DEF vars
<1>22. QED
  BY <1>5, <1>8, <1>9, <1>10, <1>11, <1>12, <1>13, <1>14, <1>15, <1>16, <1>17, <1>18, <1>19,
     <1>20, <1>21
  DEF Next, PumpStep

LEMMA TypeStart == Init => TypeInv
<1> SUFFICES ASSUME Init PROVE TypeInv
  OBVIOUS
<1>1. task \in [Agents -> Task] /\ \A a \in Agents : task[a].at = "none"
  BY IdleTyped DEF Init, Idle
<1>2. <<>> \in Seq(Frame) /\ <<>> \in Seq(Masters) /\ inbox = <<>> /\ probes = <<>> /\ DOMAIN inbox = {}
  BY EmptySeq DEF Init
<1>3. TypeOK
  BY <1>1, <1>2 DEF Init, TypeOK, Nobody, Requests
<1>4. Placed
  BY <1>1 DEF Init, Placed, Requests, Idle, Dying
<1>5. SentOnce
  BY <1>2 DEF SentOnce
<1>6. QED  BY <1>3, <1>4, <1>5 DEF TypeInv

LEMMA TypeStep == TypeInv /\ [Next]_vars => TypeInv'
  BY PlacesKept, SentOnceKept DEF TypeInv

\* Every variable keeps its type: in particular what the table, the hosts, the
\* pumps and the agents refer to is a master, or a peer, of the switch.
THEOREM TypeCorrect == Spec => []TypeOK
<1>1. Init => TypeInv
  BY TypeStart
<1>2. TypeInv /\ [Next]_vars => TypeInv'
  BY TypeStep
<1>3. TypeInv => TypeOK
  BY DEF TypeInv
<1>4. QED  BY <1>1, <1>2, <1>3, PTL DEF Spec

-----------------------------------------------------------------------------
(* One pump at a time has a frame in its hands                             *)

\* What hosts and their connections do.
MasterStep(m) == Notify(m) \/ Lose(m) \/ Arrive(m) \/ LoseArriving(m) \/ Attach(m)

LEMMA AloneKept == TypeInv /\ Alone /\ [Next]_vars => Alone'
<1> SUFFICES ASSUME TypeInv, Alone, [Next]_vars PROVE Alone'
  OBVIOUS
<1>1. pump \in [Pumps -> Doing]
  BY DEF TypeInv, TypeOK, Doing
<1>2. ASSUME \A k \in Pumps : pump[k] = "idle" => pump'[k] = "idle" PROVE Alone'
  BY <1>2 DEF Alone
<1>3. ASSUME NEW k \in Pumps, NEW what, NEW on, Turn(k, what, on), QueueFree \/ what = "idle" PROVE Alone'
  BY <1>1, <1>3 DEF Alone, QueueFree, Turn
<1>4. ASSUME pump' = pump PROVE Alone'
  BY <1>2, <1>4
<1>5. ASSUME NEW a \in Agents, TaskStep(a) PROVE Alone'
  BY <1>4, <1>5 DEF TaskStep, Inspect, Retire, Condemn, LookUp, Sweep, ReadMaster,
     WriteTable, pumpVars
<1>6. ASSUME NEW c \in Calls, Route(c) \/ CallStep(c) \/ Cancel(c) PROVE Alone'
  BY <1>4, <1>6 DEF Route, CallStep, Register, WriteRequest, GiveUp, Cancel, pumpVars
<1>7. ASSUME NEW k \in Pumps, TakeRequest(k) PROVE Alone'
  BY <1>3, <1>4, <1>7 DEF TakeRequest, Takes
<1>8. ASSUME NEW k \in Pumps, PeerStep(k) PROVE Alone'
  BY <1>4, <1>8 DEF PeerStep, Register, WriteRequest, GiveUp, pumpVars
<1>9. ASSUME NEW k \in Pumps, PeerDone(k) \/ Unstick(k) \/ NotifyDone(k) PROVE Alone'
  BY <1>3, <1>9 DEF PeerDone, Unstick, NotifyDone
<1>20. ASSUME NEW k \in Pumps, HoldBack(k) PROVE Alone'
  BY <1>1, <1>2, <1>20 DEF HoldBack, Turn
<1>10. ASSUME NEW k \in Pumps, TakeTerminal(k) PROVE Alone'
  BY <1>3, <1>4, <1>10 DEF TakeTerminal, Takes
<1>11. ASSUME NEW k \in Pumps, Reply(k) PROVE Alone'
  BY <1>1, <1>2, <1>11 DEF Reply, Turn
<1>12. ASSUME NEW k \in Pumps, TakeEof(k) PROVE Alone'
  BY <1>4, <1>12 DEF TakeEof
<1>13. ASSUME NEW k \in Pumps, TakeNotify(k) PROVE Alone'
  BY <1>3, <1>4, <1>13 DEF TakeNotify, Takes
<1>14. ASSUME CancelChild \/ CancelDone \/ DriverStep PROVE Alone'
  BY <1>4, <1>14 DEF CancelChild, CancelDone, DriverStep, ProbeStart, ProbeAnswered,
     ProbeFails, ProbeVerdict, pumpVars
<1>15. ASSUME NEW r \in Requests, Answer(r) PROVE Alone'
  BY <1>4, <1>15 DEF Answer
<1>16. ASSUME NEW p \in Peers, MakePeerRequest(p) PROVE Alone'
  BY <1>4, <1>16 DEF MakePeerRequest
<1>17. ASSUME NEW m \in Masters, MasterStep(m) PROVE Alone'
  BY <1>4, <1>17 DEF MasterStep, Notify, Lose, Arrive, LoseArriving, Attach, pumpVars
<1>18. CASE UNCHANGED vars
  BY <1>4, <1>18 DEF vars, pumpVars
<1>19. QED
  BY <1>5, <1>6, <1>7, <1>8, <1>9, <1>10, <1>11, <1>12, <1>13, <1>14, <1>15, <1>16, <1>17, <1>18, <1>20
  DEF Next, PumpStep, MasterStep

-----------------------------------------------------------------------------
(* One token per request                                                   *)

\* Nothing happens to the token of r, or its request goes on.
Spared(r) ==
  /\ told'[r] = told[r]
  /\ r \in entries' => r \in entries
  /\ canceller' = r => canceller = r
  /\ Replying(r)' => Replying(r)
  /\ pc'[r] = pc[r] \/ (pc'[r] \notin Early /\ (pc'[r] \in Live \/ r \notin entries'))

LEMMA SparedToken ==
  ASSUME NEW r \in Requests, TokenOf(r), Spared(r)
  PROVE  TokenOf(r)'
  BY DEF TokenOf, Spared, Untold

\* The terminal of r is delivered, or lost with its addressee.
LEMMA DeliveredToken ==
  ASSUME TypeInv, NEW r \in Requests, told[r] = 0,
         told' = [told EXCEPT ![r] = @ + 1] \/ told' = told,
         r \notin entries', pc'[r] \notin Early, canceller' # r, ~Replying(r)'
  PROVE  TokenOf(r)'
<1>1. told'[r] \in {0, 1}
  BY DEF TypeInv, TypeOK
<1>2. QED  BY <1>1 DEF TokenOf

\* Nobody else is told.
LEMMA DeliverTo ==
  ASSUME TypeInv, NEW r \in Requests, Deliver(r)
  PROVE  told' = [told EXCEPT ![r] = @ + 1] \/ told' = told
  BY DEF Deliver

LEMMA OneTokenKept == TypeInv /\ Alone /\ OneToken /\ [Next]_vars => OneToken'
<1> SUFFICES ASSUME TypeInv, Alone, OneToken, [Next]_vars PROVE OneToken'
  OBVIOUS
<1> USE DEF Early, Live
<1>1. /\ told \in [Requests -> Nat] /\ pc \in [Requests -> Progress]
      /\ pump \in [Pumps -> Doing] /\ job \in [Pumps -> Requests \cup Masters \cup {NoOne}]
      /\ entries \subseteq Requests /\ canceller \in Calls \cup {NoOne}
      /\ NoOne \notin Requests /\ Calls \subseteq Requests /\ Peers \subseteq Requests
      /\ Calls \cap Peers = {}
  BY NoOneAssumption, ParentAssumption DEF TypeInv, TypeOK, Progress, Doing, Requests
<1>2. ASSUME \A r \in Requests : Spared(r) PROVE OneToken'
  BY <1>2, SparedToken DEF OneToken
<1>3. ASSUME UNCHANGED <<told, entries, canceller, pc>>,
             \A k \in Pumps : pump'[k] = "reply" => pump[k] = "reply" /\ job'[k] = job[k]
      PROVE  OneToken'
  BY <1>2, <1>3 DEF Spared, Replying
<1>4. ASSUME NEW r \in Requests, TokenOf(r)', \A q \in Requests \ {r} : Spared(q) PROVE OneToken'
  BY <1>4, SparedToken DEF OneToken
<1>5. ASSUME NEW a \in Agents, Sweep(a) PROVE OneToken'
  <2>1. PICK r \in task[a].keys :
          /\ entries' = entries \ {r}
          /\ IF r \in entries /\ (r \in Calls \/ healthy[home[r]]) THEN Deliver(r)
                                                                  ELSE UNCHANGED <<told, losses>>
    BY <1>5 DEF Sweep
  <2>2. UNCHANGED <<pc, canceller, pump, job>>
    BY <1>5 DEF Sweep, pumpVars, cancelVars
  <2>3. CASE r \in entries
    <3>1. r \in Requests /\ told[r] = 0 /\ canceller # r /\ ~Replying(r) /\ pc[r] \in Live
      BY <1>1, <2>3 DEF OneToken, TokenOf, Untold
    <3>2. told' = [told EXCEPT ![r] = @ + 1] \/ told' = told
      BY <2>1, <3>1, DeliverTo
    <3>3. TokenOf(r)'
      BY <2>1, <2>2, <3>1, <3>2, DeliveredToken DEF Replying
    <3>4. \A q \in Requests \ {r} : Spared(q)
      BY <1>1, <2>1, <2>2, <3>2 DEF Spared, Replying
    <3>5. QED  BY <1>4, <3>1, <3>3, <3>4
  <2>4. CASE r \notin entries
    BY <1>3, <2>1, <2>2, <2>4
  <2>5. QED  BY <2>3, <2>4
<1>6. ASSUME NEW a \in Agents, TaskStep(a), ~Sweep(a) PROVE OneToken'
  BY <1>3, <1>6 DEF TaskStep, Inspect, Retire, Condemn, LookUp, ReadMaster, WriteTable,
     tableVars, requestVars, pumpVars, cancelVars
<1>7. ASSUME NEW c \in Calls, Route(c) PROVE OneToken'
  <2>1. /\ pc[c] = "new" /\ pc' = [pc EXCEPT ![c] = "routed"]
        /\ UNCHANGED <<told, entries, canceller, pump, job>>
    BY <1>7 DEF Route, pumpVars, cancelVars
  <2>2. TokenOf(c)'
    BY <1>1, <2>1 DEF OneToken, TokenOf, Untold, Replying
  <2>3. \A q \in Requests \ {c} : Spared(q)
    BY <1>1, <2>1 DEF Spared, Replying
  <2>4. QED  BY <1>1, <1>4, <2>2, <2>3
<1>8. ASSUME NEW r \in Requests, Register(r) PROVE OneToken'
  <2>1. /\ pc[r] = "routed" /\ pc' = [pc EXCEPT ![r] = "registered"]
        /\ entries' = entries \cup {r}
        /\ UNCHANGED <<told, canceller, pump, job>>
    BY <1>8 DEF Register, pumpVars, cancelVars
  <2>2. TokenOf(r)'
    BY <1>1, <2>1 DEF OneToken, TokenOf, Untold, Replying
  <2>3. \A q \in Requests \ {r} : Spared(q)
    BY <1>1, <2>1 DEF Spared, Replying
  <2>4. QED  BY <1>4, <2>2, <2>3
<1>9. ASSUME NEW r \in Requests, NEW a \in Agents, WriteRequest(a, r) \/ GiveUp(a, r) PROVE OneToken'
  <2>1. UNCHANGED <<told, canceller, pump, job>>
    BY <1>9 DEF WriteRequest, GiveUp, requestVars, pumpVars, cancelVars
  <2>2. \/ /\ pc' = [pc EXCEPT ![r] = "open"] \/ pc' = [pc EXCEPT ![r] = "failing"]
           /\ entries' = entries
        \/ pc' = [pc EXCEPT ![r] = "failed"] /\ entries' = entries \ {r}
    BY <1>9 DEF WriteRequest, GiveUp, tableVars
  <2>3. QED  BY <1>1, <1>2, <2>1, <2>2 DEF Spared, Replying
<1>10. ASSUME NEW c \in Calls, CallStep(c) PROVE OneToken'
  BY <1>1, <1>8, <1>9, <1>10 DEF CallStep, Agents
<1>11. ASSUME NEW k \in Pumps, PeerStep(k) PROVE OneToken'
  BY <1>1, <1>8, <1>9, <1>11 DEF PeerStep, Agents
<1>12. ASSUME NEW k \in Pumps, TakeRequest(k) PROVE OneToken'
  <2>0. PICK p \in Peers : p = Head(inbox).about
    BY <1>12, TakenFrame DEF TakeRequest
  <2>1. p \in Peers /\ pc[p] = "sent"
    BY <1>12, <2>0, TakenIsSent DEF TakeRequest
  <2>2. told[p] = 0 /\ canceller # p /\ ~Replying(p) /\ p \notin entries /\ p \in Requests
    BY <1>1, <2>1 DEF OneToken, TokenOf, Untold
  <2>3. UNCHANGED <<entries, canceller>> /\ QueueFree
    BY <1>12 DEF TakeRequest, Takes, cancelVars
  <2>4. CASE pc' = [pc EXCEPT ![p] = "refused"] /\ Deliver(p) /\ UNCHANGED <<pump, job>>
    <3>1. told' = [told EXCEPT ![p] = @ + 1] \/ told' = told
      BY <2>2, <2>4, DeliverTo
    <3>2. TokenOf(p)'
      BY <1>1, <2>2, <2>3, <2>4, <3>1, DeliveredToken DEF Replying
    <3>3. \A q \in Requests \ {p} : Spared(q)
      BY <1>1, <2>2, <2>3, <2>4, <3>1 DEF Spared, Replying
    <3>4. QED  BY <1>4, <2>2, <3>2, <3>3
  <2>5. CASE pc' = [pc EXCEPT ![p] = "routed"] /\ Turn(k, "peer", p) /\ told' = told
    <3>1. \A r \in Requests : Replying(r)' => Replying(r)
      BY <1>1, <2>5 DEF Replying, Turn
    <3>2. TokenOf(p)'
      BY <1>1, <2>2, <2>3, <2>5, <3>1 DEF TokenOf, Untold
    <3>3. \A q \in Requests \ {p} : Spared(q)
      BY <1>1, <2>2, <2>3, <2>5, <3>1 DEF Spared
    <3>4. QED  BY <1>4, <2>2, <3>2, <3>3
  <2>6. QED  BY <1>12, <2>0, <2>4, <2>5 DEF TakeRequest
<1>13. ASSUME NEW k \in Pumps, TakeTerminal(k) PROVE OneToken'
  <2>0. PICK r \in Requests : r = Head(inbox).about
    BY <1>13, TakenFrame DEF TakeTerminal
  <2>1. r \in Requests /\ QueueFree
    BY <1>13 DEF TakeTerminal, Takes
  <2>2. UNCHANGED <<pc, canceller>> /\ entries' = entries \ {r}
    BY <1>13, <2>0 DEF TakeTerminal, cancelVars
  <2>3. CASE r \notin entries
    BY <1>3, <1>13, <2>0, <2>2, <2>3 DEF TakeTerminal
  <2>4. ASSUME r \in entries PROVE told[r] = 0 /\ canceller # r /\ ~Replying(r) /\ pc[r] \in Live
    BY <2>1, <2>4 DEF OneToken, TokenOf, Untold
  <2>5. CASE r \in entries \cap Calls
    <3>1. told' = [told EXCEPT ![r] = @ + 1] /\ UNCHANGED <<pump, job>>
      BY <1>1, <1>13, <2>0, <2>5 DEF TakeTerminal
    <3>2. TokenOf(r)'
      BY <2>1, <2>2, <2>4, <2>5, <3>1, DeliveredToken DEF Replying
    <3>3. \A q \in Requests \ {r} : Spared(q)
      BY <1>1, <2>1, <2>2, <3>1 DEF Spared, Replying
    <3>4. QED  BY <1>4, <2>1, <3>2, <3>3
  <2>6. CASE r \in entries \cap Peers
    <3>1. told' = told /\ Turn(k, "reply", r)
      BY <1>1, <1>13, <2>0, <2>6 DEF TakeTerminal
    <3>2. TokenOf(r)'
      BY <2>1, <2>2, <2>4, <2>6, <3>1 DEF TokenOf
    <3>3. \A q \in Requests \ {r} : Replying(q)' => Replying(q)
      BY <1>1, <2>1, <3>1 DEF Replying, Turn
    <3>4. \A q \in Requests \ {r} : Spared(q)
      BY <1>1, <2>1, <2>2, <3>1, <3>3 DEF Spared
    <3>5. QED  BY <1>4, <2>1, <3>2, <3>4
  <2>7. QED  BY <1>1, <2>1, <2>3, <2>5, <2>6 DEF Requests
<1>14. ASSUME NEW k \in Pumps, Reply(k) PROVE OneToken'
  <2>0. PICK r \in Requests : r = job[k]
    BY <1>1, <1>14 DEF Reply, TypeInv, Placed
  <2>1. r \in Requests /\ Replying(r)
    BY <1>14, <2>0 DEF Reply, Replying
  <2>2. told[r] = 0 /\ canceller # r /\ r \notin entries /\ pc[r] \notin Early
    BY <2>1 DEF OneToken, TokenOf, Untold
  <2>3. UNCHANGED <<entries, canceller, pc>>
    BY <1>14 DEF Reply, tableVars, cancelVars
  <2>4. told' = [told EXCEPT ![r] = @ + 1] \/ told' = told
    BY <1>14, <2>0 DEF Reply
  <2>5. \A l \in Pumps : l # k => pump[l] = "idle"
    BY <1>14 DEF Alone, Reply
  <2>6. \A q \in Requests : ~Replying(q)'
    BY <1>1, <1>14, <2>5 DEF Replying, Reply, Turn
  <2>7. TokenOf(r)'
    BY <2>1, <2>2, <2>3, <2>4, <2>6, DeliveredToken
  <2>8. \A q \in Requests \ {r} : Spared(q)
    BY <1>1, <2>1, <2>3, <2>4, <2>6 DEF Spared
  <2>9. QED  BY <1>4, <2>1, <2>7, <2>8
<1>15. ASSUME NEW k \in Pumps, PeerDone(k) \/ Unstick(k) \/ HoldBack(k) \/ NotifyDone(k) \/ TakeNotify(k)
       PROVE  OneToken'
  <2>1. UNCHANGED <<told, entries, canceller, pc>>
    BY <1>15 DEF PeerDone, Unstick, HoldBack, NotifyDone, TakeNotify, tableVars, requestVars, cancelVars
  <2>2. \/ \E what \in Doing \ {"reply"}, on \in Masters \cup {NoOne} : Turn(k, what, on)
        \/ UNCHANGED <<pump, job>>
    BY <1>15, TakenFrame DEF PeerDone, Unstick, HoldBack, NotifyDone, TakeNotify, Doing, TypeInv, Placed
  <2>3. QED  BY <1>1, <1>3, <2>1, <2>2 DEF Turn
<1>16. ASSUME NEW k \in Pumps, TakeEof(k) PROVE OneToken'
  BY <1>3, <1>16 DEF TakeEof, tableVars, requestVars, cancelVars
<1>17. ASSUME NEW c \in Calls, Cancel(c) PROVE OneToken'
  <2>1. /\ c \in entries /\ entries' = entries \ {c} /\ canceller = NoOne /\ canceller' = c
        /\ UNCHANGED <<told, pc, pump, job>>
    BY <1>17 DEF Cancel, requestVars, pumpVars
  <2>2. TokenOf(c)'
    BY <1>1, <2>1 DEF OneToken, TokenOf, Untold, Replying
  <2>3. \A q \in Requests \ {c} : Spared(q)
    BY <1>1, <2>1 DEF Spared, Replying
  <2>4. QED  BY <1>1, <1>4, <2>2, <2>3
<1>18. ASSUME CancelChild PROVE OneToken'
  <2>1. entries' \subseteq entries /\ UNCHANGED <<told, canceller, pc, pump, job>>
    BY <1>18 DEF CancelChild, requestVars, pumpVars
  <2>2. QED  BY <1>2, <2>1 DEF Spared, Replying
<1>19. ASSUME CancelDone PROVE OneToken'
  <2>1. PICK c \in Requests : c = canceller
    BY <1>1, <1>19 DEF CancelDone
  <2>2. canceller' = NoOne /\ told' = [told EXCEPT ![c] = @ + 1] /\ UNCHANGED <<entries, pc, pump, job>>
    BY <1>19, <2>1 DEF CancelDone, tableVars, pumpVars
  <2>3. told[c] = 0 /\ c \notin entries /\ pc[c] \notin Early /\ ~Replying(c)
    BY <2>1 DEF OneToken, TokenOf, Untold
  <2>4. TokenOf(c)'
    BY <1>1, <2>1, <2>2, <2>3, DeliveredToken DEF Replying
  <2>5. \A q \in Requests \ {c} : Spared(q)
    BY <1>1, <2>2 DEF Spared, Replying
  <2>6. QED  BY <1>4, <2>4, <2>5
<1>20. CASE DriverStep
  BY <1>3, <1>20 DEF DriverStep, ProbeStart, ProbeAnswered, ProbeFails, ProbeVerdict, tableVars,
     requestVars, pumpVars, cancelVars
<1>21. ASSUME NEW r \in Requests, Answer(r) PROVE OneToken'
  BY <1>3, <1>21 DEF Answer, tableVars, cancelVars
<1>22. ASSUME NEW p \in Peers, MakePeerRequest(p) PROVE OneToken'
  <2>1. /\ pc[p] = "new" /\ pc' = [pc EXCEPT ![p] = "sent"]
        /\ UNCHANGED <<told, entries, canceller, pump, job>>
    BY <1>22 DEF MakePeerRequest, tableVars, cancelVars
  <2>2. TokenOf(p)'
    BY <1>1, <2>1 DEF OneToken, TokenOf, Untold, Replying
  <2>3. \A q \in Requests \ {p} : Spared(q)
    BY <1>1, <2>1 DEF Spared, Replying
  <2>4. QED  BY <1>1, <1>4, <2>2, <2>3
<1>23. ASSUME NEW m \in Masters, MasterStep(m) PROVE OneToken'
  BY <1>3, <1>23 DEF MasterStep, Notify, Lose, Arrive, LoseArriving, Attach, tableVars, requestVars, pumpVars, cancelVars
<1>24. CASE UNCHANGED vars
  BY <1>3, <1>24 DEF vars, tableVars, requestVars, pumpVars, cancelVars
<1>25. QED
  BY <1>5, <1>6, <1>7, <1>10, <1>11, <1>12, <1>13, <1>14, <1>15, <1>16, <1>17, <1>18, <1>19,
     <1>20, <1>21, <1>22, <1>23, <1>24
  DEF Next, TaskStep, PumpStep, MasterStep

-----------------------------------------------------------------------------
(* No call ends in silence                                                 *)

\* A call that is registered is live, or told, or about to be.
Accounted(c) == (pc[c] \in {"registered", "open"} /\ c \notin entries) => told[c] = 1 \/ canceller = c

\* Nothing happens to the call c but that it goes on.
Undisturbed(c) ==
  /\ told'[c] = told[c]
  /\ c \in entries => c \in entries'
  /\ canceller = c => canceller' = c
  /\ pc'[c] \in {"registered", "open"} => pc[c] \in {"registered", "open"}

LEMMA NoSilentEndKept ==
  TypeInv /\ OneToken /\ NoSilentEnd /\ [Next]_vars => NoSilentEnd'
<1> SUFFICES ASSUME TypeInv, OneToken, NoSilentEnd, [Next]_vars PROVE NoSilentEnd'
  OBVIOUS
<1>1. /\ told \in [Requests -> Nat] /\ pc \in [Requests -> Progress]
      /\ cascade \subseteq Peers /\ canceller \in Calls \cup {NoOne}
      /\ Calls \subseteq Requests /\ Calls \cap Peers = {} /\ NoOne \notin Calls
  BY NoOneAssumption, ParentAssumption DEF TypeInv, TypeOK, Progress, Requests
<1>2. ASSUME NEW d \in Calls, Accounted(d)', \A c \in Calls \ {d} : Undisturbed(c) PROVE NoSilentEnd'
  BY <1>2 DEF NoSilentEnd, Undisturbed, Accounted
<1>3. ASSUME \A c \in Calls : Undisturbed(c) PROVE NoSilentEnd'
  BY <1>3 DEF NoSilentEnd, Undisturbed
<1>4. ASSUME UNCHANGED <<told, entries, canceller, pc>> PROVE NoSilentEnd'
  BY <1>3, <1>4 DEF Undisturbed
<1>5. ASSUME NEW c \in Calls, c \in entries, told' = [told EXCEPT ![c] = @ + 1], UNCHANGED <<canceller, pc>>,
             \A d \in Calls \ {c} : d \in entries => d \in entries'
      PROVE  NoSilentEnd'
  <2>1. told'[c] = 1
    BY <1>1, <1>5 DEF OneToken, TokenOf, Untold
  <2>2. \A d \in Calls \ {c} : Undisturbed(d)
    BY <1>1, <1>5 DEF Undisturbed
  <2>3. QED  BY <1>2, <2>1, <2>2 DEF Accounted
<1>6. ASSUME NEW a \in Agents, Sweep(a) PROVE NoSilentEnd'
  <2>1. PICK r \in task[a].keys :
          /\ entries' = entries \ {r}
          /\ IF r \in entries /\ (r \in Calls \/ healthy[home[r]]) THEN Deliver(r)
                                                                  ELSE UNCHANGED <<told, losses>>
    BY <1>6 DEF Sweep
  <2>2. UNCHANGED <<pc, canceller>>
    BY <1>6 DEF Sweep, cancelVars
  <2>3. CASE r \in entries \cap Calls
    BY <1>5, <2>1, <2>2, <2>3 DEF Deliver
  <2>4. CASE r \in entries /\ r \notin Calls
    <3>1. \A c \in Calls : told'[c] = told[c]
      BY <1>1, <2>1, <2>4 DEF Deliver
    <3>2. QED  BY <1>3, <2>1, <2>2, <2>4, <3>1 DEF Undisturbed
  <2>5. CASE r \notin entries
    BY <1>4, <2>1, <2>2, <2>5
  <2>6. QED  BY <2>3, <2>4, <2>5
<1>7. ASSUME NEW a \in Agents, TaskStep(a), ~Sweep(a) PROVE NoSilentEnd'
  BY <1>4, <1>7 DEF TaskStep, Inspect, Retire, Condemn, LookUp, ReadMaster, WriteTable,
     tableVars, requestVars, cancelVars
<1>8. ASSUME NEW c \in Calls, Route(c) PROVE NoSilentEnd'
  BY <1>1, <1>3, <1>8 DEF Route, Undisturbed, cancelVars
<1>9. ASSUME NEW r \in Requests, Register(r) PROVE NoSilentEnd'
  <2>1. /\ pc' = [pc EXCEPT ![r] = "registered"] /\ entries' = entries \cup {r}
        /\ UNCHANGED <<told, canceller>>
    BY <1>9 DEF Register, cancelVars
  <2>2. QED  BY <1>1, <2>1 DEF NoSilentEnd
<1>10. ASSUME NEW r \in Requests, NEW a \in Agents, WriteRequest(a, r) \/ GiveUp(a, r) PROVE NoSilentEnd'
  <2>1. UNCHANGED <<told, canceller>>
    BY <1>10 DEF WriteRequest, GiveUp, cancelVars
  <2>2. \/ /\ pc[r] = "registered" /\ entries' = entries
           /\ pc' = [pc EXCEPT ![r] = "open"] \/ pc' = [pc EXCEPT ![r] = "failing"]
        \/ pc' = [pc EXCEPT ![r] = "failed"] /\ entries' = entries \ {r}
    BY <1>10 DEF WriteRequest, GiveUp, tableVars
  <2>3. QED  BY <1>1, <2>1, <2>2 DEF NoSilentEnd
<1>11. ASSUME NEW c \in Calls, CallStep(c) PROVE NoSilentEnd'
  BY <1>1, <1>9, <1>10, <1>11 DEF CallStep, Agents
<1>12. ASSUME NEW k \in Pumps, PeerStep(k) PROVE NoSilentEnd'
  BY <1>9, <1>10, <1>12 DEF PeerStep, Agents, Requests
<1>13. ASSUME NEW k \in Pumps, TakeRequest(k) PROVE NoSilentEnd'
  <2>1. PICK p \in Peers : p = Head(inbox).about
    BY <1>13, TakenFrame DEF TakeRequest
  <2>2. UNCHANGED <<entries, canceller>> /\ \A c \in Calls : c # p /\ pc'[c] = pc[c]
    BY <1>1, <1>13, <2>1 DEF TakeRequest, cancelVars
  <2>3. Deliver(p) \/ told' = told
    BY <1>13, <2>1 DEF TakeRequest
  <2>4. \A c \in Calls : told'[c] = told[c]
    BY <1>1, <2>2, <2>3 DEF Deliver
  <2>5. QED  BY <1>3, <2>2, <2>4 DEF Undisturbed
<1>14. ASSUME NEW k \in Pumps, TakeTerminal(k) PROVE NoSilentEnd'
  <2>1. PICK r \in Requests : r = Head(inbox).about
    BY <1>14, TakenFrame DEF TakeTerminal
  <2>2. /\ UNCHANGED <<pc, canceller>> /\ entries' = entries \ {r}
        /\ told' = IF r \in entries \cap Calls THEN [told EXCEPT ![r] = @ + 1] ELSE told
    BY <1>14, <2>1 DEF TakeTerminal, cancelVars
  <2>3. CASE r \in entries \cap Calls
    BY <1>5, <2>2, <2>3
  <2>4. CASE r \notin entries \cap Calls
    BY <1>3, <2>2, <2>4 DEF Undisturbed
  <2>5. QED  BY <2>3, <2>4
<1>15. ASSUME NEW k \in Pumps, Reply(k) PROVE NoSilentEnd'
  <2>1. job[k] \in Peers /\ UNCHANGED <<entries, canceller, pc>>
    BY <1>15 DEF Reply, TypeInv, Placed, tableVars, cancelVars
  <2>2. \A c \in Calls : told'[c] = told[c]
    BY <1>1, <1>15, <2>1 DEF Reply
  <2>3. QED  BY <1>3, <2>1, <2>2 DEF Undisturbed
<1>16. ASSUME NEW k \in Pumps, PeerDone(k) \/ Unstick(k) \/ HoldBack(k) \/ NotifyDone(k) \/ TakeNotify(k) \/ TakeEof(k)
       PROVE  NoSilentEnd'
  BY <1>4, <1>16 DEF PeerDone, Unstick, HoldBack, NotifyDone, TakeNotify, TakeEof, tableVars, requestVars, cancelVars
<1>17. ASSUME NEW c \in Calls, Cancel(c) PROVE NoSilentEnd'
  <2>1. /\ entries' = entries \ {c} /\ canceller = NoOne /\ canceller' = c /\ UNCHANGED <<told, pc>>
    BY <1>17 DEF Cancel, requestVars
  <2>2. QED  BY <1>1, <1>2, <2>1 DEF Undisturbed, Accounted
<1>18. ASSUME CancelChild PROVE NoSilentEnd'
  <2>1. UNCHANGED <<told, canceller, pc>> /\ \E p \in cascade : entries' = entries \ {p}
    BY <1>18 DEF CancelChild, requestVars
  <2>2. QED  BY <1>1, <1>3, <2>1 DEF Undisturbed
<1>19. ASSUME CancelDone PROVE NoSilentEnd'
  <2>1. PICK c \in Calls : c = canceller
    BY <1>1, <1>19 DEF CancelDone
  <2>2. told' = [told EXCEPT ![c] = @ + 1] /\ UNCHANGED <<entries, pc>>
    BY <1>19, <2>1 DEF CancelDone, tableVars
  <2>3. told[c] = 0
    BY <1>1, <2>1 DEF OneToken, TokenOf
  <2>4. told'[c] = 1 /\ \A d \in Calls \ {c} : told'[d] = told[d] /\ canceller # d
    BY <1>1, <2>1, <2>2, <2>3
  <2>5. QED  BY <1>2, <2>2, <2>4 DEF Undisturbed, Accounted
<1>20. CASE DriverStep
  BY <1>4, <1>20 DEF DriverStep, ProbeStart, ProbeAnswered, ProbeFails, ProbeVerdict, tableVars,
     requestVars, cancelVars
<1>21. ASSUME NEW r \in Requests, Answer(r) PROVE NoSilentEnd'
  BY <1>4, <1>21 DEF Answer, tableVars, cancelVars
<1>22. ASSUME NEW p \in Peers, MakePeerRequest(p) PROVE NoSilentEnd'
  BY <1>1, <1>3, <1>22 DEF MakePeerRequest, Undisturbed, tableVars, cancelVars
<1>23. ASSUME NEW m \in Masters, MasterStep(m) PROVE NoSilentEnd'
  BY <1>4, <1>23 DEF MasterStep, Notify, Lose, Arrive, LoseArriving, Attach, tableVars, requestVars, cancelVars
<1>24. CASE UNCHANGED vars
  BY <1>4, <1>24 DEF vars, tableVars, requestVars, cancelVars
<1>25. QED
  BY <1>6, <1>7, <1>8, <1>11, <1>12, <1>13, <1>14, <1>15, <1>16, <1>17, <1>18, <1>19, <1>20,
     <1>21, <1>22, <1>23, <1>24
  DEF Next, TaskStep, PumpStep, MasterStep

-----------------------------------------------------------------------------
(* A cancel leaves no live child                                           *)

LEMMA FamilyKept == TypeInv /\ OneToken /\ Family /\ [Next]_vars => Family'
<1> SUFFICES ASSUME TypeInv, OneToken, Family, [Next]_vars PROVE Family'
  OBVIOUS
<1> USE DEF Early
<1>1. /\ pc \in [Requests -> Progress] /\ children \in [Requests -> SUBSET Peers]
      /\ entries \subseteq Requests /\ cancelled \subseteq Requests /\ cascade \subseteq Peers
      /\ canceller \in Calls \cup {NoOne} /\ NoOne \notin Requests
      /\ Requests = Calls \cup Peers /\ Calls \cap Peers = {} /\ Parent \in [Peers -> Requests]
  BY NoOneAssumption, ParentAssumption DEF TypeInv, TypeOK, Progress, Requests
<1>2. ASSUME UNCHANGED <<children, canceller, cancelled, cascade>>, entries' \subseteq entries,
             \A r \in Requests : pc'[r] \in Early => pc[r] \in Early
      PROVE  Family'
  BY <1>1, <1>2 DEF Family
<1>3. ASSUME UNCHANGED <<children, cancelled, canceller, cascade, entries, pc>> PROVE Family'
  BY <1>2, <1>3
<1>4. ASSUME NEW a \in Agents, TaskStep(a) PROVE Family'
  BY <1>2, <1>4 DEF TaskStep, Inspect, Retire, Condemn, LookUp, Sweep, ReadMaster,
     WriteTable, tableVars,
     requestVars, cancelVars
<1>5. ASSUME NEW c \in Calls, Route(c) PROVE Family'
  <2>1. /\ pc[c] = "new" /\ pc' = [pc EXCEPT ![c] = "routed"]
        /\ UNCHANGED <<children, cancelled, canceller, cascade, entries>>
    BY <1>5 DEF Route, cancelVars
  <2>2. QED  BY <1>1, <1>2, <2>1
<1>6. ASSUME NEW r \in Requests, Register(r) PROVE Family'
  <2>1. /\ pc[r] = "routed" /\ pc' = [pc EXCEPT ![r] = "registered"] /\ entries' = entries \cup {r}
        /\ children' = IF Linked(r) THEN [children EXCEPT ![Parent[r]] = @ \cup {r}] ELSE children
        /\ UNCHANGED <<cancelled, canceller, cascade>>
    BY <1>6 DEF Register, cancelVars
  <2>2. \A q \in Requests : \/ children'[q] = children[q]
                             \/ /\ children'[q] = children[q] \cup {r}
                                /\ r \in Peers /\ q = Parent[r] /\ q \in entries
    BY <1>1, <2>1 DEF Linked
  <2>3. \A q \in Requests : pc'[q] \in Early => pc[q] \in Early
    BY <1>1, <2>1
  <2>4. \A q \in Requests : r \notin children[q]
    BY <2>1 DEF Family
  <2>5. \A q \in Requests : \A p \in children'[q] : Parent[p] = q /\ pc'[p] \notin Early
    BY <1>1, <2>1, <2>2, <2>3 DEF Family
  <2>6. \A q \in cancelled' : q \notin entries' /\ pc'[q] \notin Early
    BY <1>1, <2>1, <2>3 DEF Family
  <2>7. \A q \in cancelled : children'[q] = children[q]
    BY <1>1, <2>2 DEF Family
  <2>8. \A q \in cancelled' : children'[q] \cap entries' \subseteq cascade'
    BY <1>1, <2>1, <2>4, <2>7 DEF Family
  <2>9. QED  BY <2>1, <2>5, <2>6, <2>8 DEF Family
<1>7. ASSUME NEW r \in Requests, NEW a \in Agents, WriteRequest(a, r) \/ GiveUp(a, r) PROVE Family'
  <2>1. /\ entries' \subseteq entries /\ UNCHANGED <<children, cancelled, canceller, cascade>>
        /\ \E s \in {"open", "failing", "failed"} : pc' = [pc EXCEPT ![r] = s]
    BY <1>7 DEF WriteRequest, GiveUp, tableVars, cancelVars
  <2>2. QED  BY <1>1, <1>2, <2>1
<1>8. ASSUME NEW c \in Calls, CallStep(c) PROVE Family'
  BY <1>1, <1>6, <1>7, <1>8 DEF CallStep, Agents
<1>9. ASSUME NEW k \in Pumps, PeerStep(k) PROVE Family'
  BY <1>1, <1>6, <1>7, <1>9 DEF PeerStep, Agents
<1>10. ASSUME NEW k \in Pumps, TakeRequest(k) PROVE Family'
  <2>1. PICK p \in Requests : p = Head(inbox).about /\ pc[p] = "sent"
    BY <1>1, <1>10, TakenFrame, TakenIsSent DEF TakeRequest
  <2>2. UNCHANGED <<children, cancelled, canceller, cascade, entries>>
    BY <1>10 DEF TakeRequest, cancelVars
  <2>3. pc' = [pc EXCEPT ![p] = "refused"] \/ pc' = [pc EXCEPT ![p] = "routed"]
    BY <1>10, <2>1 DEF TakeRequest
  <2>4. QED  BY <1>1, <1>2, <2>1, <2>2, <2>3
<1>11. ASSUME NEW k \in Pumps, TakeTerminal(k) PROVE Family'
  BY <1>2, <1>11 DEF TakeTerminal, cancelVars
<1>12. ASSUME NEW k \in Pumps,
              \/ PeerDone(k) \/ Reply(k) \/ Unstick(k) \/ TakeEof(k)
              \/ TakeNotify(k) \/ HoldBack(k) \/ NotifyDone(k)
       PROVE  Family'
  BY <1>3, <1>12 DEF PeerDone, Reply, Unstick, TakeEof, TakeNotify, HoldBack, NotifyDone, tableVars,
     requestVars, cancelVars
<1>13. ASSUME NEW c \in Calls, Cancel(c) PROVE Family'
  <2>1. /\ c \in entries /\ entries' = entries \ {c} /\ canceller = NoOne /\ canceller' = c
        /\ cascade' = children[c] /\ cancelled' = cancelled \cup {c} /\ UNCHANGED <<children, pc>>
    BY <1>13 DEF Cancel, requestVars
  <2>2. pc[c] \notin Early
    BY <1>1, <2>1 DEF OneToken, TokenOf, Live
  <2>3. \A d \in cancelled : children[d] \cap entries = {}
    BY <2>1 DEF Family
  <2>4. QED  BY <1>1, <2>1, <2>2, <2>3 DEF Family
<1>14. ASSUME CancelChild PROVE Family'
  <2>1. PICK p \in cascade :
          IF p \in entries
            THEN /\ cascade' = (cascade \ {p}) \cup children[p]
                 /\ entries' = entries \ {p}
                 /\ cancelled' = cancelled \cup {p}
            ELSE /\ cascade' = cascade \ {p}
                 /\ UNCHANGED <<entries, cancelled>>
    BY <1>14 DEF CancelChild, Descend
  <2>2. UNCHANGED <<children, canceller, pc>> /\ canceller # NoOne
    BY <1>14 DEF CancelChild, requestVars
  <2>3. p \in Requests /\ (p \in entries => pc[p] \notin Early)
    BY <1>1, <2>1 DEF OneToken, TokenOf, Live
  <2>4. \A q \in cancelled' : q \notin entries' /\ pc'[q] \notin Early
    BY <2>1, <2>2, <2>3 DEF Family
  <2>5. \A q \in cancelled' : children'[q] \cap entries' \subseteq cascade'
    BY <2>1, <2>2 DEF Family
  <2>6. QED  BY <2>2, <2>4, <2>5 DEF Family
<1>15. ASSUME CancelDone PROVE Family'
  <2>1. /\ cascade = {} /\ canceller' = NoOne /\ UNCHANGED <<children, cascade, cancelled, entries, pc>>
    BY <1>15 DEF CancelDone, tableVars
  <2>2. QED  BY <1>1, <2>1 DEF Family
<1>16. CASE DriverStep
  BY <1>3, <1>16 DEF DriverStep, ProbeStart, ProbeAnswered, ProbeFails, ProbeVerdict, tableVars,
     requestVars, cancelVars
<1>17. ASSUME NEW r \in Requests, Answer(r) PROVE Family'
  BY <1>3, <1>17 DEF Answer, tableVars, cancelVars
<1>18. ASSUME NEW p \in Peers, MakePeerRequest(p) PROVE Family'
  <2>1. /\ pc[p] = "new" /\ pc' = [pc EXCEPT ![p] = "sent"]
        /\ UNCHANGED <<children, cancelled, canceller, cascade, entries>>
    BY <1>18 DEF MakePeerRequest, tableVars, cancelVars
  <2>2. QED  BY <1>1, <1>2, <2>1
<1>19. ASSUME NEW m \in Masters, MasterStep(m) PROVE Family'
  BY <1>3, <1>19 DEF MasterStep, Notify, Lose, Arrive, LoseArriving, Attach, tableVars, requestVars, cancelVars
<1>20. CASE UNCHANGED vars
  BY <1>3, <1>20 DEF vars, tableVars, requestVars, cancelVars
<1>21. QED
  BY <1>4, <1>5, <1>8, <1>9, <1>10, <1>11, <1>12, <1>13, <1>14, <1>15, <1>16, <1>17, <1>18,
     <1>19, <1>20
  DEF Next, PumpStep, MasterStep

-----------------------------------------------------------------------------
(* What follows                                                            *)

LEMMA StartsOne == Init => IInv
<1> SUFFICES ASSUME Init PROVE IInv
  OBVIOUS
<1>1. TypeInv
  BY TypeStart
<1>2. NoOne \notin Requests /\ Calls \subseteq Requests
  BY NoOneAssumption DEF Requests
<1>3. Alone /\ OneToken /\ NoSilentEnd /\ Family
  BY <1>2 DEF Init, Alone, OneToken, TokenOf, Untold, Replying, NoSilentEnd, Family
<1>4. QED  BY <1>1, <1>3 DEF IInv

LEMMA StaysOne == IInv /\ [Next]_vars => IInv'
  BY TypeStep, AloneKept, OneTokenKept, NoSilentEndKept, FamilyKept DEF IInv

LEMMA OneTokenSaysAll == IInv => OneTerminal /\ NoSilentEnd /\ CascadeComplete
<1> SUFFICES ASSUME IInv PROVE OneTerminal /\ NoSilentEnd /\ CascadeComplete
  OBVIOUS
<1>1. OneTerminal
  BY DEF IInv, OneToken, TokenOf, OneTerminal
<1>2. CascadeComplete
  BY DEF IInv, Family, CascadeComplete
<1>3. QED  BY <1>1, <1>2 DEF IInv

\* Whoever made a request gets at most one terminal, however the request ends:
\* by its END, its master's death, a cancel or a write that fails.
THEOREM OneTerminalAlways == Spec => []OneTerminal
  BY StartsOne, StaysOne, OneTokenSaysAll, PTL DEF Spec

\* A call that is registered and no longer in the table has been told, or the
\* canceller has its terminal in hand, or its own write failed.
THEOREM NoSilentEndAlways == Spec => []NoSilentEnd
  BY StartsOne, StaysOne, OneTokenSaysAll, PTL DEF Spec

\* When the cancel of a call is through, no peer request linked to what it
\* cancelled is live, at any depth.
THEOREM CascadeCompleteAlways == Spec => []CascadeComplete
  BY StartsOne, StaysOne, OneTokenSaysAll, PTL DEF Spec

-----------------------------------------------------------------------------
(* What is open is in somebody's hands                                     *)

EndOf(m, r) == [type |-> "END", from |-> m, about |-> r]

\* An agent is cleaning up after m and has not looked up its requests.
Pending(m) == \E a \in Agents : task[a].at \in Dying /\ task[a].master = m

\* InHand for one request, whose destination is m.
Held(r, m) == \/ r \in onHost /\ reader[m]
              \/ Queued(EndOf(m, r)) \/ Queued(Eof(m)) \/ Pending(m)
              \/ r \in Listed \/ r \in forsaken

\* Only a rebuild has requests to sweep.
KeysKept == \A a \in Agents : task[a].keys # {} => task[a].at = "rebuilding"

\* The slot a connection arrives in has no reader until it is attached.
SlotFree == newcomer.master \in Masters => ~reader[newcomer.master]

HandInv == TypeInv /\ InHand /\ KeysKept /\ SlotFree

LEMMA InHandMeans == InHand <=> \A r \in entries : pc[r] = "open" => Held(r, dest[r])
  BY DEF InHand, Held, EndOf, DeathPending, Pending

LEMMA InHandAfter ==
  ASSUME \A r \in entries' : pc'[r] = "open" => Held(r, dest[r])'
  PROVE  InHand'
<1>1. (\A r \in entries : pc[r] = "open" => Held(r, dest[r]))'
  OBVIOUS
<1>2. QED  BY <1>1, InHandMeans, PTL

\* Nothing is taken from the queue, from the agents' lists or from the hosts.
QueueGrows == \A f \in Frame : Queued(f) => Queued(f)'
TasksGrow  == (\A m \in Masters : Pending(m) => Pending(m)') /\ Listed \subseteq Listed'
HostsKept  == \A r \in onHost : r \in onHost' \/ r \notin entries
ReadersKept == \A m \in Masters : reader[m] => reader'[m]
OpenKept   == \A r \in entries' : pc'[r] = "open" =>
                r \in entries /\ pc[r] = "open" /\ dest'[r] = dest[r]

LEMMA FramesOf ==
  ASSUME NEW m \in Masters, NEW r \in Requests
  PROVE  EndOf(m, r) \in Frame /\ Eof(m) \in Frame
  BY DEF EndOf, Eof, Frame

\* To show InHand of the next state, one request is enough.
LEMMA InHandNext ==
  ASSUME TypeInv, OpenKept, InHand,
         \A r \in Requests, m \in Masters :
           /\ r \in entries /\ r \in entries' /\ pc[r] = "open" /\ dest[r] = m /\ Held(r, m)
           => Held(r, m)'
  PROVE  InHand'
<1>1. ASSUME NEW r \in entries', pc'[r] = "open" PROVE Held(r, dest[r])' 
  <2>1. r \in entries /\ pc[r] = "open" /\ dest'[r] = dest[r]
    BY <1>1 DEF OpenKept
  <2>2. PICK m \in Masters : m = dest[r]
    BY <2>1 DEF TypeInv, TypeOK
  <2>3. Held(r, m)
    BY <2>1, <2>2, InHandMeans
  <2>4. r \in Requests
    BY <2>1 DEF TypeInv, TypeOK
  <2>5. Held(r, m)'
    BY <1>1, <2>1, <2>2, <2>3, <2>4
  <2>6. QED  BY <2>1, <2>2, <2>5 DEF Held, EndOf, Eof, Queued, Pending
<1>2. QED  BY <1>1, InHandAfter

LEMMA NothingLost ==
  ASSUME TypeInv, InHand, OpenKept, QueueGrows, TasksGrow, HostsKept, ReadersKept,
         forsaken \subseteq forsaken'
  PROVE  InHand'
<1>1. ASSUME NEW r \in Requests, NEW m \in Masters, r \in entries, Held(r, m) PROVE Held(r, m)'
  <2>1. (r \in onHost /\ reader[m]) => (r \in onHost' /\ reader'[m])
    BY <1>1 DEF HostsKept, ReadersKept
  <2>2. Queued(EndOf(m, r)) => Queued(EndOf(m, r))'
    BY FramesOf DEF QueueGrows
  <2>3. Queued(Eof(m)) => Queued(Eof(m))'
    BY FramesOf DEF QueueGrows
  <2>4. QED  BY <1>1, <2>1, <2>2, <2>3 DEF Held, TasksGrow
<1>2. QED  BY <1>1, InHandNext

LEMMA QueuedAppended ==
  ASSUME TypeInv, NEW f \in Frame, inbox' = Append(inbox, f)
  PROVE  Queued(f)' /\ QueueGrows
<1>1. inbox \in Seq(Frame)
  BY DEF TypeInv, TypeOK
<1>2. /\ Len(inbox) \in Nat /\ DOMAIN inbox = 1..Len(inbox) /\ DOMAIN inbox' = 1..(Len(inbox) + 1)
      /\ \A i \in 1..Len(inbox) : inbox'[i] = inbox[i]
      /\ inbox'[Len(inbox) + 1] = f
  BY <1>1, LenProperties, AppendProperties
<1>3. Queued(f)'
  BY <1>2 DEF Queued
<1>4. ASSUME NEW g \in Frame, Queued(g) PROVE Queued(g)'
  <2>1. PICK i \in DOMAIN inbox : inbox[i] = g
    BY <1>4 DEF Queued
  <2>2. i \in DOMAIN inbox' /\ inbox'[i] = g
    BY <1>2, <2>1
  <2>3. QED  BY <2>2 DEF Queued
<1>5. QED  BY <1>3, <1>4 DEF QueueGrows

\* All but the frame that is taken stay in the queue.
LEMMA QueuedTaken ==
  ASSUME TypeInv, inbox # <<>>, inbox' = Tail(inbox), NEW g \in Frame, Queued(g), g # Head(inbox)
  PROVE  Queued(g)'
<1>1. inbox \in Seq(Frame)
  BY DEF TypeInv, TypeOK
<1>2. /\ Len(inbox) \in Nat /\ Len(inbox) > 0 /\ DOMAIN inbox = 1..Len(inbox) /\ Head(inbox) = inbox[1]
      /\ DOMAIN inbox' = 1..(Len(inbox) - 1) /\ \A i \in DOMAIN inbox' : inbox'[i] = inbox[i + 1]
  BY <1>1, LenProperties, HeadTailProperties, EmptySeq
<1>3. PICK i \in DOMAIN inbox : inbox[i] = g
  BY DEF Queued
<1>4. i \in 2..Len(inbox)
  BY <1>2, <1>3
<1>5. i - 1 \in DOMAIN inbox' /\ inbox'[i - 1] = g
  BY <1>2, <1>3, <1>4
<1>6. QED  BY <1>5 DEF Queued

LEMMA QueueSame ==
  ASSUME inbox' = inbox
  PROVE  QueueGrows
  BY DEF QueueGrows, Queued

LEMMA TasksSame ==
  ASSUME task' = task
  PROVE  TasksGrow
  BY DEF TasksGrow, Pending, Listed

\* An agent that was doing nothing takes up something.
LEMMA TasksTaken ==
  ASSUME TypeInv, KeysKept, NEW a \in Agents, Quiet(a), NEW t, t.keys = {},
         task' = [task EXCEPT ![a] = t]
  PROVE  TasksGrow /\ KeysKept'
<1>1. task \in [Agents -> Task] /\ task[a].at = "none" /\ task[a].keys = {}
  BY DEF TypeInv, TypeOK, Quiet, KeysKept
<1>2. \A b \in Agents : b # a => task'[b] = task[b]
  BY <1>1
<1>3. task'[a] = t
  BY <1>1
<1>4. \A m \in Masters : Pending(m) => Pending(m)'
  BY <1>1, <1>2 DEF Pending, Dying
<1>5. \A b \in Agents : task[b].keys \subseteq task'[b].keys
  BY <1>1, <1>2
<1>6. Listed \subseteq Listed'
  BY <1>5 DEF Listed
<1>7. KeysKept'
  BY <1>2, <1>3 DEF KeysKept
<1>8. QED  BY <1>4, <1>6, <1>7 DEF TasksGrow

LEMMA DeathTaken ==
  ASSUME TypeInv, KeysKept, NEW a \in Agents, NEW m, DeclareDead(a, m)
  PROVE  TasksGrow /\ KeysKept' /\ Pending(m)'
<1> DEFINE t == [Idle EXCEPT !.at = "declared", !.master = m]
<1>1. t.keys = {} /\ t.at = "declared" /\ t.master = m
  BY DEF Idle
<1>2. Quiet(a) /\ task' = [task EXCEPT ![a] = t]
  BY DEF DeclareDead
<1> HIDE DEF t
<1>3. task'[a] = t
  BY <1>2 DEF TypeInv, TypeOK
<1>4. QED  BY <1>1, <1>2, <1>3, TasksTaken DEF Pending, Dying

LEMMA DeathChanges ==
  ASSUME TypeInv, NEW a \in Agents, NEW m, DeclareDead(a, m)
  PROVE  task' # task
<1>1. task[a].at = "none" /\ task' = [task EXCEPT ![a] = [Idle EXCEPT !.at = "declared", !.master = m]]
  BY DEF DeclareDead, Quiet
<1>2. [Idle EXCEPT !.at = "declared", !.master = m].at = "declared"
  BY DEF Idle
<1>3. task'[a].at = "declared"
  BY <1>1, <1>2 DEF TypeInv, TypeOK
<1>4. QED  BY <1>1, <1>3

LEMMA RebuildTaken ==
  ASSUME TypeInv, KeysKept, NEW a \in Agents, Rebuild(a)
  PROVE  TasksGrow /\ KeysKept'
<1> DEFINE t == [Idle EXCEPT !.at = "rebuilding", !.unread = Masters]
<1>1. t.keys = {}
  BY DEF Idle
<1>2. Quiet(a) /\ task' = [task EXCEPT ![a] = t]
  BY DEF Rebuild
<1> HIDE DEF t
<1>3. QED  BY <1>1, <1>2, TasksTaken

LEMMA TasksUntouched ==
  ASSUME KeysKept, UNCHANGED task
  PROVE  TasksGrow /\ KeysKept'
  BY TasksSame DEF KeysKept

\* The steps of an agent's own task.
LEMMA TaskStepInHand ==
  ASSUME HandInv, NEW a \in Agents, TaskStep(a)
  PROVE  InHand' /\ KeysKept'
<1> USE DEF HandInv
<1>1. task \in [Agents -> Task] /\ entries \subseteq Requests
  BY DEF TypeInv, TypeOK
<1>2. UNCHANGED <<inbox, onHost, pc, dest>> /\ entries' \subseteq entries /\ QueueGrows
  <2>1. UNCHANGED <<inbox, onHost, pc, dest>> /\ entries' \subseteq entries
    BY DEF TaskStep, Inspect, Retire, Condemn, LookUp, Sweep, ReadMaster, WriteTable, pumpVars,
       tableVars, requestVars
  <2>2. QED  BY <2>1, QueueSame
<1>3. OpenKept /\ HostsKept
  BY <1>2 DEF OpenKept, HostsKept
<1>4. ASSUME NEW t, task' = [task EXCEPT ![a] = t]
      PROVE  task'[a] = t /\ \A b \in Agents : b # a => task'[b] = task[b]
  BY <1>1, <1>4
<1>5. CASE Retire(a)
  <2>1. PICK m : m = task[a].master
    OBVIOUS
  <2> DEFINE t == [task[a] EXCEPT !.at = "retired"]
  <2>2. task[a] \in Task /\ task[a].at \in {"inspected", "handled"} /\ task[a].keys = {}
    BY <1>1, <1>5 DEF Retire, KeysKept
  <2>3. /\ t.at = "retired" /\ t.master = m /\ t.keys = {} /\ Idle.keys = {} /\ Idle.at = "none"
    BY <2>1, <2>2 DEF Idle, Task
  <2>4. \/ task' = [task EXCEPT ![a] = t] /\ forsaken' = forsaken
        \/ /\ task' = [task EXCEPT ![a] = Idle]
           /\ \/ DeathPending(m)' /\ forsaken' = forsaken
              \/ forsaken' = forsaken \cup (DeadKeys(m) \ Listed)
    BY <1>5, <2>1 DEF Retire
  <2>5. \A b \in Agents : b # a => task'[b] = task[b]
    BY <1>4, <2>4
  <2>6. task'[a] = t \/ task'[a] = Idle
    BY <1>4, <2>4
  <2> HIDE DEF t
  <2>7. KeysKept'
    BY <2>3, <2>5, <2>6 DEF KeysKept
  <2>8. Listed \subseteq Listed'
    <3>1. \A b \in Agents : task[b].keys \subseteq task'[b].keys
      BY <2>2, <2>5
    <3>2. QED  BY <3>1 DEF Listed
  <2>9. \A n \in Masters : n # m /\ Pending(n) => Pending(n)'
    BY <2>1, <2>5 DEF Pending
  <2>10. \A n \in Masters : n # m => reader'[n] = reader[n]
    <3>1. reader' = [reader EXCEPT ![m] = FALSE]
      BY <1>5, <2>1 DEF Retire
    <3>2. QED  BY <3>1 DEF TypeInv, TypeOK
  <2>11. ASSUME NEW r \in Requests, NEW n \in Masters, r \in entries, dest[r] = n, Held(r, n)
         PROVE  Held(r, n)'
    <3>1. Queued(EndOf(n, r)) => Queued(EndOf(n, r))'
      BY <1>2, FramesOf DEF QueueGrows
    <3>2. Queued(Eof(n)) => Queued(Eof(n))'
      BY <1>2, FramesOf DEF QueueGrows
    <3>3. CASE n # m
      BY <1>2, <2>4, <2>8, <2>9, <2>10, <2>11, <3>1, <3>2, <3>3 DEF Held
    <3>4. CASE n = m /\ task'[a] = t
      BY <2>3, <3>4 DEF Held, Pending, Dying
    <3>5. CASE n = m /\ forsaken' = forsaken \cup (DeadKeys(m) \ Listed)
      BY <2>8, <2>11, <3>5 DEF Held, DeadKeys
    <3>6. CASE n = m /\ DeathPending(m)'
      BY <3>6 DEF Held, DeathPending, Pending
    <3>7. QED  BY <1>4, <2>4, <3>3, <3>4, <3>5, <3>6
  <2>12. QED  BY <1>3, <2>7, <2>11, InHandNext
<1>6. CASE LookUp(a)
  <2>1. PICK m : m = task[a].master
    OBVIOUS
  <2>2. PICK keys : keys = DeadKeys(m)
    OBVIOUS
  <2> DEFINE t == [Idle EXCEPT !.at = "rebuilding", !.unread = Masters, !.keys = keys]
  <2>3. task[a].at = "condemned" /\ task[a].keys = {}
    BY <1>6 DEF LookUp, KeysKept
  <2>4. t.at = "rebuilding" /\ t.keys = keys
    BY DEF Idle
  <2>5. task' = [task EXCEPT ![a] = t] /\ UNCHANGED <<reader, forsaken>>
    BY <1>6, <2>1, <2>2 DEF LookUp, masterVars, requestVars
  <2> HIDE DEF t
  <2>6. task'[a] = t /\ \A b \in Agents : b # a => task'[b] = task[b]
    BY <1>4, <2>5
  <2>7. KeysKept'
    BY <2>4, <2>6 DEF KeysKept
  <2>8. Listed \subseteq Listed' /\ keys \subseteq Listed'
    <3>1. \A b \in Agents : task[b].keys \subseteq task'[b].keys
      BY <2>3, <2>6
    <3>2. task'[a].keys = keys
      BY <2>4, <2>6
    <3>3. QED  BY <3>1, <3>2 DEF Listed
  <2>9. \A n \in Masters : n # m /\ Pending(n) => Pending(n)'
    BY <2>1, <2>6 DEF Pending
  <2>10. ASSUME NEW r \in Requests, NEW n \in Masters, r \in entries, dest[r] = n, Held(r, n)
         PROVE  Held(r, n)'
    <3>1. Queued(EndOf(n, r)) => Queued(EndOf(n, r))'
      BY <1>2, FramesOf DEF QueueGrows
    <3>2. Queued(Eof(n)) => Queued(Eof(n))'
      BY <1>2, FramesOf DEF QueueGrows
    <3>3. CASE n # m
      BY <1>2, <2>5, <2>8, <2>9, <2>10, <3>1, <3>2, <3>3 DEF Held
    <3>4. CASE n = m
      BY <2>2, <2>8, <2>10, <3>4 DEF Held, DeadKeys
    <3>5. QED  BY <3>3, <3>4
  <2>11. QED  BY <1>3, <2>7, <2>10, InHandNext
<1>7. CASE Sweep(a)
  <2>1. PICK q \in task[a].keys : task' = [task EXCEPT ![a].keys = @ \ {q}] /\ entries' = entries \ {q}
    BY <1>7 DEF Sweep
  <2>2. task[a] \in Task /\ task[a].at = "rebuilding" /\ UNCHANGED <<reader, forsaken>>
    BY <1>1, <1>7 DEF Sweep, masterVars
  <2> DEFINE t == [task[a] EXCEPT !.keys = @ \ {q}]
  <2>3. t.at = "rebuilding" /\ t.keys = task[a].keys \ {q}
    BY <2>2 DEF Task
  <2>4. task' = [task EXCEPT ![a] = t]
    BY <2>1
  <2> HIDE DEF t
  <2>5. task'[a] = t /\ \A b \in Agents : b # a => task'[b] = task[b]
    BY <1>4, <2>4
  <2>6. KeysKept'
    BY <2>3, <2>5 DEF KeysKept
  <2>7. \A m \in Masters : Pending(m) => Pending(m)'
    BY <2>2, <2>5 DEF Pending, Dying
  <2>8. Listed \ {q} \subseteq Listed'
    <3>1. \A b \in Agents : task[b].keys \ {q} \subseteq task'[b].keys
      BY <2>3, <2>5
    <3>2. QED  BY <3>1 DEF Listed
  <2>9. ASSUME NEW r \in Requests, NEW n \in Masters, r \in entries', Held(r, n)
        PROVE  Held(r, n)'
    <3>1. Queued(EndOf(n, r)) => Queued(EndOf(n, r))'
      BY <1>2, FramesOf DEF QueueGrows
    <3>2. Queued(Eof(n)) => Queued(Eof(n))'
      BY <1>2, FramesOf DEF QueueGrows
    <3>3. r # q
      BY <2>1, <2>9
    <3>4. QED  BY <1>2, <2>2, <2>7, <2>8, <2>9, <3>1, <3>2, <3>3 DEF Held
  <2>10. QED  BY <1>3, <2>6, <2>9, InHandNext
<1>8. ASSUME ReadMaster(a) \/ WriteTable(a) PROVE InHand' /\ KeysKept'
  <2>1. task[a].at = "rebuilding" /\ task[a].keys = {} /\ UNCHANGED <<reader, forsaken>>
    BY <1>8 DEF ReadMaster, WriteTable, masterVars, requestVars
  <2>2. PICK t : t.keys = {} /\ task' = [task EXCEPT ![a] = t]
    <3>1. CASE ReadMaster(a)
      <4>1. PICK u, v : task' = [task EXCEPT ![a].unread = u, ![a].seen = v]
        BY <3>1 DEF ReadMaster
      <4>2. [task[a] EXCEPT !.unread = u, !.seen = v].keys = {}
        BY <1>1, <2>1 DEF Task
      <4>3. task' = [task EXCEPT ![a] = [task[a] EXCEPT !.unread = u, !.seen = v]]
        BY <1>1, <4>1 DEF Task
      <4>4. QED  BY <4>2, <4>3
    <3>2. CASE WriteTable(a)
      BY <3>2 DEF WriteTable, Idle
    <3>3. QED  BY <1>8, <3>1, <3>2
  <2>3. task'[a] = t /\ \A b \in Agents : b # a => task'[b] = task[b]
    BY <1>4, <2>2
  <2>4. KeysKept'
    BY <2>2, <2>3 DEF KeysKept
  <2>5. TasksGrow
    <3>1. \A m \in Masters : Pending(m) => Pending(m)'
      BY <2>1, <2>3 DEF Pending, Dying
    <3>2. \A b \in Agents : task[b].keys \subseteq task'[b].keys
      BY <2>1, <2>3
    <3>3. QED  BY <3>1, <3>2 DEF TasksGrow, Listed
  <2>6. QED  BY <1>2, <1>3, <2>1, <2>4, <2>5, NothingLost DEF ReadersKept
<1>9. ASSUME Inspect(a) \/ Condemn(a) PROVE InHand' /\ KeysKept'
  <2>1. PICK at \in Dying : task' = [task EXCEPT ![a].at = at]
    BY <1>9 DEF Inspect, Condemn, Dying
  <2>2. task[a] \in Task /\ task[a].at \in Dying /\ task[a].keys = {} /\ UNCHANGED <<reader, forsaken>>
    BY <1>1, <1>9 DEF Inspect, Condemn, KeysKept, Dying, masterVars, requestVars
  <2> DEFINE t == [task[a] EXCEPT !.at = at]
  <2>3. t.at \in Dying /\ t.master = task[a].master /\ t.keys = {}
    BY <2>1, <2>2 DEF Task
  <2>4. task' = [task EXCEPT ![a] = t]
    BY <2>1
  <2> HIDE DEF t
  <2>5. task'[a] = t /\ \A b \in Agents : b # a => task'[b] = task[b]
    BY <1>4, <2>4
  <2>6. KeysKept'
    BY <2>3, <2>5 DEF KeysKept
  <2>7. TasksGrow
    <3>1. \A m \in Masters : Pending(m) => Pending(m)'
      BY <2>3, <2>5 DEF Pending
    <3>2. \A b \in Agents : task[b].keys \subseteq task'[b].keys
      BY <2>2, <2>5
    <3>3. QED  BY <3>1, <3>2 DEF TasksGrow, Listed
  <2>8. QED  BY <1>2, <1>3, <2>2, <2>6, <2>7, NothingLost DEF ReadersKept
<1>10. QED  BY <1>5, <1>6, <1>7, <1>8, <1>9 DEF TaskStep

\* Nobody takes anything away but what a step of its own lemma does.
LEMMA CalmInHand ==
  ASSUME HandInv, OpenKept, inbox' = inbox, TasksGrow, onHost \subseteq onHost',
         UNCHANGED <<reader, forsaken>>
  PROVE  InHand'
  BY QueueSame, NothingLost DEF HandInv, HostsKept, ReadersKept

\* A request on its way is registered, written, or given up.
LEMMA RequestInHand ==
  ASSUME HandInv, NEW a \in Agents, NEW r \in Requests,
         Register(r) \/ WriteRequest(a, r) \/ GiveUp(a, r)
  PROVE  InHand' /\ KeysKept'
<1> USE DEF HandInv
<1>1. pc \in [Requests -> Progress] /\ entries \subseteq Requests
  BY DEF TypeInv, TypeOK, Progress
<1>2. UNCHANGED <<inbox, reader, dest>>
  BY DEF Register, WriteRequest, GiveUp, pumpVars, masterVars, tableVars
<1>3. CASE Register(r) \/ GiveUp(a, r)
  <2>1. UNCHANGED <<task, onHost, forsaken>>
    BY <1>3 DEF Register, GiveUp
  <2>2. \/ pc' = [pc EXCEPT ![r] = "registered"] /\ entries' = entries \cup {r}
        \/ pc' = [pc EXCEPT ![r] = "failed"] /\ entries' = entries \ {r}
    BY <1>3 DEF Register, GiveUp
  <2>3. OpenKept
    BY <1>1, <1>2, <2>2 DEF OpenKept
  <2>4. QED  BY <1>2, <2>1, <2>3, TasksUntouched, CalmInHand
<1>4. CASE WriteRequest(a, r)
  <2>1. entries' = entries /\ pc[r] = "registered"
    BY <1>4 DEF WriteRequest, tableVars
  <2>2. PICK m \in Masters : m = dest[r]
    BY <1>4 DEF WriteRequest, TypeInv, Placed
  <2>3. CASE UNCHANGED task
    <3>1. /\ onHost' = onHost \cup {r}
          /\ pc' = [pc EXCEPT ![r] = "open"]
          /\ forsaken' = IF reader[m] \/ DeathPending(m) THEN forsaken ELSE forsaken \cup {r}
      <4>1. ~DeclareDead(a, m)
        BY <2>3, DeathChanges
      <4>2. QED  BY <1>4, <2>2, <4>1 DEF WriteRequest
    <3>2. TasksGrow /\ KeysKept'
      BY <2>3, TasksUntouched
    <3>3. QueueGrows
      BY <1>2, QueueSame
    <3>4. Held(r, m)'
      <4>1. CASE reader[m]
        BY <1>2, <3>1, <4>1 DEF Held
      <4>2. CASE DeathPending(m)
        <5>1. Queued(Eof(m)) \/ Pending(m)
          BY <4>2 DEF DeathPending, Pending
        <5>2. QED  BY <3>2, <3>3, <5>1, FramesOf DEF Held, TasksGrow, QueueGrows
      <4>3. CASE ~reader[m] /\ ~DeathPending(m)
        BY <3>1, <4>3 DEF Held
      <4>4. QED  BY <4>1, <4>2, <4>3
    <3>5. ASSUME NEW q \in entries', pc'[q] = "open" PROVE Held(q, dest[q])'
      <4>1. PICK n \in Masters : n = dest[q] /\ dest'[q] = n
        BY <1>2, <2>1, <3>5 DEF TypeInv, TypeOK
      <4>2. q \in Requests
        BY <1>1, <2>1
      <4>3. Held(q, n)'
        <5>1. CASE q = r
          BY <2>2, <3>4, <4>1, <5>1
        <5>2. CASE q # r
          <6>1. pc[q] = "open" /\ q \in entries
            BY <1>1, <2>1, <3>1, <3>5, <5>2
          <6>2. Held(q, n)
            BY <4>1, <6>1, InHandMeans
          <6>3. Queued(EndOf(n, q)) => Queued(EndOf(n, q))'
            BY <3>3, <4>2, FramesOf DEF QueueGrows
          <6>4. Queued(Eof(n)) => Queued(Eof(n))'
            BY <3>3, <4>2, FramesOf DEF QueueGrows
          <6>5. QED  BY <1>2, <3>1, <3>2, <6>2, <6>3, <6>4 DEF Held, TasksGrow
        <5>3. QED  BY <5>1, <5>2
      <4>4. QED  BY <4>1, <4>3 DEF Held, EndOf, Eof, Queued, Pending
    <3>6. QED  BY <3>2, <3>5, InHandAfter
  <2>4. CASE DeclareDead(a, m)
    <3>1. TasksGrow /\ KeysKept'
      BY <2>4, DeathTaken
    <3>2. ~UNCHANGED task
      BY <2>4, DeathChanges
    <3>3. pc' = [pc EXCEPT ![r] = "failing"] /\ UNCHANGED <<onHost, forsaken>>
      BY <1>4, <3>2 DEF WriteRequest
    <3>4. OpenKept
      BY <1>1, <1>2, <2>1, <3>3 DEF OpenKept
    <3>5. QED  BY <1>2, <3>1, <3>3, <3>4, CalmInHand
  <2>5. QED  BY <1>4, <2>2, <2>3, <2>4 DEF WriteRequest
<1>5. QED  BY <1>3, <1>4

\* A pump that takes a frame has in its hands what the frame said.
LEMMA TakeInHand ==
  ASSUME HandInv, NEW k \in Pumps,
         TakeRequest(k) \/ TakeTerminal(k) \/ TakeEof(k) \/ TakeNotify(k)
  PROVE  InHand' /\ KeysKept'
<1> USE DEF HandInv
<1>1. /\ pc \in [Requests -> Progress] /\ entries \subseteq Requests /\ Peers \subseteq Requests
      /\ k \in Agents /\ dest \in [Requests -> Masters \cup {NoOne}]
  BY DEF TypeInv, TypeOK, Progress, Requests, Agents
<1>2. UNCHANGED <<onHost, reader, forsaken>> /\ inbox # <<>> /\ inbox' = Tail(inbox)
  BY DEF TakeRequest, TakeTerminal, TakeEof, TakeNotify, Takes, masterVars, requestVars
<1>3. ASSUME NEW f \in Frame, Queued(f), f # Head(inbox) PROVE Queued(f)'
  BY <1>2, <1>3, QueuedTaken
<1>4. ASSUME TasksGrow, OpenKept,
             \A r \in Requests, m \in Masters :
                r \in entries' /\ (EndOf(m, r) = Head(inbox) \/ Eof(m) = Head(inbox)) => Held(r, m)'
      PROVE  InHand'
  <2>1. ASSUME NEW r \in Requests, NEW m \in Masters, r \in entries', Held(r, m) PROVE Held(r, m)'
    <3>1. CASE EndOf(m, r) = Head(inbox) \/ Eof(m) = Head(inbox)
      BY <1>4, <2>1, <3>1
    <3>2. CASE EndOf(m, r) # Head(inbox) /\ Eof(m) # Head(inbox)
      <4>1. Queued(EndOf(m, r)) => Queued(EndOf(m, r))'
        BY <1>3, <3>2, FramesOf
      <4>2. Queued(Eof(m)) => Queued(Eof(m))'
        BY <1>3, <3>2, FramesOf
      <4>3. QED  BY <1>2, <1>4, <2>1, <4>1, <4>2 DEF Held, TasksGrow
    <3>3. QED  BY <3>1, <3>2
  <2>2. QED  BY <1>4, <2>1, InHandNext
<1>5. CASE TakeRequest(k)
  <2>1. Head(inbox).type = "REQ" /\ UNCHANGED <<entries, task>>
    BY <1>5 DEF TakeRequest, Takes
  <2>2. PICK p \in Peers : p = Head(inbox).about /\ pc[p] = "sent"
    BY <1>5, TakenFrame, TakenIsSent DEF TakeRequest
  <2>3. \/ pc' = [pc EXCEPT ![p] = "refused"] /\ dest' = dest
        \/ pc' = [pc EXCEPT ![p] = "routed"] /\ \E m \in capTable : dest' = [dest EXCEPT ![p] = m]
    BY <1>5, <2>2 DEF TakeRequest
  <2>4. OpenKept
    BY <1>1, <2>1, <2>2, <2>3 DEF OpenKept
  <2>5. QED  BY <1>4, <2>1, <2>4, TasksUntouched DEF EndOf, Eof
<1>6. CASE TakeTerminal(k)
  <2>1. Head(inbox).type = "END" /\ UNCHANGED <<task, pc, dest>> /\ entries' = entries \ {Head(inbox).about}
    BY <1>6 DEF TakeTerminal, Takes
  <2>2. OpenKept
    BY <2>1 DEF OpenKept
  <2>3. \A r \in Requests, m \in Masters :
          EndOf(m, r) = Head(inbox) \/ Eof(m) = Head(inbox) => r \notin entries'
    BY <2>1 DEF EndOf, Eof
  <2>4. QED  BY <1>4, <2>1, <2>2, <2>3, TasksUntouched
<1>7. CASE TakeEof(k)
  <2>1. PICK n \in Masters : n = Head(inbox).from
    BY <1>7, TakenFrame DEF TakeEof
  <2>2. Head(inbox).type = "EOF" /\ DeclareDead(k, n) /\ UNCHANGED <<entries, pc, dest>>
    BY <1>7, <2>1 DEF TakeEof, Takes, tableVars, requestVars
  <2>3. TasksGrow /\ KeysKept' /\ Pending(n)'
    BY <1>1, <2>2, DeathTaken
  <2>4. OpenKept
    BY <2>2 DEF OpenKept
  <2>5. ASSUME NEW r \in Requests, NEW m \in Masters, EndOf(m, r) = Head(inbox) \/ Eof(m) = Head(inbox)
        PROVE  Held(r, m)'
    <3>1. m = n
      BY <2>1, <2>2, <2>5 DEF EndOf, Eof
    <3>2. QED  BY <2>3, <3>1 DEF Held
  <2>6. QED  BY <1>4, <2>3, <2>4, <2>5
<1>8. CASE TakeNotify(k)
  <2>1. Head(inbox).type = "NOTIFY" /\ UNCHANGED <<entries, pc, dest>>
    BY <1>8 DEF TakeNotify, Takes, tableVars, requestVars
  <2>2. UNCHANGED task \/ Rebuild(k)
    BY <1>8 DEF TakeNotify
  <2>3. TasksGrow /\ KeysKept'
    BY <1>1, <2>2, TasksUntouched, RebuildTaken
  <2>4. OpenKept
    BY <2>1 DEF OpenKept
  <2>5. QED  BY <1>4, <2>1, <2>3, <2>4 DEF EndOf, Eof
<1>9. QED  BY <1>5, <1>6, <1>7, <1>8

\* An agent does something that takes nothing from the hosts and the queue.
LEMMA AgentInHand ==
  ASSUME HandInv, UNCHANGED <<inbox, reader, onHost, forsaken, pc, dest>>, entries' \subseteq entries,
         NEW a \in Agents, UNCHANGED task \/ Rebuild(a) \/ \E m : DeclareDead(a, m)
  PROVE  InHand' /\ KeysKept'
<1>1. OpenKept
  BY DEF OpenKept
<1>2. TasksGrow /\ KeysKept'
  BY TasksUntouched, RebuildTaken, DeathTaken DEF HandInv
<1>3. QED  BY <1>1, <1>2, CalmInHand

\* What else a pump does.
LEMMA PumpInHand ==
  ASSUME HandInv, NEW k \in Pumps,
         PeerDone(k) \/ Reply(k) \/ Unstick(k) \/ HoldBack(k) \/ NotifyDone(k)
  PROVE  InHand' /\ KeysKept'
<1>1. UNCHANGED <<inbox, reader, onHost, forsaken, pc, dest, entries>>
  BY DEF PeerDone, Reply, Unstick, HoldBack, NotifyDone, Turn, masterVars, requestVars, pumpVars, tableVars
<1>2. UNCHANGED task \/ Rebuild(k) \/ \E m : DeclareDead(k, m)
  BY DEF PeerDone, Reply, Unstick, HoldBack, NotifyDone
<1>3. k \in Agents
  BY DEF Agents
<1>4. QED  BY <1>1, <1>2, <1>3, AgentInHand

\* A call is cancelled.
LEMMA CancelInHand ==
  ASSUME HandInv, (\E c \in Calls : Cancel(c)) \/ CancelChild \/ CancelDone
  PROVE  InHand' /\ KeysKept'
<1>1. UNCHANGED <<inbox, reader, onHost, forsaken, pc, dest>> /\ entries' \subseteq entries
  BY DEF Cancel, CancelChild, CancelDone, masterVars, requestVars, pumpVars, tableVars
<1>2. UNCHANGED task \/ \E m : DeclareDead("canceller", m)
  BY DEF Cancel, CancelChild, CancelDone, SendCancel
<1>3. "canceller" \in Agents
  BY DEF Agents
<1>4. QED  BY <1>1, <1>2, <1>3, AgentInHand

\* A probe is made, and its verdict written.
LEMMA DriverInHand ==
  ASSUME HandInv, DriverStep
  PROVE  InHand' /\ KeysKept'
<1>1. UNCHANGED <<inbox, reader, onHost, forsaken, pc, dest, entries>>
  BY DEF DriverStep, ProbeStart, ProbeAnswered, ProbeFails, ProbeVerdict, masterVars, requestVars,
     pumpVars, tableVars
<1>2. UNCHANGED task \/ Rebuild("driver") \/ \E m : DeclareDead("driver", m)
  BY DEF DriverStep, ProbeStart, ProbeAnswered, ProbeFails, ProbeVerdict
<1>3. "driver" \in Agents
  BY DEF Agents
<1>4. QED  BY <1>1, <1>2, <1>3, AgentInHand

\* A host's answer goes into the queue when it leaves the host.
LEMMA AnswerInHand ==
  ASSUME HandInv, NEW r \in Requests, Answer(r)
  PROVE  InHand' /\ KeysKept'
<1> USE DEF HandInv
<1>1. PICK m \in Masters : m = dest[r]
  BY DEF Answer, TypeInv, Placed
<1>2. /\ onHost' = onHost \ {r} /\ UNCHANGED <<reader, dest, pc, entries, task, forsaken>>
      /\ inbox' = IF reader[m] THEN Append(inbox, EndOf(m, r)) ELSE inbox
  BY <1>1 DEF Answer, EndOf, masterVars, tableVars
<1>3. QueueGrows /\ (reader[m] => Queued(EndOf(m, r))')
  <2>1. CASE reader[m]
    BY <1>2, <2>1, FramesOf, QueuedAppended
  <2>2. CASE ~reader[m]
    BY <1>2, <2>2, QueueSame
  <2>3. QED  BY <2>1, <2>2
<1>4. OpenKept /\ TasksGrow /\ KeysKept'
  BY <1>2, TasksUntouched DEF OpenKept
<1>5. ASSUME NEW q \in Requests, NEW n \in Masters, dest[q] = n, Held(q, n) PROVE Held(q, n)'
  <2>1. Queued(EndOf(n, q)) => Queued(EndOf(n, q))'
    BY <1>3, FramesOf DEF QueueGrows
  <2>2. Queued(Eof(n)) => Queued(Eof(n))'
    BY <1>3, FramesOf DEF QueueGrows
  <2>3. CASE q = r /\ reader[n]
    BY <1>1, <1>3, <1>5, <2>3 DEF Held
  <2>4. CASE q # r \/ ~reader[n]
    BY <1>2, <1>4, <1>5, <2>1, <2>2, <2>4 DEF Held, TasksGrow
  <2>5. QED  BY <2>3, <2>4
<1>6. QED  BY <1>4, <1>5, InHandNext

\* A connection that goes takes what its host worked on with it; the EOF says so.
LEMMA LoseInHand ==
  ASSUME HandInv, NEW m \in Masters, Lose(m)
  PROVE  InHand' /\ KeysKept'
<1> USE DEF HandInv
<1>1. /\ onHost' = onHost \ Abandoned(m) /\ reader' = [reader EXCEPT ![m] = FALSE]
      /\ inbox' = (IF reader[m] THEN Append(inbox, Eof(m)) ELSE inbox)
      /\ UNCHANGED <<dest, pc, entries, task, forsaken>>
  BY DEF Lose, tableVars
<1>2. QueueGrows /\ (reader[m] => Queued(Eof(m))')
  <2>1. Eof(m) \in Frame
    BY DEF Eof, Frame
  <2>2. CASE reader[m]
    BY <1>1, <2>1, <2>2, QueuedAppended
  <2>3. CASE ~reader[m]
    BY <1>1, <2>3, QueueSame
  <2>4. QED  BY <2>2, <2>3
<1>3. OpenKept /\ TasksGrow /\ KeysKept'
  BY <1>1, TasksUntouched DEF OpenKept
<1>4. \A n \in Masters : n # m => reader'[n] = reader[n]
  BY <1>1 DEF TypeInv, TypeOK
<1>5. ASSUME NEW q \in Requests, NEW n \in Masters, dest[q] = n, Held(q, n) PROVE Held(q, n)'
  <2>1. Queued(EndOf(n, q)) => Queued(EndOf(n, q))'
    BY <1>2, FramesOf DEF QueueGrows
  <2>2. Queued(Eof(n)) => Queued(Eof(n))'
    BY <1>2, FramesOf DEF QueueGrows
  <2>3. CASE n = m /\ reader[m]
    BY <1>2, <2>3 DEF Held
  <2>4. CASE n # m \/ ~reader[m]
    BY <1>1, <1>3, <1>4, <1>5, <2>1, <2>2, <2>4 DEF Held, TasksGrow, Abandoned
  <2>5. QED  BY <2>3, <2>4
<1>6. QED  BY <1>3, <1>5, InHandNext

\* The slot a connection is attached to had no reader: nothing was held there.
LEMMA AttachInHand ==
  ASSUME HandInv, NEW m \in Masters, Attach(m)
  PROVE  InHand' /\ KeysKept'
<1> USE DEF HandInv
<1>1. /\ onHost' = onHost \ Abandoned(m) /\ reader' = [reader EXCEPT ![m] = newcomer.up]
      /\ UNCHANGED <<inbox, dest, pc, entries, forsaken>> /\ newcomer.master = m
      /\ UNCHANGED task \/ Rebuild("attacher")
  BY DEF Attach, tableVars, pumpVars
<1>2. ~reader[m] /\ "attacher" \in Agents
  BY <1>1 DEF SlotFree, Agents
<1>3. QueueGrows /\ OpenKept /\ TasksGrow /\ KeysKept'
  BY <1>1, <1>2, QueueSame, TasksUntouched, RebuildTaken DEF OpenKept
<1>4. \A n \in Masters : n # m => reader'[n] = reader[n]
  BY <1>1 DEF TypeInv, TypeOK
<1>5. ASSUME NEW q \in Requests, NEW n \in Masters, dest[q] = n, Held(q, n) PROVE Held(q, n)'
  <2>1. Queued(EndOf(n, q)) => Queued(EndOf(n, q))'
    BY <1>3, FramesOf DEF QueueGrows
  <2>2. Queued(Eof(n)) => Queued(Eof(n))'
    BY <1>3, FramesOf DEF QueueGrows
  <2>3. (q \in onHost /\ reader[n]) => (q \in onHost' /\ reader'[n])
    BY <1>1, <1>2, <1>4, <1>5 DEF Abandoned
  <2>4. QED  BY <1>1, <1>3, <1>5, <2>1, <2>2, <2>3 DEF Held, TasksGrow
<1>6. QED  BY <1>3, <1>5, InHandNext

LEMMA NewsInHand ==
  ASSUME HandInv, UNCHANGED <<reader, onHost, forsaken, task, entries, pc, dest>>,
         inbox' = inbox \/ \E f \in Frame : inbox' = Append(inbox, f)
  PROVE  InHand' /\ KeysKept'
<1>1. QueueGrows
  BY QueueSame, QueuedAppended DEF HandInv
<1>2. OpenKept
  BY DEF OpenKept
<1>3. QED  BY <1>1, <1>2, TasksUntouched, NothingLost DEF HandInv, HostsKept, ReadersKept

\* Caps are advertised, a connection arrives or is lost again.
LEMMA MasterInHand ==
  ASSUME HandInv, NEW m \in Masters, Notify(m) \/ Arrive(m) \/ LoseArriving(m)
  PROVE  InHand' /\ KeysKept'
<1>1. UNCHANGED <<reader, onHost, forsaken, task, entries, pc, dest>>
  BY DEF Notify, Arrive, LoseArriving, masterVars, requestVars, tableVars
<1>2. Arrive(m) => inbox' = inbox
  BY DEF Arrive, pumpVars
<1>3. LoseArriving(m) => \E f \in Frame : inbox' = Append(inbox, f)
  BY DEF LoseArriving, Eof, Frame
<1>4. Notify(m) => \E f \in Frame : inbox' = Append(inbox, f)
  <2>1. ASSUME NEW some \in BOOLEAN PROVE [type |-> "NOTIFY", from |-> m, about |-> some] \in Frame
    BY DEF Frame
  <2>2. QED  BY <2>1 DEF Notify
<1>5. QED  BY <1>1, <1>2, <1>3, <1>4, NewsInHand

\* A request is routed, or made.
LEMMA NewInHand ==
  ASSUME HandInv, NEW r \in Requests,
         (r \in Calls /\ Route(r)) \/ (r \in Peers /\ MakePeerRequest(r))
  PROVE  InHand' /\ KeysKept'
<1> USE DEF HandInv
<1>1. pc \in [Requests -> Progress] /\ dest \in [Requests -> Masters \cup {NoOne}]
  BY DEF TypeInv, TypeOK, Progress
<1>2. UNCHANGED <<reader, onHost, forsaken, task, entries>>
  BY DEF Route, MakePeerRequest, masterVars, requestVars, tableVars
<1>3. QueueGrows
  <2>1. CASE r \in Calls /\ Route(r)
    BY <2>1, QueueSame DEF Route, pumpVars
  <2>2. CASE r \in Peers /\ MakePeerRequest(r)
    <3>1. PICK n \in Masters : n = dest[Parent[r]]
      BY <2>2 DEF MakePeerRequest, TypeInv, Placed
    <3>2. [type |-> "REQ", from |-> n, about |-> r] \in Frame
      BY <2>2 DEF Frame
    <3>3. inbox' = Append(inbox, [type |-> "REQ", from |-> n, about |-> r])
      BY <2>2, <3>1 DEF MakePeerRequest
    <3>4. QED  BY <3>2, <3>3, QueuedAppended
  <2>3. QED  BY <2>1, <2>2
<1>4. \A q \in Requests : pc'[q] = "open" => q # r /\ pc[q] = "open" /\ dest'[q] = dest[q]
  <2>1. PICK s \in {"routed", "sent"} : pc' = [pc EXCEPT ![r] = s]
    BY DEF Route, MakePeerRequest
  <2>2. dest' = dest \/ \E n : dest' = [dest EXCEPT ![r] = n]
    BY DEF Route, MakePeerRequest, tableVars
  <2>3. \A q \in Requests : pc'[q] = "open" => q # r /\ pc[q] = "open"
    BY <1>1, <2>1
  <2>4. \A q \in Requests : q # r => dest'[q] = dest[q]
    BY <1>1, <2>2
  <2>5. QED  BY <2>3, <2>4
<1>5. OpenKept
  BY <1>2, <1>4 DEF OpenKept, TypeInv, TypeOK
<1>6. QED  BY <1>2, <1>3, <1>5, TasksUntouched, NothingLost DEF HostsKept, ReadersKept

\* The reader of a slot is started by the attach alone, which clears the newcomer.
LEMMA SlotFreeKept == HandInv /\ [Next]_vars => SlotFree'
<1> SUFFICES ASSUME HandInv, [Next]_vars PROVE SlotFree'
  OBVIOUS
<1> USE DEF HandInv
<1>1. reader \in [Masters -> BOOLEAN] /\ NoOne \notin Masters
  BY NoOneAssumption DEF TypeInv, TypeOK
<1>2. ASSUME newcomer'.master = newcomer.master, \A m \in Masters : reader'[m] => reader[m] PROVE SlotFree'
  BY <1>2 DEF SlotFree
<1>3. ASSUME UNCHANGED <<newcomer, reader>> PROVE SlotFree'
  BY <1>2, <1>3
<1>4. ASSUME NEW a \in Agents, TaskStep(a) PROVE SlotFree'
  <2>1. newcomer' = newcomer
    BY <1>4 DEF TaskStep, Inspect, Retire, Condemn, LookUp, Sweep, ReadMaster, WriteTable, linkVars
  <2>2. reader' = reader \/ \E m : reader' = [reader EXCEPT ![m] = FALSE]
    BY <1>4 DEF TaskStep, Inspect, Retire, Condemn, LookUp, Sweep, ReadMaster, WriteTable, masterVars
  <2>3. QED  BY <1>1, <1>2, <2>1, <2>2
<1>5. ASSUME NEW c \in Calls, Route(c) \/ CallStep(c) \/ Cancel(c) PROVE SlotFree'
  BY <1>3, <1>5 DEF Route, CallStep, Register, WriteRequest, GiveUp, Cancel, masterVars, linkVars
<1>6. ASSUME NEW k \in Pumps, PumpStep(k) PROVE SlotFree'
  BY <1>3, <1>6 DEF PumpStep, TakeRequest, PeerStep, Register, WriteRequest, GiveUp, PeerDone,
     TakeTerminal, Reply, Unstick, TakeEof, TakeNotify, HoldBack, NotifyDone, masterVars, linkVars
<1>7. ASSUME CancelChild \/ CancelDone \/ DriverStep PROVE SlotFree'
  BY <1>3, <1>7 DEF CancelChild, CancelDone, DriverStep, ProbeStart, ProbeAnswered, ProbeFails,
     ProbeVerdict, masterVars, linkVars
<1>8. ASSUME (\E p \in Peers : MakePeerRequest(p)) \/ (\E r \in Requests : Answer(r)) PROVE SlotFree'
  BY <1>3, <1>8 DEF MakePeerRequest, Answer, masterVars, linkVars
<1>9. ASSUME NEW m \in Masters, Notify(m) PROVE SlotFree'
  BY <1>3, <1>9 DEF Notify, masterVars, linkVars
<1>10. ASSUME NEW m \in Masters, Lose(m) PROVE SlotFree'
  <2>1. newcomer' = newcomer /\ reader' = [reader EXCEPT ![m] = FALSE]
    BY <1>10 DEF Lose
  <2>2. QED  BY <1>1, <1>2, <2>1
<1>11. ASSUME NEW m \in Masters, Arrive(m) PROVE SlotFree'
  <2>1. newcomer' = [master |-> m, up |-> TRUE] /\ ~reader[m] /\ reader' = reader
    BY <1>11 DEF Arrive, masterVars
  <2>2. QED  BY <2>1 DEF SlotFree
<1>12. ASSUME NEW m \in Masters, LoseArriving(m) PROVE SlotFree'
  <2>1. newcomer = [master |-> m, up |-> TRUE] /\ newcomer' = [newcomer EXCEPT !.up = FALSE] /\ reader' = reader
    BY <1>12 DEF LoseArriving, Arriving, masterVars
  <2>2. newcomer'.master = newcomer.master
    BY <2>1
  <2>3. QED  BY <1>2, <2>1, <2>2
<1>13. ASSUME NEW m \in Masters, Attach(m) PROVE SlotFree'
  <2>1. newcomer' = Nobody
    BY <1>13 DEF Attach
  <2>2. QED  BY <1>1, <2>1 DEF SlotFree, Nobody
<1>14. CASE UNCHANGED vars
  BY <1>3, <1>14 DEF vars, masterVars, linkVars
<1>15. QED
  BY <1>4, <1>5, <1>6, <1>7, <1>8, <1>9, <1>10, <1>11, <1>12, <1>13, <1>14 DEF Next

LEMMA HandStart == Init => HandInv
<1> SUFFICES ASSUME Init PROVE HandInv
  OBVIOUS
<1>1. TypeInv
  BY TypeStart
<1>2. InHand /\ KeysKept /\ SlotFree
  BY NoOneAssumption DEF Init, InHand, KeysKept, SlotFree, Idle, Nobody
<1>3. QED  BY <1>1, <1>2 DEF HandInv

LEMMA HandStep == HandInv /\ [Next]_vars => HandInv'
<1> SUFFICES ASSUME HandInv, [Next]_vars PROVE HandInv'
  OBVIOUS
<1>1. TypeInv' /\ SlotFree'
  BY TypeStep, SlotFreeKept DEF HandInv
<1>2. InHand' /\ KeysKept'
  <2>1. ASSUME NEW c \in Calls, Route(c) \/ CallStep(c) \/ Cancel(c) PROVE InHand' /\ KeysKept'
    <3>1. c \in Requests /\ c \in Agents
      BY DEF Requests, Agents
    <3>2. CASE CallStep(c)
      BY <3>1, <3>2, RequestInHand DEF CallStep
    <3>3. CASE Route(c)
      BY <3>1, <3>3, NewInHand
    <3>4. CASE Cancel(c)
      BY <3>4, CancelInHand
    <3>5. QED  BY <2>1, <3>2, <3>3, <3>4
  <2>2. ASSUME NEW k \in Pumps, PumpStep(k) PROVE InHand' /\ KeysKept'
    <3>1. k \in Agents /\ Peers \subseteq Requests
      BY DEF Agents, Requests
    <3>2. CASE PeerStep(k)
      BY <3>1, <3>2, RequestInHand DEF PeerStep
    <3>3. QED  BY <2>2, <3>2, TakeInHand, PumpInHand DEF PumpStep
  <2>3. CASE CancelChild \/ CancelDone \/ DriverStep
    BY <2>3, CancelInHand, DriverInHand
  <2>4. ASSUME NEW p \in Peers, MakePeerRequest(p) PROVE InHand' /\ KeysKept'
    BY <2>4, NewInHand DEF Requests
  <2>5. ASSUME NEW m \in Masters, MasterStep(m) PROVE InHand' /\ KeysKept'
    BY <2>5, MasterInHand, LoseInHand, AttachInHand DEF MasterStep
  <2>6. CASE UNCHANGED vars
    BY <2>6 DEF HandInv, InHand, DeathPending, Queued, Eof, Listed, KeysKept, vars, masterVars, requestVars,
       pumpVars, tableVars
  <2>7. QED  BY <2>1, <2>2, <2>3, <2>4, <2>5, <2>6, TaskStepInHand, AnswerInHand DEF Next, MasterStep
<1>3. QED  BY <1>1, <1>2 DEF HandInv

\* Whatever races losses, failed writes, probes and attaches run: a request in
\* the table that was written has a host that is read, an answer on its way, a
\* death to come or a sweep that lists it, or the switch is known to have left it.
THEOREM InHandAlways == Spec => []InHand
<1>1. HandInv => InHand
  BY DEF HandInv
<1>2. QED  BY <1>1, HandStart, HandStep, PTL DEF Spec
=============================================================================
