----------------------- MODULE CartridgeRequest_proofs -----------------------
(***************************************************************************)
(* Theorems about CartridgeRequest, for any requests, pools, chains,       *)
(* capacities, kinds of handlers and bounds.                               *)
(***************************************************************************)
EXTENDS CartridgeRequest, TLAPS, FiniteSetTheorems

Req(r) == [type |-> "REQ", req |-> r]

\* A request's REQ reaches the loop once, and before anything is known of it.
ReqOnce ==
  \A r \in Requests :
    /\ "REQ" \notin sent[r] =>
         input[r] = "none" /\ \A i \in 1..Len(inbox) : inbox[i] # Req(r)
    /\ input[r] # "none" => \A i \in 1..Len(inbox) : inbox[i] # Req(r)
    /\ \A i, j \in 1..Len(inbox) : inbox[i] = Req(r) /\ inbox[j] = Req(r) => i = j

\* How far the handler is says who has claimed the request.
ClaimFits(r) ==
  /\ handler[r] = "none" => claim[r] = "open"
  /\ handler[r] \in Running \ {"claimed"} => claim[r] \in {"open", "cancel"}
  /\ handler[r] = "claimed" => claim[r] = "handler"
  /\ handler[r] \in {"exited", "reaped"} => claim[r] # "open"

\* And that says how many terminals it has.
TerminalsFit(r) ==
  terminals[r] = IF \/ handler[r] = "none" /\ input[r] # "none" /\ r \notin queued
                    \/ handler[r] \in {"exited", "reaped"} /\ claim[r] = "handler"
                    \/ handler[r] = "reaped" /\ claim[r] = "cancel"
                 THEN 1 ELSE 0

Ledger ==
  \A r \in Requests :
    /\ input[r] = "none" => handler[r] = "none" /\ r \notin queued
    /\ r \in queued => handler[r] = "none"
    /\ ClaimFits(r) /\ TerminalsFit(r)
    /\ r \in cancelled <=> claim[r] = "cancel" /\ handler[r] # "reaped"
    /\ r \in done <=> handler[r] = "exited"

IInv == TypeOK /\ ReqOnce /\ Ledger /\ SlotsMatchHandlers

-----------------------------------------------------------------------------
(* The reader's queue: what appending and taking a frame does to it.       *)

LEMMA Appended ==
  ASSUME inbox \in Seq(Frames), NEW f \in Frames, inbox' = Append(inbox, f)
  PROVE  /\ inbox' \in Seq(Frames) /\ Len(inbox) \in Nat
         /\ Len(inbox') = Len(inbox) + 1 /\ inbox'[Len(inbox) + 1] = f
         /\ \A i \in 1..Len(inbox) : inbox'[i] = inbox[i]
OBVIOUS

LEMMA Taken ==
  ASSUME inbox \in Seq(Frames), inbox # <<>>, inbox' = Tail(inbox)
  PROVE  /\ inbox' \in Seq(Frames) /\ Len(inbox) \in Nat /\ 1 \in 1..Len(inbox)
         /\ Len(inbox') = Len(inbox) - 1 /\ Head(inbox) = inbox[1]
         /\ \A i \in 1..Len(inbox') : i + 1 \in 1..Len(inbox) /\ inbox'[i] = inbox[i + 1]
OBVIOUS

\* Appending anything but a REQ, of requests that were sent before.
LEMMA ReqOnceAppended ==
  ASSUME TypeOK, ReqOnce, NEW f \in Frames, inbox' = Append(inbox, f),
         \A r \in Requests : f # Req(r),
         \A r \in Requests : "REQ" \in sent[r] => "REQ" \in sent'[r],
         UNCHANGED input
  PROVE  ReqOnce'
<1> SUFFICES ASSUME NEW r \in Requests
             PROVE  /\ "REQ" \notin sent'[r] =>
                         input[r] = "none" /\ \A i \in 1..Len(inbox') : inbox'[i] # Req(r)
                    /\ input[r] # "none" => \A i \in 1..Len(inbox') : inbox'[i] # Req(r)
                    /\ \A i, j \in 1..Len(inbox') :
                         inbox'[i] = Req(r) /\ inbox'[j] = Req(r) => i = j
  BY DEF ReqOnce, Req
<1>1. /\ Len(inbox) \in Nat /\ Len(inbox') = Len(inbox) + 1
      /\ inbox'[Len(inbox) + 1] # Req(r)
      /\ \A i \in 1..Len(inbox) : inbox'[i] = inbox[i]
  BY Appended DEF TypeOK
<1>2. \A i \in 1..Len(inbox') : inbox'[i] = Req(r) => i \in 1..Len(inbox) /\ inbox[i] = Req(r)
  BY <1>1
<1>3. QED  BY <1>2 DEF ReqOnce

\* Taking a frame; a request that becomes known by it has no REQ left.
LEMMA ReqOnceTaken ==
  ASSUME TypeOK, ReqOnce, inbox # <<>>, inbox' = Tail(inbox), UNCHANGED sent,
         \A r \in Requests : input'[r] # "none" => input[r] # "none" \/ Head(inbox) = Req(r)
  PROVE  ReqOnce'
<1> SUFFICES ASSUME NEW r \in Requests
             PROVE  /\ "REQ" \notin sent[r] =>
                         input'[r] = "none" /\ \A i \in 1..Len(inbox') : inbox'[i] # Req(r)
                    /\ input'[r] # "none" => \A i \in 1..Len(inbox') : inbox'[i] # Req(r)
                    /\ \A i, j \in 1..Len(inbox') :
                         inbox'[i] = Req(r) /\ inbox'[j] = Req(r) => i = j
  BY DEF ReqOnce, Req
<1>1. /\ Len(inbox) \in Nat /\ 1 \in 1..Len(inbox) /\ Head(inbox) = inbox[1]
      /\ Len(inbox') = Len(inbox) - 1
      /\ \A i \in 1..Len(inbox') : i + 1 \in 1..Len(inbox) /\ inbox'[i] = inbox[i + 1]
  BY Taken DEF TypeOK
<1>2. \A i \in 1..Len(inbox') :
        inbox'[i] = Req(r) => i + 1 \in 1..Len(inbox) /\ inbox[i + 1] = Req(r)
  BY <1>1
<1>3. /\ "REQ" \notin sent[r] =>
           input[r] = "none" /\ \A i \in 1..Len(inbox) : inbox[i] # Req(r)
      /\ input[r] # "none" => \A i \in 1..Len(inbox) : inbox[i] # Req(r)
      /\ \A i, j \in 1..Len(inbox) : inbox[i] = Req(r) /\ inbox[j] = Req(r) => i = j
  BY DEF ReqOnce
<1>4. input'[r] # "none" => \A i \in 1..Len(inbox') : inbox'[i] # Req(r)
  <2>1. CASE input[r] # "none"  BY <2>1, <1>2, <1>3
  <2>2. CASE inbox[1] = Req(r)
    <3> SUFFICES ASSUME NEW i \in 1..Len(inbox'), inbox'[i] = Req(r) PROVE FALSE  OBVIOUS
    <3>1. i + 1 = 1  BY <1>1, <1>2, <1>3, <2>2
    <3>2. QED  BY <3>1, <1>1
  <2>3. QED  BY <2>1, <2>2, <1>1
<1>5. "REQ" \notin sent[r] =>
        input'[r] = "none" /\ \A i \in 1..Len(inbox') : inbox'[i] # Req(r)
  BY <1>1, <1>2, <1>3
<1>6. ASSUME NEW i \in 1..Len(inbox'), NEW j \in 1..Len(inbox'),
             inbox'[i] = Req(r), inbox'[j] = Req(r)
      PROVE  i = j
  <2>1. i + 1 = j + 1  BY <1>2, <1>3, <1>6
  <2>2. QED  BY <2>1, <1>1
<1>7. QED  BY <1>4, <1>5, <1>6

-----------------------------------------------------------------------------
(* The pools: what spawning and reaping a handler does to the counts.      *)

Holders(p) == {r \in Requests : Active(r) /\ p \in Chain[r]}

LEMMA HoldersFinite ==
  ASSUME NEW p
  PROVE  IsFiniteSet(Holders(p)) /\ Cardinality(Holders(p)) \in Nat
<1>1. IsFiniteSet(Holders(p))  BY RequestsFinite, FS_Subset DEF Holders
<1>2. QED  BY <1>1, FS_CardinalityType

\* Whoever stays on its side of spawn and reap changes no count.
LEMMA SlotsKept ==
  ASSUME SlotsMatchHandlers, UNCHANGED active, \A r \in Requests : Active(r)' = Active(r)
  PROVE  SlotsMatchHandlers'
<1>1. \A p : {r \in Requests : Active(r) /\ p \in Chain[r]}'
               = {r \in Requests : Active(r) /\ p \in Chain[r]}
  OBVIOUS
<1>2. QED  BY <1>1 DEF SlotsMatchHandlers

LEMMA SlotsTaken ==
  ASSUME TypeOK, SlotsMatchHandlers, NEW r \in Requests, handler[r] = "none", Spawn(r)
  PROVE  SlotsMatchHandlers' /\ active' \in [Pools -> Nat]
<1>1. ASSUME NEW p \in Pools
      PROVE  active'[p] \in Nat /\ active'[p] = Cardinality(Holders(p)')
  <2>1. active[p] = Cardinality(Holders(p)) /\ active[p] \in Nat
    BY DEF SlotsMatchHandlers, Holders, TypeOK
  <2>2. CASE p \in Chain[r]
    <3>1. Holders(p)' = Holders(p) \cup {r} /\ r \notin Holders(p)
      BY <2>2 DEF Holders, Active, Spawn, TypeOK
    <3>2. Cardinality(Holders(p)') = Cardinality(Holders(p)) + 1
      BY <3>1, HoldersFinite, FS_AddElement
    <3>3. QED  BY <3>2, <2>1, <2>2 DEF Spawn, Take
  <2>3. CASE p \notin Chain[r]
    <3>1. Holders(p)' = Holders(p)  BY <2>3 DEF Holders, Active, Spawn, TypeOK
    <3>2. QED  BY <3>1, <2>1, <2>3 DEF Spawn, Take
  <2>4. QED  BY <2>2, <2>3
<1>2. QED  BY <1>1 DEF SlotsMatchHandlers, Holders, Spawn, Take

\* The count is never zero here: the assertion in release cannot fail.
LEMMA SlotsGiven ==
  ASSUME TypeOK, SlotsMatchHandlers, NEW r \in Requests, Active(r), Give(r),
         handler' = [handler EXCEPT ![r] = "reaped"]
  PROVE  SlotsMatchHandlers' /\ active' \in [Pools -> Nat]
<1>1. ASSUME NEW p \in Pools
      PROVE  active'[p] \in Nat /\ active'[p] = Cardinality(Holders(p)')
  <2>1. active[p] = Cardinality(Holders(p)) /\ active[p] \in Nat
    BY DEF SlotsMatchHandlers, Holders, TypeOK
  <2>2. CASE p \in Chain[r]
    <3>1. Holders(p)' = Holders(p) \ {r} /\ r \in Holders(p)
      BY <2>2 DEF Holders, Active, TypeOK
    <3>2. Cardinality(Holders(p)') = Cardinality(Holders(p)) - 1
      BY <3>1, HoldersFinite, FS_RemoveElement
    <3>3. Cardinality(Holders(p)) # 0  BY <3>1, HoldersFinite, FS_EmptySet
    <3>4. QED  BY <3>2, <3>3, <2>1, <2>2, HoldersFinite DEF Give
  <2>3. CASE p \notin Chain[r]
    <3>1. Holders(p)' = Holders(p)  BY <2>3 DEF Holders, Active, TypeOK
    <3>2. QED  BY <3>1, <2>1, <2>3 DEF Give
  <2>4. QED  BY <2>2, <2>3
<1>2. QED  BY <1>1 DEF SlotsMatchHandlers, Holders, Give

-----------------------------------------------------------------------------
(* What most steps do to the ledger: nothing, or one handler's next stage. *)

LEMMA LedgerKept ==
  ASSUME Ledger, UNCHANGED <<queued, input, handler, ends, done>>
  PROVE  Ledger'
BY DEF Ledger, ClaimFits, TerminalsFit, ends

\* A stage between the spawn and the claim, and another.
Unclaimed == Running \ {"claimed"}

LEMMA HandlerMoves ==
  ASSUME TypeOK, Ledger, SlotsMatchHandlers, NEW r \in Requests, NEW from \in Unclaimed,
         NEW to \in Unclaimed, At(r, from, to), UNCHANGED <<active, queued, input, ends, done>>
  PROVE  /\ Ledger' /\ SlotsMatchHandlers'
         /\ handler' \in [Requests -> Running \cup {"none", "exited", "reaped"}]
<1>1. \A q \in Requests : Active(q)' = Active(q)
  BY DEF At, Active, Unclaimed, Running, TypeOK
<1>2. SlotsMatchHandlers'  BY <1>1, SlotsKept
<1>3. Ledger'  BY DEF Ledger, ClaimFits, TerminalsFit, At, Unclaimed, Running, TypeOK, ends
<1>4. QED  BY <1>2, <1>3 DEF At, Unclaimed, TypeOK

-----------------------------------------------------------------------------
(* The initial states, and the host's and the reader's steps.              *)

LEMMA InitIInv == Init => IInv
<1> SUFFICES ASSUME Init PROVE IInv  OBVIOUS
<1>1. TypeOK
  <2>1. inbox \in Seq(Frames)  BY DEF Init
  <2>2. changes \in 0..MaxChanges  BY BoundsType DEF Init
  <2>3. QED  BY <2>1, <2>2 DEF Init, TypeOK
<1>2. ReqOnce  BY DEF Init, ReqOnce
<1>3. Ledger  BY DEF Init, Ledger, ClaimFits, TerminalsFit, Running
<1>4. SlotsMatchHandlers
  <2>1. \A p \in Pools : {r \in Requests : Active(r) /\ p \in Chain[r]} = {}
    BY DEF Init, Active
  <2>2. QED  BY <2>1, FS_EmptySet DEF Init, SlotsMatchHandlers
<1>5. QED  BY <1>1, <1>2, <1>3, <1>4 DEF IInv

LEMMA SendStep ==
  ASSUME NEW r \in Requests, NEW type \in RequestFrames, IInv, HostSends(r, type)
  PROVE  IInv'
<1> USE DEF line, pools, wakes, ends, gates
<1>1. [type |-> type, req |-> r] \in Frames  BY DEF Frames
<1>2. inbox' \in Seq(Frames)  BY <1>1, Appended DEF IInv, TypeOK, HostSends
<1>3. TypeOK'  BY <1>2 DEF IInv, TypeOK, HostSends
<1>4. Ledger'  BY LedgerKept DEF IInv, HostSends
<1>5. SlotsMatchHandlers'  BY SlotsKept DEF IInv, HostSends, Active
<1>6. ReqOnce'
  <2>1. CASE type # "REQ"
    <3>1. \A q \in Requests : [type |-> type, req |-> r] # Req(q)  BY <2>1 DEF Req
    <3>2. \A q \in Requests : "REQ" \in sent[q] => "REQ" \in sent'[q]
      BY DEF IInv, TypeOK, HostSends
    <3>3. QED  BY <1>1, <3>1, <3>2, ReqOnceAppended DEF IInv, HostSends
  <2>2. CASE type = "REQ"
    <3> SUFFICES ASSUME NEW q \in Requests
                 PROVE  /\ "REQ" \notin sent'[q] =>
                             input[q] = "none" /\ \A i \in 1..Len(inbox') : inbox'[i] # Req(q)
                        /\ input[q] # "none" => \A i \in 1..Len(inbox') : inbox'[i] # Req(q)
                        /\ \A i, j \in 1..Len(inbox') :
                             inbox'[i] = Req(q) /\ inbox'[j] = Req(q) => i = j
      BY DEF ReqOnce, Req, HostSends
    <3>1. /\ Len(inbox) \in Nat /\ Len(inbox') = Len(inbox) + 1
          /\ inbox'[Len(inbox) + 1] = Req(r)
          /\ \A i \in 1..Len(inbox) : inbox'[i] = inbox[i]
      BY <1>1, <2>2, Appended DEF IInv, TypeOK, HostSends, Req
    <3>2. "REQ" \notin sent[r]  BY <2>2 DEF HostSends
    <3>3. CASE q = r
      <4>1. input[r] = "none" /\ \A i \in 1..Len(inbox) : inbox[i] # Req(r)
        BY <3>2 DEF IInv, ReqOnce
      <4>2. \A i \in 1..Len(inbox') : inbox'[i] = Req(r) => i = Len(inbox) + 1
        BY <3>1, <4>1
      <4>3. "REQ" \in sent'[r]  BY <2>2 DEF IInv, TypeOK, HostSends
      <4>4. QED  BY <3>3, <4>1, <4>2, <4>3
    <3>4. CASE q # r
      <4>1. Req(q) # Req(r)  BY <3>4 DEF Req
      <4>2. \A i \in 1..Len(inbox') :
              inbox'[i] = Req(q) => i \in 1..Len(inbox) /\ inbox[i] = Req(q)
        BY <3>1, <4>1
      <4>3. sent'[q] = sent[q]  BY <3>4 DEF IInv, TypeOK, HostSends
      <4>4. QED  BY <4>2, <4>3 DEF IInv, ReqOnce
    <3>5. QED  BY <3>3, <3>4
  <2>3. QED  BY <2>1, <2>2
<1>7. QED  BY <1>3, <1>4, <1>5, <1>6 DEF IInv

LEMMA PassHeartbeatStep == ASSUME IInv, PassHeartbeat PROVE IInv'
<1> USE DEF line, pools, wakes, ends, gates
<1>1. Heartbeat \in Frames /\ \A r \in Requests : Heartbeat # Req(r)
  BY DEF Frames, Heartbeat, Req
<1>2. inbox' \in Seq(Frames)  BY <1>1, Appended DEF IInv, TypeOK, PassHeartbeat
<1>3. TypeOK'  BY <1>2 DEF IInv, TypeOK, PassHeartbeat
<1>4. Ledger'  BY LedgerKept DEF IInv, PassHeartbeat
<1>5. SlotsMatchHandlers'  BY SlotsKept DEF IInv, PassHeartbeat, Active
<1>6. ReqOnce'  BY <1>1, ReqOnceAppended DEF IInv, PassHeartbeat
<1>7. QED  BY <1>3, <1>4, <1>5, <1>6 DEF IInv

\* Limits and wakeups are no part of the books.
LEMMA LimitStep ==
  ASSUME IInv,
         \/ \E p \in Pools, n \in Capacities : Probe(p, n) \/ SetAvailable(p, n)
         \/ NotifyOne \/ Drained \/ PoolsChanged
  PROVE  IInv'
<1> USE DEF line, pools, wakes, ends, gates, Turn
<1>1. /\ UNCHANGED <<inbox, sent, queued, ticket, tickets, active, input, handler, ends, done, gates>>
  BY DEF Probe, SetAvailable, NotifyOne, Drained, PoolsChanged
<1>2. TypeOK'
  <2> USE DEF IInv, TypeOK
  <2>1. CASE \E p \in Pools, n \in Capacities : Probe(p, n) \/ SetAvailable(p, n)
    <3>1. /\ capacity' \in [Pools -> Capacities]
          /\ changed' = changed /\ loop' = loop
          /\ owed' \subseteq {"notify", "heartbeat"}
      <4>1. PICK p \in Pools, n \in Capacities : Probe(p, n) \/ SetAvailable(p, n)  BY <2>1
      <4>2. capacity' = [capacity EXCEPT ![p] = n]  BY <4>1 DEF Probe, SetAvailable
      <4>3. changed' = changed /\ loop' = loop  BY <4>1 DEF Probe, SetAvailable
      <4>4. owed' = owed \cup {"heartbeat"} \/ owed' = owed \cup {"notify"}
        BY <4>1 DEF Probe, SetAvailable
      <4>5. QED  BY <4>2, <4>3, <4>4
    <3>2. changes' = changes + 1 /\ changes < MaxChanges  BY <2>1 DEF Probe, SetAvailable
    <3>3. changes' \in 0..MaxChanges  BY <3>2, BoundsType
    <3>4. QED  BY <1>1, <3>1, <3>3
  <2>2. CASE NotifyOne  BY <2>2 DEF NotifyOne
  <2>3. CASE Drained  BY <2>3 DEF Drained
  <2>4. CASE PoolsChanged  BY <2>4 DEF PoolsChanged
  <2>5. QED  BY <2>1, <2>2, <2>3, <2>4
<1>3. Ledger'  BY <1>1, LedgerKept DEF IInv
<1>4. SlotsMatchHandlers'  BY <1>1, SlotsKept DEF IInv, Active
<1>5. ReqOnce'  BY <1>1 DEF IInv, ReqOnce
<1>6. QED  BY <1>2, <1>3, <1>4, <1>5 DEF IInv

-----------------------------------------------------------------------------
(* The main loop's steps.                                                  *)

LEMMA AdmitNextStep == ASSUME NEW r \in Requests, IInv, AdmitNext(r) PROVE IInv'
<1> USE DEF wakes, ends, gates
<1>1. handler[r] = "none" /\ r \in queued  BY DEF IInv, Ledger, AdmitNext, NextUp
<1>2. SlotsMatchHandlers' /\ active' \in [Pools -> Nat]
  BY <1>1, SlotsTaken DEF IInv, AdmitNext
<1>3. TypeOK'  BY <1>2 DEF IInv, TypeOK, AdmitNext, Spawn, Running
<1>4. Ledger'
  BY <1>1 DEF IInv, TypeOK, Ledger, ClaimFits, TerminalsFit, AdmitNext, Spawn, Running
<1>5. ReqOnce'  BY DEF IInv, ReqOnce, AdmitNext
<1>6. QED  BY <1>2, <1>3, <1>4, <1>5 DEF IInv

LEMMA ReapStep == ASSUME NEW r \in Requests, IInv, Reap(r) PROVE IInv'
<1> USE DEF wakes, line, Turn
<1>1. handler[r] = "exited"  BY DEF IInv, Ledger, Reap
<1>2. SlotsMatchHandlers' /\ active' \in [Pools -> Nat]
  BY <1>1, SlotsGiven DEF IInv, Reap, Active
<1>3. TypeOK'  BY <1>2 DEF IInv, TypeOK, Reap
<1>4. Ledger'
  BY <1>1 DEF IInv, TypeOK, Ledger, ClaimFits, TerminalsFit, Reap, Running
<1>5. ReqOnce'  BY DEF IInv, ReqOnce, Reap
<1>6. QED  BY <1>2, <1>3, <1>4, <1>5 DEF IInv

LEMMA TakeReqStep == ASSUME NEW r \in Requests, IInv, TakeReq(r) PROVE IInv'
<1> USE DEF wakes, ends, gates, Turn, Takes
<1>1. inbox' \in Seq(Frames)  BY Taken DEF IInv, TypeOK, TakeReq
<1>2. input[r] = "none"
  <2>1. 1 \in 1..Len(inbox) /\ inbox[1] = Req(r)
    BY Taken DEF IInv, TypeOK, TakeReq, Req
  <2>2. QED  BY <2>1 DEF IInv, ReqOnce
<1>3. handler[r] = "none" /\ r \notin queued  BY <1>2 DEF IInv, Ledger
<1>4. SlotsMatchHandlers' /\ active' \in [Pools -> Nat]
  <2>1. CASE Spawn(r)  BY <2>1, <1>3, SlotsTaken DEF IInv
  <2>2. CASE UNCHANGED <<active, handler>>
    BY <2>2, SlotsKept DEF IInv, TypeOK, Active
  <2>3. QED  BY <2>1, <2>2 DEF TakeReq
<1>5. TypeOK'  BY <1>1, <1>4 DEF IInv, TypeOK, TakeReq, Spawn, Running
<1>6. Ledger'
  <2>1. CASE Spawn(r) /\ UNCHANGED queued
    BY <2>1, <1>3, <1>2 DEF IInv, TypeOK, Ledger, ClaimFits, TerminalsFit, TakeReq, Spawn, Running
  <2>2. CASE queued' = queued \cup {r} /\ UNCHANGED handler
    BY <2>2, <1>3, <1>2 DEF IInv, TypeOK, Ledger, ClaimFits, TerminalsFit, TakeReq, Running
  <2>3. QED  BY <2>1, <2>2 DEF TakeReq
<1>7. ReqOnce'
  <2>1. \A q \in Requests : input'[q] # "none" => input[q] # "none" \/ Head(inbox) = Req(q)
    BY DEF IInv, TypeOK, TakeReq, Req
  <2>2. QED  BY <2>1, ReqOnceTaken DEF IInv, TakeReq
<1>8. QED  BY <1>4, <1>5, <1>6, <1>7 DEF IInv

\* A taken frame that makes no request known.
LEMMA OtherFrameTaken ==
  ASSUME IInv, inbox # <<>>, inbox' = Tail(inbox), UNCHANGED sent,
         \A q \in Requests : input'[q] # "none" => input[q] # "none"
  PROVE  ReqOnce' /\ inbox' \in Seq(Frames)
<1>1. TypeOK /\ ReqOnce  BY DEF IInv
<1>2. inbox' \in Seq(Frames)
  <2>1. inbox \in Seq(Frames)  BY <1>1 DEF TypeOK
  <2>2. QED  BY <2>1, Taken
<1>3. \A q \in Requests : input'[q] # "none" => input[q] # "none" \/ Head(inbox) = Req(q)
  OBVIOUS
<1>4. ReqOnce'  BY <1>1, <1>3, ReqOnceTaken
<1>5. QED  BY <1>2, <1>4

\* These frames touch neither the line nor a terminal.
LEMMA PlainFrameStep ==
  ASSUME NEW r \in Requests, IInv,
         \/ TakeEnd(r) \/ CancelIgnored(r)
         \/ TakeCredit(r) \/ TakePeerCredit(r) \/ TakePeerEnd(r)
  PROVE  IInv'
<1> USE DEF line, pools, wakes, ends, gates, Turn, Takes
<1>1. /\ UNCHANGED <<sent, queued, ticket, tickets, capacity, active, changes, owed, changed>>
      /\ UNCHANGED <<handler, claim, cancelled, terminals, done>>
      /\ inbox # <<>> /\ inbox' = Tail(inbox) /\ loop' = "draining"
  BY DEF TakeEnd, CancelIgnored, TakeCredit, TakePeerCredit, TakePeerEnd
<1>2. /\ input' \in [Requests -> {"none", "open", "ended", "cut"}]
      /\ \A q \in Requests : input'[q] = "none" <=> input[q] = "none"
  BY DEF IInv, TypeOK, TakeEnd, CancelIgnored, TakeCredit, TakePeerCredit, TakePeerEnd
<1>3. /\ gate' \in [Requests -> {"none", "open", "granted", "closed"}]
      /\ argGate' \in [Requests -> {"none", "open", "granted"}]
      /\ peer' \in [Requests -> {"none", "pending", "answered", "cut"}]
  <2> USE DEF IInv, TypeOK
  <2>1. CASE TakeEnd(r)  BY <2>1 DEF TakeEnd
  <2>2. CASE CancelIgnored(r)  BY <2>2 DEF CancelIgnored
  <2>3. CASE TakeCredit(r)  BY <2>3 DEF TakeCredit
  <2>4. CASE TakePeerCredit(r)  BY <2>4 DEF TakePeerCredit
  <2>5. CASE TakePeerEnd(r)  BY <2>5 DEF TakePeerEnd
  <2>6. QED  BY <2>1, <2>2, <2>3, <2>4, <2>5
<1>4. ReqOnce' /\ inbox' \in Seq(Frames)  BY <1>1, <1>2, OtherFrameTaken
<1>5. TypeOK'  BY <1>1, <1>2, <1>3, <1>4 DEF IInv, TypeOK
<1>6. Ledger'  BY <1>1, <1>2 DEF IInv, Ledger, ClaimFits, TerminalsFit
<1>7. SlotsMatchHandlers'  BY <1>1, SlotsKept DEF IInv, Active
<1>8. QED  BY <1>4, <1>5, <1>6, <1>7 DEF IInv

LEMMA TakeHeartbeatStep == ASSUME IInv, TakeHeartbeat PROVE IInv'
<1> USE DEF line, pools, wakes, ends, gates, Turn
<1>1. ReqOnce' /\ inbox' \in Seq(Frames)
  BY OtherFrameTaken DEF TakeHeartbeat
<1>2. TypeOK'  BY <1>1 DEF IInv, TypeOK, TakeHeartbeat
<1>3. Ledger'  BY LedgerKept DEF IInv, TakeHeartbeat
<1>4. SlotsMatchHandlers'  BY SlotsKept DEF IInv, TakeHeartbeat, Active
<1>5. QED  BY <1>1, <1>2, <1>3, <1>4 DEF IInv

LEMMA CancelQueuedStep == ASSUME NEW r \in Requests, IInv, CancelQueued(r) PROVE IInv'
<1> USE DEF pools, wakes, gates, Turn, Takes
<1>1. handler[r] = "none" /\ input[r] # "none" /\ terminals[r] = 0
  BY DEF IInv, Ledger, TerminalsFit, CancelQueued
<1>2. /\ input' \in [Requests -> {"none", "open", "ended", "cut"}]
      /\ \A q \in Requests : input'[q] = "none" <=> input[q] = "none"
  BY DEF IInv, TypeOK, CancelQueued, CutInput
<1>3. ReqOnce' /\ inbox' \in Seq(Frames)
  BY <1>2, OtherFrameTaken DEF CancelQueued
<1>4. TypeOK'
  <2>1. queued' \subseteq Requests /\ terminals' \in [Requests -> Nat]
    BY DEF IInv, TypeOK, CancelQueued
  <2>2. QED  BY <1>2, <1>3, <2>1 DEF IInv, TypeOK, CancelQueued
<1>5. Ledger'
  <2>1. \A q \in Requests : q # r => (q \in queued' <=> q \in queued) /\ terminals'[q] = terminals[q]
    BY DEF IInv, TypeOK, CancelQueued
  <2>2. r \notin queued' /\ terminals'[r] = 1  BY <1>1 DEF IInv, TypeOK, CancelQueued
  <2>3. UNCHANGED <<handler, claim, cancelled, done>>  BY DEF CancelQueued
  <2>4. QED  BY <1>1, <1>2, <2>1, <2>2, <2>3 DEF IInv, Ledger, ClaimFits, TerminalsFit, Running
<1>6. SlotsMatchHandlers'  BY SlotsKept DEF IInv, CancelQueued, Active
<1>7. QED  BY <1>3, <1>4, <1>5, <1>6 DEF IInv

LEMMA CancelRunningStep == ASSUME NEW r \in Requests, IInv, CancelRunning(r) PROVE IInv'
<1> USE DEF line, pools, wakes, Turn, Takes
<1>1. handler[r] \in Unclaimed /\ terminals[r] = 0
  BY DEF IInv, TypeOK, Ledger, ClaimFits, TerminalsFit, CancelRunning, Active, Unclaimed, Running
<1>2. /\ input' \in [Requests -> {"none", "open", "ended", "cut"}]
      /\ \A q \in Requests : input'[q] = "none" <=> input[q] = "none"
  BY DEF IInv, TypeOK, CancelRunning, CutInput
<1>3. ReqOnce' /\ inbox' \in Seq(Frames)
  BY <1>2, OtherFrameTaken DEF CancelRunning
<1>4. TypeOK'  BY <1>2, <1>3 DEF IInv, TypeOK, CancelRunning
<1>5. Ledger'
  BY <1>1, <1>2 DEF IInv, TypeOK, Ledger, ClaimFits, TerminalsFit, CancelRunning, Unclaimed, Running
<1>6. SlotsMatchHandlers'  BY SlotsKept DEF IInv, CancelRunning, Active
<1>7. QED  BY <1>3, <1>4, <1>5, <1>6 DEF IInv

-----------------------------------------------------------------------------
(* The handler's steps.                                                    *)

\* Until it leaves, it moves from stage to stage.
LEMMA WorkStep ==
  ASSUME NEW r \in Requests, IInv,
         \/ Read(r) \/ Fail(r) \/ Call(r) \/ WriteArg(r) \/ Respond(r)
         \/ StartOutput(r) \/ Write(r)
  PROVE  IInv'
<1> USE DEF line, pools, wakes, gates
<1>1. /\ UNCHANGED <<inbox, sent, loop, queued, ticket, tickets, capacity, active>>
      /\ UNCHANGED <<changes, owed, changed, input, ends, done>>
  BY DEF Read, Fail, Call, WriteArg, Respond, StartOutput, Write
<1>2. \E from, to \in Unclaimed : At(r, from, to)
  BY DEF Read, Fail, Call, WriteArg, Respond, StartOutput, Write, AfterCall, At, Unclaimed, Running
<1>3. Ledger' /\ SlotsMatchHandlers' /\ handler' \in [Requests -> Running \cup {"none", "exited", "reaped"}]
  BY <1>1, <1>2, HandlerMoves DEF IInv
<1>4. /\ gate' \in [Requests -> {"none", "open", "granted", "closed"}]
      /\ argGate' \in [Requests -> {"none", "open", "granted"}]
      /\ peer' \in [Requests -> {"none", "pending", "answered", "cut"}]
  BY DEF IInv, TypeOK, Read, Fail, Call, WriteArg, Respond, StartOutput, Write
<1>5. TypeOK'  BY <1>1, <1>3, <1>4 DEF IInv, TypeOK, ends
<1>6. ReqOnce'  BY <1>1 DEF IInv, ReqOnce
<1>7. QED  BY <1>3, <1>5, <1>6 DEF IInv

LEMMA RegisterStep == ASSUME NEW r \in Requests, IInv, Register(r) PROVE IInv'
<1> USE DEF line, pools, wakes, ends
<1>1. TypeOK'  BY DEF IInv, TypeOK, Register
<1>2. Ledger'  BY LedgerKept DEF IInv, Register
<1>3. SlotsMatchHandlers'  BY SlotsKept DEF IInv, Register, Active
<1>4. ReqOnce'  BY DEF IInv, ReqOnce, Register
<1>5. QED  BY <1>1, <1>2, <1>3, <1>4 DEF IInv

\* The three ways to leave differ in who claims and who is told.
LEMMA LeaveStep ==
  ASSUME NEW r \in Requests, IInv, ClaimEnd(r) \/ End(r) \/ LeaveCancelled(r)
  PROVE  IInv'
<1> USE DEF line, pools, wakes, ends, gates
<1>1. UNCHANGED <<inbox, sent, active, queued, input>>
  BY DEF ClaimEnd, End, LeaveCancelled
<1>2. TypeOK'
  <2>1. CASE ClaimEnd(r)  BY <2>1 DEF IInv, TypeOK, ClaimEnd, At, Running
  <2>2. CASE End(r)  BY <2>2 DEF IInv, TypeOK, End, At, Running
  <2>3. CASE LeaveCancelled(r)  BY <2>3 DEF IInv, TypeOK, LeaveCancelled, At, Running
  <2>4. QED  BY <2>1, <2>2, <2>3
<1>3. Ledger'
  <2> USE DEF IInv, TypeOK, Ledger, ClaimFits, TerminalsFit, At, Running
  <2>1. CASE ClaimEnd(r)  BY <2>1 DEF ClaimEnd
  <2>2. CASE End(r)  BY <2>2 DEF End
  <2>3. CASE LeaveCancelled(r)  BY <2>3 DEF LeaveCancelled
  <2>4. QED  BY <2>1, <2>2, <2>3
<1>4. \A q \in Requests : Active(q)' = Active(q)
  BY DEF IInv, TypeOK, ClaimEnd, End, LeaveCancelled, At, Active
<1>5. SlotsMatchHandlers'  BY <1>1, <1>4, SlotsKept DEF IInv
<1>6. ReqOnce'  BY <1>1 DEF IInv, ReqOnce
<1>7. QED  BY <1>2, <1>3, <1>5, <1>6 DEF IInv

-----------------------------------------------------------------------------
(* The invariant, and what follows from it.                                *)

LEMMA StutterStep == ASSUME IInv, UNCHANGED vars PROVE IInv'
<1> USE DEF vars, line, pools, wakes, ends, gates
<1>1. TypeOK'  BY DEF IInv, TypeOK
<1>2. ReqOnce'  BY DEF IInv, ReqOnce
<1>3. Ledger'  BY LedgerKept DEF IInv
<1>4. SlotsMatchHandlers'  BY SlotsKept DEF IInv, Active
<1>5. QED  BY <1>1, <1>2, <1>3, <1>4 DEF IInv

LEMMA NextStep == ASSUME IInv, [Next]_vars PROVE IInv'
<1>1. CASE LoopStep
  <2>1. CASE Drained \/ PoolsChanged  BY <2>1, LimitStep
  <2>2. CASE TakeHeartbeat  BY <2>2, TakeHeartbeatStep
  <2>3. ASSUME NEW r \in Requests,
               \/ AdmitNext(r) \/ Reap(r)
               \/ TakeReq(r) \/ TakeEnd(r) \/ CancelQueued(r) \/ CancelRunning(r)
               \/ CancelIgnored(r) \/ TakeCredit(r) \/ TakePeerCredit(r) \/ TakePeerEnd(r)
        PROVE  IInv'
    BY <2>3, AdmitNextStep, ReapStep, TakeReqStep, CancelQueuedStep, CancelRunningStep,
       PlainFrameStep
  <2>4. QED  BY <1>1, <2>1, <2>2, <2>3 DEF LoopStep
<1>2. CASE PassHeartbeat  BY <1>2, PassHeartbeatStep
<1>3. CASE NotifyOne  BY <1>3, LimitStep
<1>4. ASSUME NEW r \in Requests, HandlerStep(r) \/ Fail(r) PROVE IInv'
  BY <1>4, WorkStep, RegisterStep, LeaveStep DEF HandlerStep
<1>5. ASSUME NEW r \in Requests,
             \/ SendReq(r) \/ SendEnd(r) \/ SendCancel(r)
             \/ SendCredit(r) \/ PeerGrants(r) \/ PeerEnds(r)
      PROVE  IInv'
  <2>1. \E type \in RequestFrames : HostSends(r, type)
    BY <1>5 DEF SendReq, SendEnd, SendCancel, SendCredit, PeerGrants, PeerEnds, RequestFrames
  <2>2. QED  BY <2>1, SendStep
<1>6. CASE \E p \in Pools, n \in Capacities : Probe(p, n) \/ SetAvailable(p, n)
  BY <1>6, LimitStep
<1>7. CASE UNCHANGED vars  BY <1>7, StutterStep
<1>8. QED  BY <1>1, <1>2, <1>3, <1>4, <1>5, <1>6, <1>7 DEF Next

LEMMA Invariance == Spec => []IInv
BY InitIInv, NextStep, PTL DEF Spec

\* Every variable keeps its type, the slot counts their natural numbers.
THEOREM TypeCorrect == Spec => []TypeOK
<1>1. IInv => TypeOK  BY DEF IInv
<1>2. QED  BY <1>1, Invariance, PTL

\* One terminal per request, whatever the cancel, the handler's end and its
\* report do in which order.
THEOREM UniqueTerminal == Spec => []OneTerminal
<1>1. IInv => OneTerminal  BY DEF IInv, Ledger, TerminalsFit, OneTerminal
<1>2. QED  BY <1>1, Invariance, PTL

\* A request the loop has taken waits, is handled, or was answered.
THEOREM NobodyForgotten == Spec => []Accounted
<1>1. ASSUME IInv PROVE Accounted
  <2> SUFFICES ASSUME NEW r \in Requests, input[r] # "none"
               PROVE  \/ r \in queued /\ handler[r] = "none"
                      \/ r \notin queued /\ Active(r)
                      \/ r \notin queued /\ ~Active(r) /\ terminals[r] = 1
    BY DEF Accounted
  <2>1. CASE handler[r] = "none"
    BY <1>1, <2>1 DEF IInv, Ledger, TerminalsFit, Active
  <2>2. CASE handler[r] = "reaped"
    BY <1>1, <2>2 DEF IInv, TypeOK, Ledger, ClaimFits, TerminalsFit, Active
  <2>3. CASE handler[r] \notin {"none", "reaped"}
    BY <1>1, <2>3 DEF IInv, Ledger, Active
  <2>4. QED  BY <2>1, <2>2, <2>3
<1>2. QED  BY <1>1, Invariance, PTL

\* The pools count the handlers that hold their slots, so a release never
\* finds a pool at zero, and no slot leaks.
THEOREM SlotsExact == Spec => []SlotsMatchHandlers
<1>1. IInv => SlotsMatchHandlers  BY DEF IInv
<1>2. QED  BY <1>1, Invariance, PTL

-----------------------------------------------------------------------------
(* Who starts: only the loop starts a handler, from the line or at once.   *)

LEMMA Starts ==
  ASSUME IInv, [Next]_vars, NEW r \in Requests, handler[r] = "none", handler'[r] # "none"
  PROVE  AdmitNext(r) \/ (TakeReq(r) /\ GoesAtOnce(r) /\ Spawn(r))
<1> USE DEF line, pools, wakes, ends, gates, Turn, Takes
<1>1. ASSUME handler' = handler PROVE FALSE  BY <1>1
<1>2. CASE LoopStep
  <2>1. CASE Drained \/ PoolsChanged \/ TakeHeartbeat
    BY <2>1, <1>1 DEF Drained, PoolsChanged, TakeHeartbeat
  <2>2. ASSUME NEW q \in Requests, AdmitNext(q)
        PROVE  AdmitNext(r)
    <3>1. q = r  BY <2>2 DEF AdmitNext, Spawn, IInv, TypeOK
    <3>2. QED  BY <2>2, <3>1
  <2>3. ASSUME NEW q \in Requests, Reap(q) PROVE FALSE
    <3>1. handler[q] = "exited"  BY <2>3 DEF IInv, Ledger, Reap
    <3>2. QED  BY <2>3, <3>1 DEF Reap, IInv, TypeOK
  <2>4. ASSUME NEW q \in Requests, TakeReq(q)
        PROVE  TakeReq(r) /\ GoesAtOnce(r) /\ Spawn(r)
    <3>1. GoesAtOnce(q) /\ Spawn(q)  BY <2>4, <1>1 DEF TakeReq
    <3>2. q = r  BY <3>1 DEF Spawn, IInv, TypeOK
    <3>3. QED  BY <2>4, <3>1, <3>2
  <2>5. ASSUME NEW q \in Requests,
               \/ TakeEnd(q) \/ CancelQueued(q) \/ CancelRunning(q) \/ CancelIgnored(q)
               \/ TakeCredit(q) \/ TakePeerCredit(q) \/ TakePeerEnd(q)
        PROVE  FALSE
    BY <2>5, <1>1 DEF TakeEnd, CancelQueued, CancelRunning, CancelIgnored,
       TakeCredit, TakePeerCredit, TakePeerEnd
  <2>6. QED  BY <1>2, <2>1, <2>2, <2>3, <2>4, <2>5 DEF LoopStep
<1>3. CASE PassHeartbeat \/ NotifyOne  BY <1>3, <1>1 DEF PassHeartbeat, NotifyOne
<1>4. ASSUME NEW q \in Requests, HandlerStep(q) \/ Fail(q) PROVE FALSE
  <2>1. handler' = handler \/ \E from, to : from # "none" /\ At(q, from, to)
    BY <1>4 DEF HandlerStep, Read, Fail, Register, Call, WriteArg, Respond, StartOutput, Write,
       ClaimEnd, End, LeaveCancelled, At
  <2>2. QED  BY <2>1, <1>1 DEF At, IInv, TypeOK
<1>5. ASSUME NEW q \in Requests,
             \/ SendReq(q) \/ SendEnd(q) \/ SendCancel(q)
             \/ SendCredit(q) \/ PeerGrants(q) \/ PeerEnds(q)
      PROVE  FALSE
  BY <1>5, <1>1 DEF SendReq, SendEnd, SendCancel, SendCredit, PeerGrants, PeerEnds, HostSends
<1>6. CASE \E p \in Pools, n \in Capacities : Probe(p, n) \/ SetAvailable(p, n)
  BY <1>6, <1>1 DEF Probe, SetAvailable
<1>7. CASE UNCHANGED vars  BY <1>7, <1>1 DEF vars
<1>8. QED  BY <1>2, <1>3, <1>4, <1>5, <1>6, <1>7 DEF Next

\* No younger request starts while an older one in line could, whatever the
\* limits did since the loop last looked at the line.
THEOREM InOrder == Spec => NotOvertaken
<1>1. ASSUME IInv, [Next]_vars, NEW r \in Requests, NEW q \in Requests,
             handler[r] = "none", handler'[r] # "none", q \in queued, HasRoom(q)
      PROVE  r \in queued /\ ticket[r] <= ticket[q]
  <2>1. CASE AdmitNext(r)  BY <1>1, <2>1 DEF AdmitNext, NextUp
  <2>2. CASE GoesAtOnce(r)  BY <1>1, <2>2 DEF GoesAtOnce
  <2>3. QED  BY <1>1, <2>1, <2>2, Starts
<1>2. IInv /\ [Next]_vars =>
        [\A r, q \in Requests :
           (handler[r] = "none" /\ handler'[r] # "none" /\ q \in queued /\ HasRoom(q)) =>
             r \in queued /\ ticket[r] <= ticket[q]]_vars
  BY <1>1
<1>3. QED  BY <1>2, Invariance, PTL DEF Spec, NotOvertaken

\* And none starts beyond a capacity of its chain, as it is when it starts.
THEOREM CapacityKept == Spec => WithinCapacity
<1>1. ASSUME IInv, [Next]_vars, NEW r \in Requests, handler[r] = "none", handler'[r] # "none",
             NEW p \in Chain[r]
      PROVE  capacity[p] = 0 \/ active'[p] <= capacity[p]
  <2>1. HasRoom(r) /\ Spawn(r)
    BY <1>1, Starts DEF AdmitNext, NextUp, GoesAtOnce
  <2>2. p \in Pools  BY ChainType
  <2>3. capacity[p] = 0 \/ active[p] < capacity[p]  BY <2>1 DEF HasRoom
  <2>4. active'[p] = active[p] + 1  BY <2>1, <2>2 DEF Spawn, Take
  <2>5. active[p] \in Nat /\ capacity[p] \in Nat
    BY <1>1, <2>2, CapacityType DEF IInv, TypeOK
  <2>6. QED  BY <2>3, <2>4, <2>5
<1>2. IInv /\ [Next]_vars =>
        [\A r \in Requests : (handler[r] = "none" /\ handler'[r] # "none") =>
           \A p \in Chain[r] : capacity[p] = 0 \/ active'[p] <= capacity[p]]_vars
  BY <1>1
<1>3. QED  BY <1>2, Invariance, PTL DEF Spec, WithinCapacity

-----------------------------------------------------------------------------
(* Wakeups: a sleeping loop is told of every change that makes room.       *)

Told == changed \/ owed # {} \/ \E i \in DOMAIN inbox : inbox[i] = Heartbeat

\* What was told and not heard stays told, whatever is appended behind it.
LEMMA ToldStays ==
  ASSUME TypeOK, Told, UNCHANGED <<changed, owed>>,
         inbox' = inbox \/ \E f \in Frames : inbox' = Append(inbox, f)
  PROVE  Told'
<1>1. CASE inbox' = inbox  BY <1>1 DEF Told
<1>2. ASSUME NEW f \in Frames, inbox' = Append(inbox, f) PROVE Told'
  <2>1. CASE changed \/ owed # {}  BY <2>1 DEF Told
  <2>2. ASSUME NEW i \in DOMAIN inbox, inbox[i] = Heartbeat PROVE Told'
    <3>1. inbox \in Seq(Frames)  BY DEF TypeOK
    <3>2. /\ inbox' \in Seq(Frames) /\ Len(inbox) \in Nat /\ Len(inbox') = Len(inbox) + 1
          /\ \A k \in 1..Len(inbox) : inbox'[k] = inbox[k]
      BY <3>1, <1>2, Appended
    <3>3. i \in 1..Len(inbox)  BY <2>2, <3>1
    <3>4. i \in DOMAIN inbox' /\ inbox'[i] = Heartbeat  BY <2>2, <3>2, <3>3
    <3>5. QED  BY <3>4 DEF Told
  <2>3. QED  BY <2>1, <2>2 DEF Told
<1>3. QED  BY <1>1, <1>2

LEMMA TurnStep == ASSUME IInv, NoLostTurn, [Next]_vars PROVE NoLostTurn'
<1> USE DEF line, pools, wakes, ends, gates
<1>1. ASSUME UNCHANGED <<loop, queued, capacity, active, changed, owed>>,
             inbox' = inbox \/ \E f \in Frames : inbox' = Append(inbox, f)
      PROVE  NoLostTurn'
  <2>1. \A r : HasRoom(r)' <=> HasRoom(r)  BY <1>1 DEF HasRoom
  <2>2. Told => Told'  BY <1>1, ToldStays DEF IInv
  <2>3. QED  BY <1>1, <2>1, <2>2 DEF NoLostTurn, Told
<1>2. CASE LoopStep
  <2>1. CASE Drained
    <3>1. \A r \in queued' : ~HasRoom(r)'  BY <2>1 DEF Drained, HasRoom
    <3>2. QED  BY <3>1 DEF NoLostTurn
  <2>2. CASE ~Drained
    <3>1. loop' = "draining"
      BY <1>2, <2>2 DEF LoopStep, PoolsChanged, TakeHeartbeat, AdmitNext, Reap, TakeReq, TakeEnd,
         CancelQueued, CancelRunning, CancelIgnored, TakeCredit, TakePeerCredit, TakePeerEnd,
         Takes, Turn
    <3>2. QED  BY <3>1 DEF NoLostTurn
  <2>3. QED  BY <2>1, <2>2
<1>3. CASE PassHeartbeat
  <2>1. inbox \in Seq(Frames) /\ Heartbeat \in Frames  BY DEF IInv, TypeOK, Frames
  <2>2. /\ inbox' \in Seq(Frames) /\ Len(inbox) \in Nat /\ Len(inbox') = Len(inbox) + 1
        /\ inbox'[Len(inbox) + 1] = Heartbeat
    BY <1>3, <2>1, Appended DEF PassHeartbeat
  <2>3. Len(inbox) + 1 \in DOMAIN inbox'  BY <2>2
  <2>4. QED  BY <2>2, <2>3 DEF NoLostTurn
<1>4. CASE NotifyOne  BY <1>4 DEF NotifyOne, NoLostTurn
<1>5. ASSUME NEW r \in Requests, HandlerStep(r) \/ Fail(r) PROVE NoLostTurn'
  <2>1. UNCHANGED <<loop, queued, capacity, active, changed, owed, inbox>>
    BY <1>5 DEF HandlerStep, Read, Fail, Register, Call, WriteArg, Respond, StartOutput, Write,
       ClaimEnd, End, LeaveCancelled
  <2>2. QED  BY <1>1, <2>1
<1>6. ASSUME NEW r \in Requests,
             \/ SendReq(r) \/ SendEnd(r) \/ SendCancel(r)
             \/ SendCredit(r) \/ PeerGrants(r) \/ PeerEnds(r)
      PROVE  NoLostTurn'
  <2>1. PICK type \in RequestFrames : HostSends(r, type)
    BY <1>6 DEF SendReq, SendEnd, SendCancel, SendCredit, PeerGrants, PeerEnds, RequestFrames
  <2>2. [type |-> type, req |-> r] \in Frames  BY DEF Frames
  <2>3. QED  BY <1>1, <2>1, <2>2 DEF HostSends
<1>7. CASE \E p \in Pools, n \in Capacities : Probe(p, n) \/ SetAvailable(p, n)
  BY <1>7 DEF Probe, SetAvailable, NoLostTurn
<1>8. CASE UNCHANGED vars  BY <1>1, <1>8 DEF vars
<1>9. QED  BY <1>2, <1>3, <1>4, <1>5, <1>6, <1>7, <1>8 DEF Next

\* The loop never sleeps on a request that could go without a wakeup on its
\* way: PoolHandle::set's permit, or the heartbeat the reader passes on.
THEOREM TurnsKept == Spec => []NoLostTurn
<1>1. Init => NoLostTurn  BY DEF Init, NoLostTurn
<1>2. QED  BY <1>1, TurnStep, Invariance, PTL DEF Spec
=============================================================================
