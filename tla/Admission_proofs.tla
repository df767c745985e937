-------------------------- MODULE Admission_proofs --------------------------
(***************************************************************************)
(* Theorems about Admission, for any requests, pools, chains, capacities   *)
(* and grace.                                                              *)
(***************************************************************************)
EXTENDS Admission, TLAPS, FiniteSetTheorems

\* What the safety properties together need to be inductive.
IInv == TypeOK /\ LineIsWaiters /\ SlotsMatchPermits /\ NoLostTurn

\* The requests that hold a slot of pool p.
Holders(p) == {r \in Admitted : p \in Chain[r]}

-----------------------------------------------------------------------------
(* What the steps of a request do to the set of permit holders.            *)

LEMMA HoldersFinite ==
  ASSUME NEW p
  PROVE  IsFiniteSet(Holders(p)) /\ Cardinality(Holders(p)) \in Nat
<1>1. Holders(p) \subseteq Requests  BY DEF Holders, Admitted
<1>2. IsFiniteSet(Holders(p))  BY <1>1, RequestAssumption, FS_Subset
<1>3. QED  BY <1>2, FS_CardinalityType

\* A move between places without a permit leaves the books as they are.
LEMMA SlotsKept ==
  ASSUME TypeOK, SlotsMatchPermits, NEW r \in Requests, NEW to,
         pc[r] # "admitted", to # "admitted", Goto(r, to), UNCHANGED active
  PROVE  SlotsMatchPermits'
<1>1. Admitted' = Admitted  BY DEF Goto, Admitted, TypeOK
<1>2. QED  BY <1>1 DEF SlotsMatchPermits

\* Whoever is admitted takes exactly the slots of its chain.
LEMMA SlotsTaken ==
  ASSUME TypeOK, SlotsMatchPermits, NEW r \in Requests,
         pc[r] # "admitted", Goto(r, "admitted"), Take(r)
  PROVE  SlotsMatchPermits'
<1>1. Admitted' = Admitted \cup {r} /\ r \notin Admitted
  BY DEF Goto, Admitted, TypeOK
<1>2. SUFFICES ASSUME NEW p \in Pools
               PROVE  active'[p] = Cardinality(Holders(p)')
  BY DEF SlotsMatchPermits, Holders
<1>3. active[p] = Cardinality(Holders(p))  BY DEF SlotsMatchPermits, Holders
<1>4. CASE p \in Chain[r]
  <2>1. Holders(p)' = Holders(p) \cup {r} /\ r \notin Holders(p)
    BY <1>1, <1>4 DEF Holders
  <2>2. Cardinality(Holders(p)') = Cardinality(Holders(p)) + 1
    BY <2>1, HoldersFinite, FS_AddElement
  <2>3. active'[p] = active[p] + 1  BY <1>4 DEF Take
  <2>4. QED  BY <2>2, <2>3, <1>3
<1>5. CASE p \notin Chain[r]
  <2>1. Holders(p)' = Holders(p)  BY <1>1, <1>5 DEF Holders
  <2>2. active'[p] = active[p]  BY <1>5 DEF Take
  <2>3. QED  BY <2>1, <2>2, <1>3
<1>6. QED  BY <1>4, <1>5

\* Whoever ends gives exactly them back: the guard against zero never bites.
LEMMA SlotsGiven ==
  ASSUME TypeOK, SlotsMatchPermits, NEW r \in Requests,
         pc[r] = "admitted", Goto(r, "ended"), Give(r)
  PROVE  SlotsMatchPermits'
<1>1. Admitted' = Admitted \ {r} /\ r \in Admitted
  BY DEF Goto, Admitted, TypeOK
<1>2. SUFFICES ASSUME NEW p \in Pools
               PROVE  active'[p] = Cardinality(Holders(p)')
  BY DEF SlotsMatchPermits, Holders
<1>3. active[p] = Cardinality(Holders(p))  BY DEF SlotsMatchPermits, Holders
<1>4. CASE p \in Chain[r]
  <2>1. Holders(p)' = Holders(p) \ {r} /\ r \in Holders(p)
    BY <1>1, <1>4 DEF Holders
  <2>2. Cardinality(Holders(p)') = Cardinality(Holders(p)) - 1
    BY <2>1, HoldersFinite, FS_RemoveElement
  <2>3. Cardinality(Holders(p)) # 0
    BY <2>1, HoldersFinite, FS_EmptySet
  <2>4. active[p] > 0  BY <1>3, <2>3, HoldersFinite
  <2>5. active'[p] = active[p] - 1  BY <1>4, <2>4 DEF Give
  <2>6. QED  BY <2>2, <2>5, <1>3
<1>5. CASE p \notin Chain[r]
  <2>1. Holders(p)' = Holders(p)  BY <1>1, <1>5 DEF Holders
  <2>2. active'[p] = active[p]  BY <1>5 DEF Give
  <2>3. QED  BY <2>1, <2>2, <1>3
<1>6. QED  BY <1>4, <1>5

-----------------------------------------------------------------------------
(* The initial states.                                                     *)

LEMMA InitIInv == Init => IInv
<1> SUFFICES ASSUME Init PROVE IInv  OBVIOUS
<1>1. TypeOK  BY CapacityAssumption DEF Init, TypeOK
<1>2. LineIsWaiters /\ NoLostTurn  BY DEF Init, LineIsWaiters, NoLostTurn
<1>3. SlotsMatchPermits
  <2>1. \A p \in Pools : {r \in Admitted : p \in Chain[r]} = {}  BY DEF Init, Admitted
  <2>2. QED  BY <2>1, FS_EmptySet DEF Init, SlotsMatchPermits
<1>4. QED  BY <1>1, <1>2, <1>3 DEF IInv

-----------------------------------------------------------------------------
(* One lemma for each step of a request.                                   *)

LEMMA RouteStep == ASSUME NEW r \in Requests, IInv, Route(r) PROVE IInv'
<1> USE DEF poolVars, lineVars, outageVars, masterVars
<1>1. TypeOK'  BY DEF IInv, TypeOK, Route, Goto
<1>2. LineIsWaiters'  BY DEF IInv, TypeOK, Route, Goto, LineIsWaiters
<1>3. SlotsMatchPermits'  BY SlotsKept DEF IInv, Route
<1>4. NoLostTurn'
  BY DEF IInv, TypeOK, Route, Goto, LineIsWaiters, NoLostTurn, NextUp, HasRoom
<1>5. QED  BY <1>1, <1>2, <1>3, <1>4 DEF IInv

LEMMA LookUpStep == ASSUME NEW r \in Requests, IInv, LookUp(r) PROVE IInv'
<1> USE DEF lineVars, masterVars, ConfigurePools
<1>1. TypeOK'  BY DEF IInv, TypeOK, LookUp, Goto
<1>2. LineIsWaiters'  BY DEF IInv, TypeOK, LookUp, Goto, LineIsWaiters
<1>3. SlotsMatchPermits'  BY SlotsKept DEF IInv, LookUp
<1>4. NoLostTurn'  BY DEF LookUp, NoLostTurn
<1>5. QED  BY <1>1, <1>2, <1>3, <1>4 DEF IInv

\* The newcomer has the highest ticket, so nobody else becomes next by it.
LEMMA JoinStep == ASSUME NEW r \in Requests, IInv, Join(r) PROVE IInv'
<1> USE DEF poolVars, outageVars, masterVars
<1>1. TypeOK'  BY DEF IInv, TypeOK, Join, Goto
<1>2. r \notin queued  BY DEF IInv, LineIsWaiters, Join
<1>3. LineIsWaiters'
  <2>1. queued' = {q \in Requests :
                     pc'[q] \in {"armed", "waiting", "timed", "failing", "cancelling"}}
    BY DEF IInv, TypeOK, Join, Goto, LineIsWaiters
  <2>2. \A q \in queued : ticket'[q] = ticket[q] /\ ticket[q] < nextTicket /\ q # r
    BY <1>2 DEF IInv, TypeOK, Join, LineIsWaiters
  <2>3. ticket'[r] = nextTicket /\ nextTicket' = nextTicket + 1
    BY DEF IInv, TypeOK, Join
  <2>4. queued' = queued \cup {r}  BY DEF Join
  <2>5. nextTicket \in Nat /\ \A q \in queued : ticket[q] \in Nat
    BY DEF IInv, TypeOK
  <2>6. \A q, s \in queued' : ticket'[q] = ticket'[s] => q = s
    BY <2>2, <2>3, <2>4, <2>5 DEF IInv, LineIsWaiters
  <2>7. \A q \in queued' : ticket'[q] < nextTicket'
    BY <2>2, <2>3, <2>4, <2>5
  <2>8. QED  BY <2>1, <2>6, <2>7 DEF LineIsWaiters
<1>4. SlotsMatchPermits'  BY SlotsKept DEF IInv, Join
<1>5. NoLostTurn'
  <2>1. SUFFICES ASSUME NEW q \in queued', ~unavailable', NextUp(q)',
                        pc'[q] \in {"waiting", "timed"}
                 PROVE  q \in woken' \/ notifyDue'
    BY DEF NoLostTurn
  <2>2. q # r /\ q \in queued /\ pc[q] = pc'[q]
    BY <2>1 DEF IInv, TypeOK, Join, Goto
  <2>3. \A s \in queued : s # r /\ ticket'[s] = ticket[s]
    BY <1>2 DEF IInv, TypeOK, Join
  <2>4. NextUp(q)  BY <2>1, <2>2, <2>3 DEF NextUp, HasRoom, Join
  <2>5. q \in woken \/ notifyDue  BY <2>1, <2>2, <2>4 DEF IInv, NoLostTurn, Join
  <2>6. QED  BY <2>2, <2>5 DEF Join
<1>6. QED  BY <1>1, <1>3, <1>4, <1>5 DEF IInv

LEMMA AdmitStep == ASSUME NEW r \in Requests, IInv, Admit(r) PROVE IInv'
<1> USE DEF outageVars, masterVars, TurnTaken
<1>1. TypeOK'
  <2>1. active' \in [Pools -> Nat]  BY DEF IInv, TypeOK, Admit, Take
  <2>2. QED  BY <2>1 DEF IInv, TypeOK, Admit, Goto
<1>2. LineIsWaiters'  BY DEF IInv, TypeOK, Admit, Goto, LineIsWaiters
<1>3. SlotsMatchPermits'  BY SlotsTaken DEF IInv, Admit
<1>4. NoLostTurn'  BY DEF Admit, NoLostTurn
<1>5. QED  BY <1>1, <1>2, <1>3, <1>4 DEF IInv

LEMMA WaitStep == ASSUME NEW r \in Requests, IInv, Wait(r) PROVE IInv'
<1> USE DEF poolVars, lineVars, outageVars, masterVars
<1>1. TypeOK'
  <2>1. unavailable /\ age < Grace => Patience \in Nat
    BY GraceAssumption DEF IInv, TypeOK, Patience
  <2>2. QED  BY <2>1 DEF IInv, TypeOK, Wait, Goto
<1>2. LineIsWaiters'  BY DEF IInv, TypeOK, Wait, Goto, LineIsWaiters
<1>3. SlotsMatchPermits'  BY SlotsKept DEF IInv, Wait
<1>4. NoLostTurn'
  <2>1. (NextUp(r)' <=> NextUp(r)) /\ \A q \in queued : NextUp(q)' <=> NextUp(q)
    BY DEF Wait, NextUp, HasRoom
  <2>2. QED  BY <2>1 DEF IInv, TypeOK, Wait, Goto, NoLostTurn
<1>5. QED  BY <1>1, <1>2, <1>3, <1>4 DEF IInv

LEMMA WakeStep == ASSUME NEW r \in Requests, IInv, Wake(r) PROVE IInv'
<1> USE DEF poolVars, lineVars, outageVars, masterVars
<1>1. TypeOK'  BY DEF IInv, TypeOK, Wake, Goto
<1>2. LineIsWaiters'  BY DEF IInv, TypeOK, Wake, Goto, LineIsWaiters
<1>3. SlotsMatchPermits'  BY SlotsKept DEF IInv, Wake
<1>4. NoLostTurn'
  BY DEF IInv, TypeOK, Wake, Goto, NoLostTurn, NextUp, HasRoom
<1>5. QED  BY <1>1, <1>2, <1>3, <1>4 DEF IInv

LEMMA CancelWaitStep == ASSUME NEW r \in Requests, IInv, CancelWait(r) PROVE IInv'
<1> USE DEF poolVars, lineVars, outageVars, masterVars
<1>1. TypeOK'  BY DEF IInv, TypeOK, CancelWait, Goto
<1>2. LineIsWaiters'  BY DEF IInv, TypeOK, CancelWait, Goto, LineIsWaiters
<1>3. SlotsMatchPermits'  BY SlotsKept DEF IInv, CancelWait
<1>4. NoLostTurn'
  BY DEF IInv, TypeOK, CancelWait, Goto, NoLostTurn, NextUp, HasRoom
<1>5. QED  BY <1>1, <1>2, <1>3, <1>4 DEF IInv

LEMMA LeaveStep == ASSUME NEW r \in Requests, IInv, Leave(r) PROVE IInv'
<1> USE DEF poolVars, outageVars, masterVars, TurnTaken
<1>1. TypeOK'  BY DEF IInv, TypeOK, Leave, Goto
<1>2. LineIsWaiters'  BY DEF IInv, TypeOK, Leave, Goto, LineIsWaiters
<1>3. SlotsMatchPermits'  BY SlotsKept DEF IInv, Leave
<1>4. NoLostTurn'  BY DEF Leave, NoLostTurn
<1>5. QED  BY <1>1, <1>2, <1>3, <1>4 DEF IInv

LEMMA ReleaseStep == ASSUME NEW r \in Requests, IInv, Release(r) PROVE IInv'
<1> USE DEF lineVars, outageVars, masterVars
<1>1. TypeOK'
  <2>1. active' \in [Pools -> Nat]  BY DEF IInv, TypeOK, Release, Give
  <2>2. QED  BY <2>1 DEF IInv, TypeOK, Release, Goto
<1>2. LineIsWaiters'  BY DEF IInv, TypeOK, Release, Goto, LineIsWaiters
<1>3. SlotsMatchPermits'  BY SlotsGiven DEF IInv, Release
<1>4. NoLostTurn'  BY DEF Release, NoLostTurn
<1>5. QED  BY <1>1, <1>2, <1>3, <1>4 DEF IInv

-----------------------------------------------------------------------------
(* The steps that are no request's.                                        *)

LEMMA NotifyStep == IInv /\ NotifyWaiters => IInv'
<1> SUFFICES ASSUME IInv, NotifyWaiters PROVE IInv'  OBVIOUS
<1> USE DEF poolVars, lineVars, outageVars, masterVars
<1>1. TypeOK'  BY DEF IInv, TypeOK, NotifyWaiters
<1>2. LineIsWaiters'  BY DEF IInv, NotifyWaiters, LineIsWaiters
<1>3. SlotsMatchPermits'  BY DEF IInv, NotifyWaiters, SlotsMatchPermits, Admitted
<1>4. NoLostTurn'  BY DEF IInv, TypeOK, NotifyWaiters, NoLostTurn
<1>5. QED  BY <1>1, <1>2, <1>3, <1>4 DEF IInv

LEMMA MasterStep ==
  IInv /\ (MasterDies \/ RebuildCapTable \/ Advertise \/ Tick) => IInv'
<1> SUFFICES ASSUME IInv, MasterDies \/ RebuildCapTable \/ Advertise \/ Tick
             PROVE  IInv'
  OBVIOUS
<1> USE DEF poolVars, lineVars, outageVars, taskVars, masterVars
<1>1. TypeOK'
  <2>1. CASE MasterDies
    <3>1. age \in Nat /\ outages \in Nat  BY DEF IInv, TypeOK
    <3>2. age' \in Nat /\ outages' \in Nat  BY <2>1, <3>1 DEF MasterDies
    <3>3. present' \in BOOLEAN /\ unavailable' \in BOOLEAN /\ notifyDue' \in BOOLEAN
      BY <2>1 DEF MasterDies
    <3>4. QED
      BY <2>1, <3>2, <3>3, Zenon DEF IInv, TypeOK, MasterDies
  <2>2. CASE RebuildCapTable  BY <2>2 DEF IInv, TypeOK, RebuildCapTable
  <2>3. CASE Advertise
    <3>1. capacity' \in [Pools -> Nat]
      BY <2>3, CapacityAssumption DEF Advertise, ConfigurePools
    <3>2. age' = 0 /\ unavailable' = FALSE /\ notifyDue' = TRUE /\ present' = TRUE
      BY <2>3 DEF Advertise, ConfigurePools
    <3>3. UNCHANGED <<active, queued, ticket, nextTicket, pc, timer, woken,
                      routable, outages>>
      BY <2>3 DEF Advertise
    <3>4. QED  BY <3>1, <3>2, <3>3 DEF IInv, TypeOK
  <2>4. CASE Tick
    <3>1. timer \in [Requests -> Nat] /\ age \in Nat  BY DEF IInv, TypeOK
    <3>2. timer' \in [Requests -> Nat]  BY <2>4, <3>1 DEF Tick
    <3>3. age' \in Nat  BY <2>4, <3>1 DEF Tick
    <3>4. UNCHANGED <<capacity, active, queued, ticket, nextTicket, unavailable, pc,
                      woken, notifyDue, present, routable, outages>>
      BY <2>4 DEF Tick
    <3>5. QED  BY <3>2, <3>3, <3>4 DEF IInv, TypeOK
  <2>5. QED  BY <2>1, <2>2, <2>3, <2>4
<1>2. UNCHANGED <<pc, active, lineVars, woken>>
  BY DEF MasterDies, RebuildCapTable, Advertise, Tick
<1>3. LineIsWaiters'  BY <1>2 DEF IInv, LineIsWaiters
<1>4. SlotsMatchPermits'  BY <1>2 DEF IInv, SlotsMatchPermits, Admitted
<1>5. NoLostTurn'
  <2>1. CASE MasterDies \/ Advertise
    BY <2>1 DEF MasterDies, Advertise, ConfigurePools, NoLostTurn
  <2>2. CASE RebuildCapTable \/ Tick
    BY <2>2, <1>2 DEF IInv, RebuildCapTable, Tick, NoLostTurn, NextUp, HasRoom
  <2>3. QED  BY <2>1, <2>2
<1>6. QED  BY <1>1, <1>3, <1>4, <1>5 DEF IInv

-----------------------------------------------------------------------------

LEMMA NextIInv == IInv /\ [Next]_vars => IInv'
<1> SUFFICES ASSUME IInv, [Next]_vars PROVE IInv'  OBVIOUS
<1>1. CASE UNCHANGED vars
  BY <1>1 DEF IInv, vars, poolVars, lineVars, outageVars, taskVars, masterVars, TypeOK,
              LineIsWaiters, SlotsMatchPermits, Admitted, NoLostTurn, NextUp, HasRoom
<1>2. ASSUME NEW r \in Requests, RequestStep(r) \/ Route(r) \/ CancelWait(r)
      PROVE  IInv'
  BY <1>2, RouteStep, LookUpStep, JoinStep, AdmitStep, WaitStep, WakeStep,
     CancelWaitStep, LeaveStep, ReleaseStep DEF RequestStep
<1>3. CASE NotifyWaiters  BY <1>3, NotifyStep
<1>4. CASE MasterDies \/ RebuildCapTable \/ Advertise \/ Tick  BY <1>4, MasterStep
<1>5. QED  BY <1>1, <1>2, <1>3, <1>4 DEF Next

\* The strengthened invariant is one.
THEOREM Invariance == Spec => []IInv
  BY InitIInv, NextIInv, PTL DEF Spec

\* Types: no active count ever falls below zero.
THEOREM TypeCorrect == Spec => []TypeOK
<1>1. IInv => TypeOK  BY DEF IInv
<1>2. QED  BY <1>1, Invariance, PTL

\* The books of every pool balance, however requests are admitted, cancelled,
\* timed out and released.
THEOREM BooksBalance == Spec => []SlotsMatchPermits
<1>1. IInv => SlotsMatchPermits  BY DEF IInv
<1>2. QED  BY <1>1, Invariance, PTL

\* The line holds exactly the waiters, each under a ticket of its own.
THEOREM LineExact == Spec => []LineIsWaiters
<1>1. IInv => LineIsWaiters  BY DEF IInv
<1>2. QED  BY <1>1, Invariance, PTL

\* Nobody sleeps through its turn.
THEOREM TurnsKept == Spec => []NoLostTurn
<1>1. IInv => NoLostTurn  BY DEF IInv
<1>2. QED  BY <1>1, Invariance, PTL

-----------------------------------------------------------------------------
(* What a step may never do.                                               *)

\* Only Admit makes a pool's count grow.
LEMMA GrowthIsAdmission ==
  ASSUME TypeOK, Next, NEW p \in Pools, active'[p] > active[p]
  PROVE  \E r \in Requests : Admit(r)
<1> USE DEF poolVars
<1>1. active[p] \in Nat  BY DEF TypeOK
<1>2. active' # active  BY <1>1
<1>3. ASSUME NEW r \in Requests, Release(r)  PROVE FALSE
  BY <1>1, <1>3 DEF Release, Give
<1>4. \E r \in Requests : Admit(r) \/ Release(r)
  BY <1>2 DEF Next, RequestStep, Route, LookUp, ConfigurePools, Join, Wait, Wake, CancelWait,
              Leave, NotifyWaiters, MasterDies, RebuildCapTable, Advertise, Tick
<1>5. QED  BY <1>3, <1>4

\* A slot is given only within the capacity of every pool of the chain.
THEOREM CapacityKept == Spec => WithinCapacity
<1>1. ASSUME TypeOK, [Next]_vars, NEW p \in Pools, active'[p] > active[p]
      PROVE  capacity[p] = 0 \/ active'[p] <= capacity[p]
  <2>1. active[p] \in Nat /\ capacity[p] \in Nat  BY <1>1 DEF TypeOK
  <2>2. active' # active  BY <1>1, <2>1
  <2>3. Next  BY <1>1, <2>2 DEF vars, poolVars
  <2>4. PICK r \in Requests : Admit(r)  BY <1>1, <2>3, GrowthIsAdmission
  <2>5. p \in Chain[r] /\ active'[p] = active[p] + 1
    BY <1>1, <2>1, <2>4 DEF Admit, Take
  <2>6. capacity[p] = 0 \/ active[p] < capacity[p]
    BY <2>4, <2>5 DEF Admit, NextUp, HasRoom
  <2>7. QED  BY <2>1, <2>5, <2>6
<1>2. TypeOK /\ [Next]_vars =>
        [\A p \in Pools : active'[p] > active[p] =>
           capacity[p] = 0 \/ active'[p] <= capacity[p]]_vars
  BY <1>1
<1>3. QED  BY <1>2, TypeCorrect, PTL DEF Spec, WithinCapacity

\* Nobody is overtaken by a later request that needs all it needs.
THEOREM InOrder == Spec => NotOvertaken
<1>1. ASSUME TypeOK, [Next]_vars, NEW r \in Admitted' \ Admitted,
             NEW q \in queued, Chain[q] \subseteq Chain[r]
      PROVE  ticket[r] <= ticket[q]
  <2>1. r \in Requests /\ pc[r] # "admitted" /\ pc'[r] = "admitted"
    BY DEF Admitted
  <2>2. Next  BY <1>1, <2>1 DEF vars, taskVars
  <2>3. ASSUME NEW s \in Requests, RequestStep(s) \/ Route(s) \/ CancelWait(s)
        PROVE  Admit(s) /\ s = r
    BY <1>1, <2>1, <2>3 DEF TypeOK, RequestStep, Route, LookUp, Join, Admit, Wait, Wake, CancelWait,
                     Leave, Release, Goto
  <2>4. Admit(r)
    BY <2>1, <2>2, <2>3 DEF Next, NotifyWaiters, MasterDies, RebuildCapTable,
                            Advertise, Tick, taskVars
  <2>5. NextUp(r)  BY <2>4 DEF Admit
  <2>6. HasRoom(q)  BY <1>1, <2>5 DEF NextUp, HasRoom
  <2>7. QED  BY <2>5, <2>6 DEF NextUp
<1>2. TypeOK /\ [Next]_vars =>
        [\A r \in Admitted' \ Admitted : \A q \in queued :
           Chain[q] \subseteq Chain[r] => ticket[r] <= ticket[q]]_vars
  BY <1>1
<1>3. QED  BY <1>2, TypeCorrect, PTL DEF Spec, NotOvertaken

-----------------------------------------------------------------------------
(* The grace of an outage.                                                 *)

\* The clock of an outage stops at the grace, where the model stops counting.
AgeBounded == age <= Grace

LEMMA GraceStep ==
  TypeOK /\ AgeBounded /\ WaitWithinGrace /\ [Next]_vars => AgeBounded' /\ WaitWithinGrace'
<1> SUFFICES ASSUME TypeOK, AgeBounded, WaitWithinGrace, [Next]_vars
             PROVE  AgeBounded' /\ WaitWithinGrace'
  OBVIOUS
<1> USE DEF poolVars, lineVars, outageVars, taskVars, masterVars
<1>1. /\ Grace \in Nat /\ age \in Nat
      /\ timer \in [Requests -> Nat]
      /\ woken \subseteq Requests
      /\ DOMAIN pc = Requests
  BY GraceAssumption DEF TypeOK
<1>2. CASE UNCHANGED vars  BY <1>2 DEF vars, AgeBounded, WaitWithinGrace
<1>3. ASSUME NEW r \in Requests, RequestStep(r) \/ Route(r) \/ CancelWait(r)
      PROVE  AgeBounded' /\ WaitWithinGrace'
  <2>1. CASE Route(r) \/ Join(r) \/ CancelWait(r)
    BY <1>1, <2>1 DEF Route, Join, CancelWait, Goto, AgeBounded, WaitWithinGrace
  <2>2. CASE LookUp(r) \/ Admit(r) \/ Leave(r) \/ Release(r)
    BY <1>1, <2>2 DEF LookUp, Admit, Leave, Release, ConfigurePools, TurnTaken,
                      AgeBounded, WaitWithinGrace
  <2>3. CASE Wait(r)
    BY <1>1, <2>3 DEF Wait, Goto, Patience, AgeBounded, WaitWithinGrace
  <2>4. CASE Wake(r)
    BY <1>1, <2>4 DEF Wake, Goto, AgeBounded, WaitWithinGrace
  <2>5. QED  BY <1>3, <2>1, <2>2, <2>3, <2>4 DEF RequestStep
<1>4. CASE NotifyWaiters
  BY <1>1, <1>4 DEF NotifyWaiters, AgeBounded, WaitWithinGrace
<1>5. CASE MasterDies \/ Advertise
  BY <1>1, <1>5 DEF MasterDies, Advertise, ConfigurePools, AgeBounded, WaitWithinGrace
<1>6. CASE RebuildCapTable
  BY <1>6 DEF RebuildCapTable, AgeBounded, WaitWithinGrace
<1>7. CASE Tick
  BY <1>1, <1>7 DEF Tick, AgeBounded, WaitWithinGrace
<1>8. QED  BY <1>2, <1>3, <1>4, <1>5, <1>6, <1>7 DEF Next

\* A bounded wait never outlasts what is left of the grace of its outage.
THEOREM GraceIsTheOutages == Spec => []WaitWithinGrace
<1>1. Init => AgeBounded /\ WaitWithinGrace
  BY GraceAssumption DEF Init, AgeBounded, WaitWithinGrace
<1>2. QED  BY <1>1, GraceStep, TypeCorrect, PTL DEF Spec
=============================================================================
