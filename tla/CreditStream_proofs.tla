------------------------ MODULE CreditStream_proofs ------------------------
(***************************************************************************)
(* Theorems about CreditStream, for any senders, windows and item sizes.   *)
(***************************************************************************)
EXTENDS CreditStream, TLAPS, FiniteSetTheorems

\* A sender asking, waiting or holding a credit has a frame to send.
FrameToSend == \A s \in Senders : pc[s] \in {"armed", "refused", "parked", "holding"} => left[s] > 0

\* Nothing is under way before the stream is started.
QuietBeforeStart ==
  ~started => /\ wire = 0 /\ credits = 0 /\ queue = 0 /\ pending = 0
              /\ \A s \in Senders : pc[s] = "idle"

\* An open stream of a request nobody cancelled has its gate in the router.
GateReachable == (started /\ closed = "open" /\ ~cancelled) => registered

\* Only a cancel takes the consumer away.
ConsumerStays == consumer = "gone" => cancelled

\* What the safety properties together need to be inductive.
IInv == /\ TypeOK
        /\ FrameToSend
        /\ QuietBeforeStart
        /\ GateReachable
        /\ ConsumerStays
        /\ NoLostWakeup
        /\ WindowCovers
        /\ Conservation

-----------------------------------------------------------------------------
(* How an action changes the number of senders that hold a paid credit.    *)

LEMMA SendersFinite == IsFiniteSet(Senders)
  BY SenderAssumption, FS_Union DEF Senders

LEMMA HoldingFinite == IsFiniteSet(Holding) /\ Cardinality(Holding) \in Nat
<1>1. Holding \subseteq Senders  BY DEF Holding
<1>2. IsFiniteSet(Holding)  BY <1>1, SendersFinite, FS_Subset
<1>3. QED  BY <1>2, FS_CardinalityType

\* A sender that begins to hold a credit adds one.
LEMMA HoldingGrows ==
  ASSUME TypeOK, NEW s \in Senders, pc[s] # "holding",
         pc' = [pc EXCEPT ![s] = "holding"]
  PROVE  Cardinality(Holding') = Cardinality(Holding) + 1
<1>1. Holding' = Holding \cup {s}  BY DEF Holding, TypeOK
<1>2. s \notin Holding  BY DEF Holding
<1>3. QED  BY <1>1, <1>2, HoldingFinite, FS_AddElement

\* A sender that stops holding one takes it away.
LEMMA HoldingShrinks ==
  ASSUME TypeOK, NEW s \in Senders, pc[s] = "holding",
         pc' = [pc EXCEPT ![s] = "idle"]
  PROVE  Cardinality(Holding') = Cardinality(Holding) - 1
<1>1. Holding' = Holding \ {s}  BY DEF Holding, TypeOK
<1>2. s \in Holding  BY DEF Holding
<1>3. QED  BY <1>1, <1>2, HoldingFinite, FS_RemoveElement

\* Moves between the states in which none is held change nothing.
LEMMA HoldingKept ==
  ASSUME TypeOK, NEW s \in Senders, NEW to, pc[s] # "holding", to # "holding",
         pc' = [pc EXCEPT ![s] = to]
  PROVE  Holding' = Holding
  BY DEF Holding, TypeOK

-----------------------------------------------------------------------------

LEMMA BatchPositive == Batch \in Nat
<1>1. RecvWindow \in Nat  BY WindowAssumption
<1>2. RecvWindow \div 2 \in Nat  BY <1>1
<1>3. QED  BY <1>2 DEF Batch

LEMMA InitIInv == Init => IInv
<1> SUFFICES ASSUME Init PROVE IInv  OBVIOUS
<1>1. TypeOK
  <2>1. Items * ItemFrames \in Nat
    <3>1. ItemFrames \in Nat /\ Items \in Nat  BY ItemAssumption
    <3>2. QED  BY <3>1
  <2>2. SendWindow \in Nat /\ RecvWindow \in Nat  BY WindowAssumption
  <2>3. QED  BY <2>1, <2>2 DEF Init, TypeOK
<1>2. FrameToSend /\ QuietBeforeStart /\ GateReachable /\ ConsumerStays /\ NoLostWakeup
  BY DEF Init, FrameToSend, QuietBeforeStart, GateReachable, ConsumerStays,
         NoLostWakeup, Senders
<1>3. Cardinality(Holding) = 0
  <2>1. Holding = {}  BY DEF Init, Holding
  <2>2. QED  BY <2>1, FS_EmptySet
<1>4. WindowCovers /\ Conservation
  BY <1>3, WindowAssumption DEF Init, WindowCovers, Conservation
<1>5. QED  BY <1>1, <1>2, <1>4 DEF IInv

-----------------------------------------------------------------------------
(* One lemma for each group of actions.                                    *)

LEMMA StartStep == IInv /\ Start => IInv'
<1> SUFFICES ASSUME IInv, Start PROVE IInv'  OBVIOUS
<1>1. Holding' = Holding  BY DEF Start, Holding
<1>2. TypeOK'  BY DEF IInv, TypeOK, Start, windowVars, recvVars
<1>3. FrameToSend' /\ QuietBeforeStart' /\ GateReachable' /\ ConsumerStays' /\ NoLostWakeup'
  BY DEF IInv, Start, windowVars, recvVars, FrameToSend, QuietBeforeStart,
         GateReachable, ConsumerStays, NoLostWakeup
<1>4. WindowCovers' /\ Conservation'
  BY <1>1 DEF IInv, Start, windowVars, recvVars, WindowCovers, Conservation
<1>5. QED  BY <1>2, <1>3, <1>4 DEF IInv

LEMMA ArmStep == ASSUME NEW s \in Tasks, IInv, Arm(s) \/ Await(s) \/ Wake(s) PROVE IInv'
<1> USE DEF gateVars, windowVars, recvVars
<1>1. s \in Senders  BY DEF Senders
<1>2. Holding' = Holding
  BY <1>1, HoldingKept DEF IInv, Arm, Await, Wake
<1>3. TypeOK'  BY <1>1 DEF IInv, TypeOK, Arm, Await, Wake
<1>4. FrameToSend' /\ QuietBeforeStart' /\ GateReachable' /\ ConsumerStays' /\ NoLostWakeup'
  BY <1>1 DEF IInv, TypeOK, Arm, Await, Wake, FrameToSend, QuietBeforeStart,
         GateReachable, ConsumerStays, NoLostWakeup, Senders
<1>5. WindowCovers' /\ Conservation'
  BY <1>2 DEF IInv, Arm, Await, Wake, WindowCovers, Conservation
<1>6. QED  BY <1>3, <1>4, <1>5 DEF IInv

\* try_acquire, from wherever it is called.
LEMMA TryAcquireStep ==
  ASSUME NEW s \in Senders, NEW wait \in {"idle", "refused"}, IInv, started,
         pc[s] \in {"idle", "armed"}, left[s] > 0, TryAcquire(s, wait)
  PROVE  IInv'
<1> USE DEF windowVars, recvVars
<1>1. TypeOK'  BY DEF IInv, TypeOK, TryAcquire, Exhausted
<1>2. FrameToSend' /\ QuietBeforeStart' /\ GateReachable' /\ ConsumerStays'
  BY DEF IInv, TypeOK, TryAcquire, Exhausted, FrameToSend, QuietBeforeStart,
         GateReachable, ConsumerStays
<1>3. NoLostWakeup'
  BY DEF IInv, TypeOK, TryAcquire, Exhausted, NoLostWakeup, Senders
<1>4. CASE closed = "open" /\ ~Exhausted
  <2>1. Cardinality(Holding') = Cardinality(Holding) + 1
    BY <1>4, HoldingGrows DEF IInv, TryAcquire
  <2>2. WindowCovers' /\ Conservation'
    BY <1>4, <2>1, HoldingFinite, WindowAssumption
    DEF IInv, TypeOK, TryAcquire, WindowCovers, Conservation
  <2>3. QED  BY <1>1, <1>2, <1>3, <2>2 DEF IInv
<1>5. CASE closed # "open" \/ Exhausted
  <2>1. Holding' = Holding
    BY <1>5, HoldingKept DEF IInv, TryAcquire
  <2>2. WindowCovers' /\ Conservation'
    BY <1>5, <2>1 DEF IInv, TryAcquire, WindowCovers, Conservation
  <2>3. QED  BY <1>1, <1>2, <1>3, <2>2 DEF IInv
<1>6. QED  BY <1>4, <1>5

LEMMA SendStep == ASSUME NEW s \in Senders, IInv, Send(s) PROVE IInv'
<1> USE DEF gateVars, windowVars, recvVars
<1>1. TypeOK'  BY DEF IInv, TypeOK, FrameToSend, Send
<1>2. FrameToSend' /\ QuietBeforeStart' /\ GateReachable' /\ ConsumerStays' /\ NoLostWakeup'
  BY DEF IInv, TypeOK, Send, FrameToSend, QuietBeforeStart,
         GateReachable, ConsumerStays, NoLostWakeup, Senders
<1>3. Cardinality(Holding') = Cardinality(Holding) - 1
  BY HoldingShrinks DEF IInv, Send
<1>4. WindowCovers' /\ Conservation'
  BY <1>3, HoldingFinite, WindowAssumption
  DEF IInv, TypeOK, Send, WindowCovers, Conservation
<1>5. QED  BY <1>1, <1>2, <1>4 DEF IInv

-----------------------------------------------------------------------------

LEMMA GrantStep == IInv /\ Grant => IInv'
<1> SUFFICES ASSUME IInv, Grant PROVE IInv'  OBVIOUS
<1> USE DEF sendVars, windowVars, recvVars
<1>1. PICK n \in 1..credits :
        /\ credits' = credits - n
        /\ IF registered THEN available' = Granted(n) /\ notifyDue' = TRUE
                         ELSE UNCHANGED <<available, notifyDue>>
  BY DEF Grant
<1>2. n \in Nat /\ n <= credits /\ credits \in Nat  BY <1>1 DEF IInv, TypeOK
<1>3. TypeOK'
  <2>1. available' \in Nat /\ credits' \in Nat  BY <1>1, <1>2 DEF IInv, TypeOK, Granted
  <2>2. notifyDue' \in BOOLEAN  BY <1>1 DEF IInv, TypeOK
  <2>3. QED  BY <2>1, <2>2 DEF IInv, TypeOK, Grant
<1>4. started  BY <1>1, <1>2 DEF IInv, QuietBeforeStart
<1>5. FrameToSend' /\ QuietBeforeStart' /\ GateReachable' /\ ConsumerStays'
  BY <1>4 DEF IInv, Grant, FrameToSend, QuietBeforeStart, GateReachable, ConsumerStays
<1>6. NoLostWakeup'  BY <1>1 DEF IInv, Grant, NoLostWakeup
<1>7. Holding' = Holding  BY DEF Grant, Holding
<1>8. WindowCovers' /\ Conservation'
  BY <1>1, <1>2, <1>4, <1>7, HoldingFinite, WindowAssumption
  DEF IInv, TypeOK, Grant, Granted, GateReachable, WindowCovers, Conservation
<1>9. QED  BY <1>3, <1>5, <1>6, <1>8 DEF IInv

LEMMA CloseStep == IInv /\ (HandlerDone \/ Cancel) => IInv'
<1> SUFFICES ASSUME IInv, HandlerDone \/ Cancel PROVE IInv'  OBVIOUS
<1> USE DEF HandlerDone, Cancel, CloseRequest, windowVars, recvVars
<1>1. TypeOK'  BY DEF IInv, TypeOK
<1>2. FrameToSend' /\ QuietBeforeStart' /\ ConsumerStays'
  BY DEF IInv, FrameToSend, QuietBeforeStart, ConsumerStays
<1>3. GateReachable'  BY DEF IInv, GateReachable
<1>4. NoLostWakeup'  BY DEF IInv, NoLostWakeup
<1>5. Holding' = Holding  BY DEF Holding
<1>6. WindowCovers'  BY <1>5 DEF IInv, WindowCovers
<1>7. Conservation'
  BY <1>5 DEF IInv, Conservation
<1>8. QED  BY <1>1, <1>2, <1>3, <1>4, <1>6, <1>7 DEF IInv

LEMMA NotifyStep == IInv /\ NotifyWaiters => IInv'
<1> SUFFICES ASSUME IInv, NotifyWaiters PROVE IInv'  OBVIOUS
<1> USE DEF NotifyWaiters, windowVars, recvVars
<1>1. TypeOK'  BY DEF IInv, TypeOK, Waiters
<1>2. FrameToSend' /\ QuietBeforeStart' /\ GateReachable' /\ ConsumerStays'
  BY DEF IInv, FrameToSend, QuietBeforeStart, GateReachable, ConsumerStays
<1>3. NoLostWakeup'  BY DEF NoLostWakeup, Waiters
<1>4. Holding' = Holding  BY DEF Holding
<1>5. WindowCovers' /\ Conservation'
  BY <1>4 DEF IInv, WindowCovers, Conservation
<1>6. QED  BY <1>1, <1>2, <1>3, <1>5 DEF IInv

-----------------------------------------------------------------------------

LEMMA ArriveStep == IInv /\ Arrive => IInv'
<1> SUFFICES ASSUME IInv, Arrive PROVE IInv'  OBVIOUS
<1> USE DEF Arrive, Continued, gateVars, sendVars
<1>0. started  BY DEF IInv, TypeOK, QuietBeforeStart
<1>1. TypeOK'
  <2>1. /\ wire' \in Nat /\ credits' \in Nat /\ remaining' \in Nat
        /\ buf' \in Nat /\ queue' \in Nat
    BY DEF IInv, TypeOK
  <2>2. violated' \in BOOLEAN  BY DEF IInv, TypeOK
  <2>3. QED  BY <2>1, <2>2 DEF IInv, TypeOK
<1>2. FrameToSend' /\ QuietBeforeStart' /\ GateReachable' /\ ConsumerStays' /\ NoLostWakeup'
  BY <1>0 DEF IInv, FrameToSend, QuietBeforeStart, GateReachable, ConsumerStays, NoLostWakeup
<1>3. Holding' = Holding  BY DEF Holding
<1>4. WindowCovers'
  BY <1>3, HoldingFinite, WindowAssumption DEF IInv, TypeOK, WindowCovers
<1>5. Conservation'
  BY <1>3, HoldingFinite, WindowAssumption
  DEF IInv, TypeOK, ConsumerStays, Conservation
<1>6. QED  BY <1>1, <1>2, <1>4, <1>5 DEF IInv

LEMMA TakeStep == IInv /\ TakeItem => IInv'
<1> SUFFICES ASSUME IInv, TakeItem PROVE IInv'  OBVIOUS
<1> USE DEF TakeItem, Consume, gateVars, sendVars, windowVars
<1>0. started  BY DEF IInv, TypeOK, QuietBeforeStart
<1>1. TypeOK'  BY BatchPositive DEF IInv, TypeOK
<1>2. FrameToSend' /\ QuietBeforeStart' /\ GateReachable' /\ ConsumerStays' /\ NoLostWakeup'
  BY <1>0 DEF IInv, FrameToSend, QuietBeforeStart, GateReachable, ConsumerStays, NoLostWakeup
<1>3. Holding' = Holding  BY DEF Holding
<1>4. WindowCovers'
  BY <1>3, HoldingFinite, WindowAssumption, BatchPositive DEF IInv, TypeOK, WindowCovers
<1>5. Conservation'
  BY <1>3, HoldingFinite, WindowAssumption, BatchPositive DEF IInv, TypeOK, Conservation
<1>6. QED  BY <1>1, <1>2, <1>4, <1>5 DEF IInv

LEMMA BlockStep == IInv /\ Block => IInv'
<1> SUFFICES ASSUME IInv, Block PROVE IInv'  OBVIOUS
<1> USE DEF Block, Flush, gateVars, sendVars, windowVars
<1>1. TypeOK'  BY DEF IInv, TypeOK
<1>2. FrameToSend' /\ QuietBeforeStart' /\ GateReachable' /\ ConsumerStays' /\ NoLostWakeup'
  BY DEF IInv, TypeOK, FrameToSend, QuietBeforeStart, GateReachable, ConsumerStays, NoLostWakeup
<1>3. Holding' = Holding  BY DEF Holding
<1>4. WindowCovers'
  BY <1>3, HoldingFinite, WindowAssumption DEF IInv, TypeOK, WindowCovers
<1>5. Conservation'
  BY <1>3, HoldingFinite, WindowAssumption DEF IInv, TypeOK, Conservation
<1>6. QED  BY <1>1, <1>2, <1>4, <1>5 DEF IInv

-----------------------------------------------------------------------------

LEMMA StutterStep == IInv /\ UNCHANGED vars => IInv'
<1> SUFFICES ASSUME IInv, UNCHANGED vars PROVE IInv'  OBVIOUS
<1> USE DEF vars, gateVars, sendVars, windowVars, recvVars
<1>1. Holding' = Holding  BY DEF Holding
<1>2. TypeOK'  BY DEF IInv, TypeOK
<1>3. FrameToSend' /\ QuietBeforeStart' /\ GateReachable' /\ ConsumerStays' /\ NoLostWakeup'
  BY DEF IInv, FrameToSend, QuietBeforeStart, GateReachable, ConsumerStays, NoLostWakeup
<1>4. WindowCovers' /\ Conservation'
  BY <1>1 DEF IInv, WindowCovers, Conservation
<1>5. QED  BY <1>2, <1>3, <1>4 DEF IInv

LEMMA NextIInv == IInv /\ [Next]_vars => IInv'
<1> SUFFICES ASSUME IInv, [Next]_vars PROVE IInv'  OBVIOUS
<1>1. CASE Start  BY <1>1, StartStep
<1>2. ASSUME NEW s \in Tasks, TaskStep(s) PROVE IInv'
  <2>1. s \in Senders  BY DEF Senders
  <2>2. CASE Arm(s) \/ Await(s) \/ Wake(s)  BY <2>2, ArmStep
  <2>3. CASE Acquire(s)
    <3>1. pc[s] = "armed" /\ TryAcquire(s, "refused")  BY <2>3 DEF Acquire
    <3>2. left[s] > 0  BY <2>1, <3>1 DEF IInv, FrameToSend
    <3>3. started  BY <2>1, <3>1 DEF IInv, QuietBeforeStart
    <3>4. QED  BY <2>1, <3>1, <3>2, <3>3, TryAcquireStep
  <2>4. CASE Send(s)  BY <2>1, <2>4, SendStep
  <2>5. QED  BY <1>2, <2>2, <2>3, <2>4 DEF TaskStep
<1>3. ASSUME NEW s \in Threads, ThreadStep(s) PROVE IInv'
  <2>1. s \in Senders  BY DEF Senders
  <2>2. CASE BlockingAcquire(s)
    <3>1. started /\ left[s] > 0 /\ pc[s] = "idle" /\ TryAcquire(s, "idle")
      BY <2>2 DEF BlockingAcquire
    <3>2. QED  BY <2>1, <3>1, TryAcquireStep
  <2>3. CASE Send(s)  BY <2>1, <2>3, SendStep
  <2>4. QED  BY <1>3, <2>2, <2>3 DEF ThreadStep
<1>4. CASE MainLoop  BY <1>4, GrantStep, CloseStep, NotifyStep DEF MainLoop
<1>5. CASE Cancel  BY <1>5, CloseStep
<1>6. CASE Arrive \/ TakeItem \/ Block  BY <1>6, ArriveStep, TakeStep, BlockStep
<1>7. CASE Terminated \/ UNCHANGED vars  BY <1>7, StutterStep DEF Terminated
<1>8. QED  BY <1>1, <1>2, <1>3, <1>4, <1>5, <1>6, <1>7 DEF Next

-----------------------------------------------------------------------------
(* The theorems.                                                           *)

\* The inductive invariant holds of every behaviour.
THEOREM Invariance == Spec => []IInv
<1>1. QED  BY InitIInv, NextIInv, PTL DEF Spec

\* Every count of the stream stays a natural number: no credit is paid from an
\* empty gate, no chunk taken from an empty wire.
THEOREM TypeCorrect == Spec => []TypeOK
<1>1. IInv => TypeOK  BY DEF IInv
<1>2. QED  BY <1>1, Invariance, PTL

\* An open stream neither loses nor gains credit, whoever sends and however
\* grants are batched and framed.
THEOREM CreditConserved == Spec => []Conservation
<1>1. IInv => Conservation  BY DEF IInv
<1>2. QED  BY <1>1, Invariance, PTL

\* What the receiver promised room for always covers what may arrive.
THEOREM PromiseCovers == Spec => []WindowCovers
<1>1. IInv => WindowCovers  BY DEF IInv
<1>2. QED  BY <1>1, Invariance, PTL

\* A task never waits on credit that is there, nor on a gate that is closed.
THEOREM WakeupsKept == Spec => []NoLostWakeup
<1>1. IInv => NoLostWakeup  BY DEF IInv
<1>2. QED  BY <1>1, Invariance, PTL

\* With a sender's window no larger than its receiver's, no chunk is ever a
\* violation.
THEOREM WithinWindow ==
  ASSUME SendWindow <= RecvWindow
  PROVE  Spec => []NoViolation
<1>1. Init => NoViolation  BY DEF Init, NoViolation
<1>2. IInv /\ NoViolation /\ [Next]_vars => NoViolation'
  <2> SUFFICES ASSUME IInv, NoViolation, [Next]_vars PROVE NoViolation'
    OBVIOUS
  <2>1. CASE Arrive
    <3>1. wire > 0 /\ wire <= remaining
      BY <2>1, HoldingFinite, WindowAssumption DEF Arrive, IInv, TypeOK, WindowCovers
    <3>2. QED  BY <2>1, <3>1 DEF Arrive, NoViolation, IInv, TypeOK
  <2>2. CASE ~Arrive
    <3>1. UNCHANGED violated
      BY <2>2 DEF Next, Start, TaskStep, ThreadStep, Arm, Acquire, Await, Wake, Send,
        BlockingAcquire, TryAcquire, MainLoop, Grant, HandlerDone, NotifyWaiters,
        Cancel, TakeItem, Block, Terminated, vars, recvVars
    <3>2. QED  BY <3>1 DEF NoViolation
  <2>3. QED  BY <2>1, <2>2
<1>3. QED  BY <1>1, <1>2, Invariance, PTL DEF Spec

-----------------------------------------------------------------------------
(* The stream is a windowed pipe.                                          *)

\* Credit that may still put an item on the wire, has put one there, or will
\* once its item is taken; d frames were dropped, and their credit with them.
Spent(d) ==
  available + Cardinality(Holding) + wire + (IF buf > 0 THEN 1 ELSE 0) + queue + pending + credits
    + (IF ConsumerCall = "recv" THEN 0 ELSE taken) + d

\* Frame by frame, when p frames of the item being sent are still to come: the
\* items begun are on the wire, dropped, being reassembled, queued or taken.
\* No clause speaks of the gate being open, so a close changes nothing.
Course(d, p) ==
  /\ ItemFrames # 1 => \A s \in Senders : left[s] + begun * ItemFrames = Items * ItemFrames + p
  /\ begun * ItemFrames = p + wire + d + (taken + queue) * ItemFrames + buf
  /\ buf < ItemFrames
  /\ Spent(d) <= SendWindow

Flow == \E d \in Nat, p \in 0..(ItemFrames - 1) : Course(d, p)

\* Small facts of arithmetic, each a step the provers take alone.
LEMMA Multiples ==
  ASSUME NEW k \in Nat \ {0}, NEW a \in Nat, NEW b \in Nat
  PROVE  /\ a * k \in Nat /\ (a + 1) * k = a * k + k
         /\ a * k <= b * k => a <= b
         /\ a < b => a * k + k <= b * k
<1>1. a * k \in Nat /\ b * k \in Nat /\ (a + 1) * k = a * k + k
  OBVIOUS
<1>2. ASSUME a < b PROVE a * k + k <= b * k
  <2>1. (b - a - 1) \in Nat
    BY <1>2
  <2>2. (b - a - 1) * k \in Nat
    BY <2>1
  <2>3. (b - a - 1) * k = b * k - a * k - k
    OBVIOUS
  <2>4. QED  BY <1>1, <2>2, <2>3
<1>3. ASSUME a * k <= b * k PROVE a <= b
  <2>1. SUFFICES ASSUME b < a PROVE FALSE
    OBVIOUS
  <2>2. (a - b - 1) \in Nat
    BY <2>1
  <2>3. (a - b - 1) * k \in Nat
    BY <2>2
  <2>4. (a - b - 1) * k = a * k - b * k - k
    OBVIOUS
  <2>5. QED  BY <1>1, <1>3, <2>3, <2>4
<1>4. QED  BY <1>1, <1>2, <1>3

\* The remainder tells how much of an item is still to come.
LEMMA Remainder ==
  ASSUME NEW k \in Nat \ {0}, NEW m \in Nat, NEW a \in Nat, NEW b \in Nat, NEW p \in 0..(k - 1),
         m + b * k = a * k + p
  PROVE  m % k = 0 <=> p = 0
<1>1. PICK q \in Nat, r \in 0..(k - 1) : m = k * q + r /\ r = m % k
  <2>1. m \div k \in Nat /\ m % k \in 0..(k - 1) /\ m = k * (m \div k) + (m % k)
    OBVIOUS
  <2>2. QED  BY <2>1
<1>2. (q + b) * k + r = a * k + p
  BY <1>1
<1>3. q + b = a
  <2>1. q + b \in Nat /\ r < k /\ p < k /\ r \in Nat /\ p \in Nat
    BY <1>1
  <2>2. (q + b) * k \in Nat /\ a * k \in Nat
    BY <2>1, Multiples
  <2>3. ~(q + b < a)
    <3>1. q + b < a => (q + b) * k + k <= a * k
      BY <2>1, Multiples
    <3>2. QED  BY <1>2, <2>1, <2>2, <3>1
  <2>4. ~(a < q + b)
    <3>1. a < q + b => a * k + k <= (q + b) * k
      BY <2>1, Multiples
    <3>2. QED  BY <1>2, <2>1, <2>2, <3>1
  <2>5. QED  BY <2>1, <2>3, <2>4
<1>4. r = p
  BY <1>1, <1>2, <1>3
<1>5. QED  BY <1>1, <1>4

LEMMA ItemFramesPositive == ItemFrames \in Nat \ {0} /\ Items \in Nat
  BY ItemAssumption

\* Spent, where only what it adds up differs.
LEMMA SpentSame ==
  ASSUME NEW d \in Nat, NEW p \in 0..(ItemFrames - 1), Course(d, p), Spent(d)' <= Spent(d),
         Spent(d)' \in Nat, Spent(d) \in Nat,
         UNCHANGED <<left, begun, taken, queue, wire, buf>>
  PROVE  Flow'
<1>1. Spent(d)' <= SendWindow
  BY WindowAssumption DEF Course
<1>2. Course(d, p)'
  BY <1>1 DEF Course
<1>3. QED  BY <1>2 DEF Flow

LEMMA InitFlow == Init => Flow
<1> SUFFICES ASSUME Init PROVE Flow  OBVIOUS
<1>1. Cardinality(Holding) = 0
  <2>1. Holding = {}  BY DEF Init, Holding
  <2>2. QED  BY <2>1, FS_EmptySet
<1>2. Spent(0) <= SendWindow
  BY <1>1, WindowAssumption DEF Init, Spent
<1>3. Items * ItemFrames \in Nat /\ 0 * ItemFrames = 0
  BY ItemFramesPositive
<1>4. Course(0, 0)
  BY <1>2, <1>3, ItemFramesPositive DEF Init, Course
<1>5. QED  BY <1>4, ItemFramesPositive DEF Flow

LEMMA SpentNat ==
  ASSUME TypeOK, NEW d \in Nat
  PROVE  Spent(d) \in Nat
<1>1. Cardinality(Holding) \in Nat
  BY HoldingFinite
<1>2. (IF buf > 0 THEN 1 ELSE 0) \in Nat /\ (IF ConsumerCall = "recv" THEN 0 ELSE taken) \in Nat
  BY DEF TypeOK
<1>3. QED  BY <1>1, <1>2 DEF TypeOK, Spent

\* The steps that move credit and no frame: what is asked for, granted or lost
\* at a closed gate never adds to it.
LEMMA GateFlow ==
  ASSUME IInv, IInv', Flow,
         \/ Start \/ HandlerDone \/ Cancel \/ NotifyWaiters \/ Grant \/ Block \/ UNCHANGED vars
         \/ \E s \in Senders : Arm(s) \/ Await(s) \/ Wake(s) \/ Acquire(s) \/ BlockingAcquire(s)
  PROVE  Flow' /\ UNCHANGED <<begun, taken>>
<1> USE DEF gateVars, sendVars, windowVars, recvVars, vars
<1>0. TypeOK /\ TypeOK'  BY DEF IInv
<1>1. PICK d \in Nat, p \in 0..(ItemFrames - 1) : Course(d, p)
  BY DEF Flow
<1>2. UNCHANGED <<left, begun, taken, queue, wire, buf>>
  BY DEF Start, HandlerDone, Cancel, NotifyWaiters, Grant, Block, Arm, Await, Wake, Acquire,
         BlockingAcquire, TryAcquire
<1>3. Spent(d) \in Nat /\ Spent(d)' \in Nat
  <2>1. Spent(d) \in Nat
    BY <1>0, SpentNat
  <2>2. Cardinality(Holding') \in Nat
    <3>1. Holding' \subseteq Senders  BY DEF Holding
    <3>2. QED  BY <3>1, SendersFinite, FS_Subset, FS_CardinalityType
  <2>3. (IF buf' > 0 THEN 1 ELSE 0) \in Nat /\ (IF ConsumerCall = "recv" THEN 0 ELSE taken') \in Nat
    BY <1>0 DEF TypeOK
  <2>4. Spent(d)' \in Nat
    BY <1>0, <2>2, <2>3 DEF TypeOK, Spent
  <2>5. QED  BY <2>1, <2>4
<1>4. Spent(d)' <= Spent(d)
  <2>1. CASE Start \/ HandlerDone \/ Cancel \/ NotifyWaiters \/ UNCHANGED vars
    <3>1. UNCHANGED <<available, pc, credits, pending>>
      BY <2>1 DEF Start, HandlerDone, Cancel, NotifyWaiters
    <3>2. Spent(d)' = Spent(d)
      BY <1>2, <3>1 DEF Spent, Holding
    <3>3. QED  BY <1>3, <3>2
  <2>2. CASE Grant
    <3>1. PICK n \in 1..credits :
            credits' = credits - n /\ (available' = available \/ available' = available + n)
      BY <2>2 DEF Grant, Granted
    <3>2. UNCHANGED <<pc, pending>> /\ Holding' = Holding
      BY <2>2 DEF Grant, Holding
    <3>3. QED  BY <1>0, <1>2, <3>1, <3>2, HoldingFinite DEF TypeOK, Spent
  <2>3. CASE Block
    <3>1. UNCHANGED <<available, pc>> /\ Holding' = Holding
          /\ \/ pending' = 0 /\ credits' = credits + pending
             \/ UNCHANGED <<pending, credits>>
      BY <2>3 DEF Block, Flush, Holding
    <3>2. QED  BY <1>0, <1>2, <3>1, HoldingFinite DEF TypeOK, Spent
  <2>4. ASSUME NEW s \in Senders, Arm(s) \/ Await(s) \/ Wake(s)
        PROVE  Spent(d)' <= Spent(d)
    <3>1. Holding' = Holding
      BY <1>0, <2>4, HoldingKept DEF Arm, Await, Wake
    <3>2. UNCHANGED <<available, credits, pending>>
      BY <2>4 DEF Arm, Await, Wake
    <3>3. Spent(d)' = Spent(d)
      BY <1>2, <3>1, <3>2 DEF Spent
    <3>4. QED  BY <1>3, <3>3
  <2>5. ASSUME NEW s \in Senders, Acquire(s) \/ BlockingAcquire(s)
        PROVE  Spent(d)' <= Spent(d)
    <3>1. PICK wait \in {"refused", "idle"} : TryAcquire(s, wait) /\ pc[s] # "holding"
      BY <2>5 DEF Acquire, BlockingAcquire
    <3>2. UNCHANGED <<credits, pending>>
      BY <3>1 DEF TryAcquire
    <3>3. CASE closed = "open" /\ ~Exhausted
      <4>1. available' = available - 1 /\ available >= 1 /\ pc' = [pc EXCEPT ![s] = "holding"]
        BY <1>0, <3>1, <3>3 DEF TryAcquire, Exhausted, TypeOK
      <4>2. Cardinality(Holding') = Cardinality(Holding) + 1
        BY <1>0, <3>1, <4>1, HoldingGrows
      <4>3. QED  BY <1>0, <1>2, <3>2, <4>1, <4>2, HoldingFinite DEF TypeOK, Spent
    <3>4. CASE closed # "open" \/ Exhausted
      <4>1. available' = available /\ Holding' = Holding
        BY <1>0, <3>1, <3>4, HoldingKept DEF TryAcquire
      <4>2. Spent(d)' = Spent(d)
        BY <1>2, <3>2, <4>1 DEF Spent
      <4>3. QED  BY <1>3, <4>2
    <3>5. QED  BY <3>3, <3>4
  <2>6. QED  BY <2>1, <2>2, <2>3, <2>4, <2>5
<1>5. QED  BY <1>1, <1>2, <1>3, <1>4, SpentSame

\* A frame is put on the wire: the next of its item, or the first of another.
LEMMA SendFlow ==
  ASSUME IInv, Flow, NEW s \in Senders, Send(s)
  PROVE  Flow' /\ [Pipe!Next]_<<begun, taken>>
<1> USE DEF gateVars, sendVars, windowVars, recvVars
<1>0. TypeOK  BY DEF IInv
<1> DEFINE k == ItemFrames
<1>1. PICK d \in Nat, p \in 0..(k - 1) : Course(d, p)
  BY DEF Flow
<1>2. /\ k \in Nat \ {0} /\ p \in Nat /\ p < k /\ begun \in Nat /\ taken \in Nat /\ queue \in Nat
      /\ wire \in Nat /\ buf \in Nat /\ left[s] \in Nat /\ left[s] > 0 /\ Items \in Nat
  BY <1>0, <1>1, ItemFramesPositive DEF TypeOK, IInv, FrameToSend, Send
<1>3. left[s] % k = 0 <=> p = 0
  <2>1. CASE k = 1
    <3>1. p = 0 /\ left[s] % 1 = 0
      BY <1>2, <2>1
    <3>2. QED  BY <2>1, <3>1
  <2>2. CASE k # 1
    <3>1. left[s] + begun * k = Items * k + p
      BY <1>1, <2>2 DEF Course
    <3>2. QED  BY <1>1, <1>2, <3>1, Remainder
  <2>3. QED  BY <2>1, <2>2
<1>4. /\ begun' = (IF p = 0 THEN begun + 1 ELSE begun) /\ wire' = wire + 1 /\ left'[s] = left[s] - 1
      /\ UNCHANGED <<available, taken, queue, buf, pending, credits>>
  BY <1>0, <1>3 DEF Send, TypeOK
<1>5. Cardinality(Holding') = Cardinality(Holding) - 1 /\ Cardinality(Holding) \in Nat
      /\ Cardinality(Holding) >= 1
  <2>1. s \in Holding /\ Cardinality(Holding') = Cardinality(Holding) - 1
    BY <1>0, HoldingShrinks DEF Send, Holding
  <2>2. QED  BY <2>1, HoldingFinite, FS_EmptySet
<1>6. Spent(d)' = Spent(d)
  BY <1>0, <1>4, <1>5 DEF TypeOK, Spent
<1>7. (begun + 1) * k = begun * k + k /\ begun * k \in Nat /\ (taken + queue) * k \in Nat
      /\ Items * k \in Nat
  BY <1>2, Multiples
<1>8. k # 1 => Senders = {s}
  <2>1. k # 1 => Cardinality(Senders) = 1
    BY SenderAssumption
  <2>2. Cardinality(Senders) = 1 => \E x : Senders = {x}
    BY SendersFinite, FS_Singleton
  <2>3. QED  BY <2>1, <2>2
<1> HIDE DEF k
<1>9. PICK q \in 0..(k - 1) : q = IF p = 0 THEN k - 1 ELSE p - 1
  BY <1>2
<1>10. begun' * k = begun * k + (IF p = 0 THEN k ELSE 0)
  BY <1>4, <1>7
<1>11. begun' * k = q + wire' + d + (taken' + queue') * k + buf'
  <2>1. begun * k = p + wire + d + (taken + queue) * k + buf
    BY <1>1 DEF Course, k
  <2>2. QED  BY <1>2, <1>4, <1>7, <1>9, <1>10, <2>1
<1>12. k # 1 => \A t \in Senders : left'[t] + begun' * k = Items * k + q
  <2>1. SUFFICES ASSUME k # 1 PROVE left'[s] + begun' * k = Items * k + q
    BY <1>8
  <2>2. left[s] + begun * k = Items * k + p
    BY <1>1, <2>1 DEF Course, k
  <2>3. QED  BY <1>2, <1>4, <1>7, <1>9, <1>10, <2>2
<1>13. Course(d, q)'
  BY <1>1, <1>4, <1>6, <1>11, <1>12 DEF Course, k
<1>14. Flow'
  BY <1>9, <1>13 DEF Flow, k
<1>15. CASE p # 0
  BY <1>4, <1>14, <1>15
<1>16. CASE p = 0
  <2>1. begun * k = wire + d + (taken + queue) * k + buf /\ buf < k /\ Spent(d) <= SendWindow
    BY <1>1, <1>2, <1>7, <1>16 DEF Course, k
  <2> DEFINE w == wire + d + (IF buf > 0 THEN 1 ELSE 0)
  <2>2. w \in Nat /\ w * k \in Nat /\ wire + d + buf <= w * k
    <3>1. wire + d \in Nat /\ (wire + d) * k \in Nat /\ wire + d <= (wire + d) * k
          /\ (wire + d + 1) * k = (wire + d) * k + k
      <4>1. (wire + d) * k \in Nat /\ ((wire + d) + 1) * k = (wire + d) * k + k
        BY <1>2, Multiples
      <4>2. wire + d <= (wire + d) * k
        BY <1>2
      <4>3. QED  BY <1>2, <4>1, <4>2
    <3>2. CASE buf > 0
      BY <1>2, <2>1, <3>1, <3>2
    <3>3. CASE ~(buf > 0)
      BY <1>2, <3>1, <3>3
    <3>4. QED  BY <3>2, <3>3
  <2>3. begun <= taken + queue + w
    <3>1. (taken + queue + w) * k = (taken + queue) * k + w * k
      BY <1>2, <2>2
    <3>2. begun * k <= (taken + queue + w) * k
      BY <1>2, <1>7, <2>1, <2>2, <3>1
    <3>3. QED  BY <1>2, <2>2, <3>2, Multiples
  <2>4. queue + w + Cardinality(Holding) <= SendWindow
    BY <1>0, <1>2, <1>5, <2>1, WindowAssumption DEF TypeOK, Spent
  <2>5. begun - taken < SendWindow
    BY <1>2, <1>5, <2>2, <2>3, <2>4, WindowAssumption
  <2>6. Pipe!Begin
    BY <1>4, <1>16, <2>5 DEF Pipe!Begin
  <2>7. QED  BY <1>14, <2>6 DEF Pipe!Next
<1>17. QED  BY <1>15, <1>16

\* A frame arrives: its item goes on, or to the queue, or the frame is dropped.
LEMMA ArriveFlow ==
  ASSUME IInv, Flow, Arrive
  PROVE  Flow' /\ UNCHANGED <<begun, taken>>
<1> USE DEF gateVars, sendVars, windowVars, recvVars
<1>0. TypeOK  BY DEF IInv
<1>1. PICK d \in Nat, p \in 0..(ItemFrames - 1) : Course(d, p)
  BY DEF Flow
<1>2. /\ wire > 0 /\ wire' = wire - 1 /\ Holding' = Holding
      /\ UNCHANGED <<left, begun, taken, available, pending>>
  BY DEF Arrive, Holding
<1>3. /\ ItemFrames \in Nat \ {0} /\ p \in Nat /\ begun \in Nat /\ taken \in Nat /\ queue \in Nat
      /\ wire \in Nat /\ buf \in Nat /\ credits \in Nat
  BY <1>0, <1>1, ItemFramesPositive DEF TypeOK
<1>4. /\ (taken + (queue + 1)) * ItemFrames = (taken + queue) * ItemFrames + ItemFrames
      /\ (taken + queue) * ItemFrames \in Nat /\ begun * ItemFrames \in Nat
  BY <1>3, Multiples
<1>5. CASE UNCHANGED <<credits, buf, queue>>
  <2>1. d + 1 \in Nat /\ Spent(d + 1)' = Spent(d)
    BY <1>0, <1>2, <1>3, <1>5, HoldingFinite DEF TypeOK, Spent
  <2>2. Course(d + 1, p)'
    BY <1>1, <1>2, <1>3, <1>4, <1>5, <2>1 DEF Course
  <2>3. QED  BY <1>2, <2>1, <2>2 DEF Flow
<1>6. CASE ~UNCHANGED <<credits, buf, queue>>
  <2>1. /\ credits' = (IF buf > 0 THEN credits + 1 ELSE credits)
        /\ \/ buf + 1 = ItemFrames /\ buf' = 0 /\ queue' = queue + 1
           \/ buf + 1 # ItemFrames /\ buf' = buf + 1 /\ queue' = queue
    BY <1>6 DEF Arrive, Continued
  <2>2. Spent(d)' = Spent(d)
    BY <1>0, <1>2, <1>3, <2>1, HoldingFinite DEF TypeOK, Spent
  <2>3. begun' * ItemFrames = p + wire' + d + (taken' + queue') * ItemFrames + buf' /\ buf' < ItemFrames
    <3>1. begun * ItemFrames = p + wire + d + (taken + queue) * ItemFrames + buf /\ buf < ItemFrames
      BY <1>1 DEF Course
    <3>2. QED  BY <1>2, <1>3, <1>4, <2>1, <3>1
  <2>4. Course(d, p)'
    BY <1>1, <1>2, <2>2, <2>3 DEF Course
  <2>5. QED  BY <1>2, <2>4 DEF Flow
<1>7. QED  BY <1>5, <1>6

\* An item is taken: one that was begun.
LEMMA TakeFlow ==
  ASSUME IInv, Flow, TakeItem
  PROVE  Flow' /\ [Pipe!Next]_<<begun, taken>>
<1> USE DEF gateVars, sendVars, windowVars, recvVars
<1>0. TypeOK  BY DEF IInv
<1>1. PICK d \in Nat, p \in 0..(ItemFrames - 1) : Course(d, p)
  BY DEF Flow
<1>2. /\ queue > 0 /\ queue' = queue - 1 /\ taken' = taken + 1 /\ Holding' = Holding
      /\ UNCHANGED <<left, begun, wire, buf, available>>
  BY DEF TakeItem, Holding
<1>3. /\ ItemFrames \in Nat \ {0} /\ p \in Nat /\ begun \in Nat /\ taken \in Nat /\ queue \in Nat
      /\ wire \in Nat /\ buf \in Nat /\ credits \in Nat /\ pending \in Nat
  BY <1>0, <1>1, ItemFramesPositive DEF TypeOK
<1>4. /\ ConsumerCall = "recv" => credits' + pending' = credits + pending + 1
      /\ ConsumerCall = "recv" => credits' \in Nat /\ pending' \in Nat
      /\ ConsumerCall # "recv" => UNCHANGED <<credits, pending>>
  BY <1>3, BatchPositive DEF TakeItem, Consume
<1>5. Spent(d)' = Spent(d)
  BY <1>0, <1>2, <1>3, <1>4, HoldingFinite DEF TypeOK, Spent
<1>6. taken' + queue' = taken + queue
  BY <1>2, <1>3
<1>7. Course(d, p)'
  BY <1>1, <1>2, <1>5, <1>6 DEF Course
<1>8. taken < begun
  <2>1. (taken + queue) * ItemFrames <= begun * ItemFrames
    <3>1. begun * ItemFrames = p + wire + d + (taken + queue) * ItemFrames + buf
      BY <1>1 DEF Course
    <3>2. (taken + queue) * ItemFrames \in Nat
      BY <1>3, Multiples
    <3>3. QED  BY <1>3, <3>1, <3>2
  <2>2. taken + queue <= begun
    BY <1>3, <2>1, Multiples
  <2>3. QED  BY <1>2, <1>3, <2>2
<1>9. Pipe!Take
  BY <1>2, <1>8 DEF Pipe!Take
<1>10. QED  BY <1>7, <1>9 DEF Flow, Pipe!Next

\* CreditStream implements WindowedPipe, for any two windows, senders and items:
\* through a gate with a window of N no more than N items are ever on their way,
\* also across chunks that are dropped, a cancel and the end of the handler.
THEOREM IsAPipe == Spec => PipeSpec
<1>1. Init => Flow /\ Pipe!Init
  BY InitFlow DEF Init, Pipe!Init
<1>2. IInv /\ IInv' /\ Flow /\ [Next]_vars => Flow' /\ [Pipe!Next]_<<begun, taken>>
  <2> SUFFICES ASSUME IInv, IInv', Flow, [Next]_vars PROVE Flow' /\ [Pipe!Next]_<<begun, taken>>
    OBVIOUS
  <2>1. CASE Start \/ MainLoop \/ Cancel \/ Block \/ Terminated \/ UNCHANGED vars
    BY <2>1, GateFlow DEF MainLoop, Terminated
  <2>2. ASSUME NEW s \in Senders, TaskStep(s) \/ ThreadStep(s)
        PROVE  Flow' /\ [Pipe!Next]_<<begun, taken>>
    <3>1. CASE Send(s)
      BY <3>1, SendFlow
    <3>2. CASE ~Send(s)
      <4>1. Arm(s) \/ Await(s) \/ Wake(s) \/ Acquire(s) \/ BlockingAcquire(s)
        BY <2>2, <3>2 DEF TaskStep, ThreadStep
      <4>2. QED  BY <4>1, GateFlow
    <3>3. QED  BY <3>1, <3>2
  <2>3. CASE Arrive
    BY <2>3, ArriveFlow
  <2>4. CASE TakeItem
    BY <2>4, TakeFlow
  <2>5. QED  BY <2>1, <2>2, <2>3, <2>4 DEF Next, Senders
<1>3. QED  BY <1>1, <1>2, Invariance, PTL DEF Spec, PipeSpec, Pipe!Spec, Pipe!pipeVars
=============================================================================
