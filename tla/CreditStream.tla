---------------------------- MODULE CreditStream ----------------------------
(***************************************************************************)
(* Credit-based flow control of ONE stream of ONE request: the sender's    *)
(* CreditGate, the router entry CREDIT frames reach it through, the chunks *)
(* on the wire, the receiver's demux with its CreditWindow, the handler    *)
(* that consumes, and the CREDIT frames on the way back.                   *)
(*                                                                         *)
(* Payloads are abstracted away.  The wire is lossless and ordered, so it  *)
(* is the number of CHUNK frames under way; an item of a sequence stream   *)
(* is ItemFrames frames.  CREDIT frames under way are the credits they     *)
(* carry together: a delivery hands over any positive part of them, which  *)
(* includes every way of framing them.                                     *)
(***************************************************************************)
EXTENDS Naturals, FiniteSets

CONSTANTS
  Tasks,        \* async tasks of the sending handler (CreditGate::acquire)
  Threads,      \* blocking threads of it (CreditGate::blocking_acquire)
  SendWindow,   \* initial_credit negotiated on the sender's link
  RecvWindow,   \* initial_credit negotiated on the receiver's link
  ItemFrames,   \* CHUNK frames of one item
  Items,        \* bound: items each sender writes
  ConsumerCall  \* how the handler reads: "recv" or "recv_data"

Senders == Tasks \cup Threads

\* negotiate_initial_credit refuses a zero window.
ASSUME WindowAssumption == SendWindow \in Nat \ {0} /\ RecvWindow \in Nat \ {0}
ASSUME ItemAssumption   == ItemFrames \in Nat \ {0} /\ Items \in Nat
ASSUME SenderAssumption == /\ IsFiniteSet(Tasks) /\ IsFiniteSet(Threads)
                           /\ Tasks \cap Threads = {}
                           \* the frames of two items do not interleave
                           /\ ItemFrames = 1 \/ Cardinality(Senders) = 1
ASSUME CallAssumption   == ConsumerCall \in {"recv", "recv_data"}

VARIABLES
  \* the sending side
  available,    \* Gate.available
  closed,       \* Gate.closed: "open", or the reason the gate was closed for
  started,      \* OutputStream::start was called
  registered,   \* the gate is in the CreditRouter
  pc,           \* where each sender is
  woken,        \* tasks whose Notified future has been notified
  left,         \* frames each sender has yet to send
  notifyDue,    \* the main loop changed the gate and has not yet notified
  cancelled,    \* the main loop has seen a Cancel for the running handler
  done,         \* the main loop has reaped the finished handler
  \* the wire
  wire,         \* CHUNK frames under way
  credits,      \* credits under way in CREDIT frames
  \* the receiving side
  remaining,    \* Window.remaining
  pending,      \* Window.pending
  buf,          \* frames of the item being reassembled (SeqReassembly.buf)
  queue,        \* items delivered to the handler's channel, not yet taken
  consumer,     \* "ready", "blocked" in the channel's recv, or "gone"
  violated,     \* a CREDIT_VIOLATION was reported
  \* counters of the items, which nothing in the program reads
  begun, taken

gateVars  == <<available, closed, registered, notifyDue>>
sendVars  == <<started, pc, woken, left, cancelled, done>>
windowVars == <<remaining, pending>>
recvVars  == <<buf, queue, consumer, violated, taken>>
vars == <<gateVars, sendVars, wire, credits, windowVars, recvVars, begun>>

-----------------------------------------------------------------------------
(* The decisions of the proved model                                       *)

\* Half the window, at least one: how many consumed chunks make a grant due.
Batch == IF RecvWindow \div 2 = 0 THEN 1 ELSE RecvWindow \div 2

\* MUTANT of Consume: the grant goes out and the receiver's window forgets it.
Consume_Unrecorded ==
  /\ pending' = IF Batch <= pending + 1 THEN 0 ELSE pending + 1
  /\ credits' = IF Batch <= pending + 1 THEN credits + pending + 1 ELSE credits
  /\ remaining' = remaining

\* Window.consume: one more chunk to grant back, granted with the others once
\* a batch is together.
Consume == IF Batch <= pending + 1
             THEN /\ remaining' = remaining + pending + 1
                  /\ credits' = credits + pending + 1
                  /\ pending' = 0
             ELSE /\ pending' = pending + 1
                  /\ UNCHANGED <<remaining, credits>>

\* MUTANTS of Flush: what was granted is not cleared; nothing is granted.
Flush_NotCleared == /\ remaining' = remaining + pending
                    /\ credits' = credits + pending
                    /\ pending' = pending
Flush_Nothing == UNCHANGED <<remaining, credits, pending>>

\* Window.flush: everything pending is granted now.
Flush == /\ remaining' = remaining + pending
         /\ credits' = credits + pending
         /\ pending' = 0

\* MUTANT of Continued: granted by the item only, like any other chunk.
Continued_Held == remaining' = remaining - 1 /\ credits' = credits

\* Window.arrive, then Window.continued: the frame took one and gives it back.
Continued == remaining' = remaining /\ credits' = credits + 1

\* Gate.acquire(1) says Wait.
Exhausted == available < 1

\* Gate.grant.
Granted_OneMore(n) == available + n + 1    \* MUTANT
Granted(n) == IF closed = "open" THEN available + n ELSE available

-----------------------------------------------------------------------------
(* The sender                                                              *)

TypeOK ==
  /\ available \in Nat /\ closed \in {"open", "END", "CANCELLED"}
  /\ started \in BOOLEAN /\ registered \in BOOLEAN /\ notifyDue \in BOOLEAN
  /\ pc \in [Senders -> {"idle", "armed", "refused", "parked", "holding", "failed"}]
  /\ woken \in SUBSET Tasks
  /\ left \in [Senders -> Nat]
  /\ cancelled \in BOOLEAN /\ done \in BOOLEAN
  /\ wire \in Nat /\ credits \in Nat
  /\ remaining \in Nat /\ pending \in Nat
  /\ buf \in Nat /\ queue \in Nat
  /\ consumer \in {"ready", "blocked", "gone"}
  /\ violated \in BOOLEAN
  /\ begun \in Nat /\ taken \in Nat

Init ==
  /\ available = SendWindow /\ closed = "open"
  /\ started = FALSE /\ registered = FALSE /\ notifyDue = FALSE
  /\ pc = [s \in Senders |-> "idle"] /\ woken = {}
  /\ left = [s \in Senders |-> Items * ItemFrames]
  /\ cancelled = FALSE /\ done = FALSE
  /\ wire = 0 /\ credits = 0
  /\ remaining = RecvWindow /\ pending = 0
  /\ buf = 0 /\ queue = 0 /\ consumer = "ready" /\ violated = FALSE
  /\ begun = 0 /\ taken = 0

\* OutputStream::start: the gate made by with_credit enters the router.
Start ==
  /\ ~started /\ ~done
  /\ started' = TRUE
  /\ registered' = TRUE
  /\ UNCHANGED <<available, closed, notifyDue, pc, woken, left, cancelled, done, wire,
                 credits, windowVars, recvVars, begun>>

\* A task makes its Notified and enables it, BEFORE it asks.
Arm(s) ==
  /\ started /\ left[s] > 0
  /\ pc[s] = "idle"
  /\ pc' = [pc EXCEPT ![s] = "armed"]
  /\ woken' = woken \ {s}
  /\ UNCHANGED <<gateVars, started, left, cancelled, done, wire, credits, windowVars,
                 recvVars, begun>>

\* try_acquire(1) under the gate's lock; `wait` is where a sender told to wait goes.
TryAcquire(s, wait) ==
  /\ IF closed # "open" THEN /\ pc' = [pc EXCEPT ![s] = "failed"]
                             /\ UNCHANGED available
     ELSE IF Exhausted THEN /\ pc' = [pc EXCEPT ![s] = wait]
                            /\ UNCHANGED available
     ELSE /\ available' = available - 1
          /\ pc' = [pc EXCEPT ![s] = "holding"]
  /\ UNCHANGED <<closed, registered, notifyDue, started, woken, left, cancelled, done, wire,
                 credits, windowVars, recvVars, begun>>

\* CreditGate::acquire, after it armed.
Acquire(s) == pc[s] = "armed" /\ TryAcquire(s, "refused")

\* CreditGate::blocking_acquire: asks again and again without a Notified.
BlockingAcquire(s) ==
  /\ started /\ left[s] > 0
  /\ pc[s] = "idle"
  /\ closed # "open" \/ ~Exhausted
  /\ TryAcquire(s, "idle")

\* Told to wait, it awaits its Notified.
Await(s) ==
  /\ pc[s] = "refused"
  /\ pc' = [pc EXCEPT ![s] = "parked"]
  /\ UNCHANGED <<gateVars, started, woken, left, cancelled, done, wire, credits,
                 windowVars, recvVars, begun>>

\* The await returns; the loop makes and enables a new Notified.
Wake(s) ==
  /\ pc[s] = "parked" /\ s \in woken
  /\ pc' = [pc EXCEPT ![s] = "armed"]
  /\ woken' = woken \ {s}
  /\ UNCHANGED <<gateVars, started, left, cancelled, done, wire, credits, windowVars,
                 recvVars, begun>>

\* The CHUNK paid for is put on the wire.
Send(s) ==
  /\ pc[s] = "holding"
  /\ pc' = [pc EXCEPT ![s] = "idle"]
  /\ left' = [left EXCEPT ![s] = @ - 1]
  /\ begun' = IF left[s] % ItemFrames = 0 THEN begun + 1 ELSE begun
  /\ wire' = wire + 1
  /\ UNCHANGED <<gateVars, started, woken, cancelled, done, credits, windowVars, recvVars>>

Finished(s) == pc[s] = "failed" \/ (pc[s] = "idle" /\ left[s] = 0)

-----------------------------------------------------------------------------
(* The loop that owns the router: it delivers CREDIT frames and closes the *)
(* request's gates, one frame after the other.                             *)

\* CreditRouter::grant and CreditGate::grant up to the unlock.  No gate, or a
\* closed one: the grant is nothing.
Grant ==
  /\ ~notifyDue
  /\ \E n \in 1..credits :
       /\ credits' = credits - n
       /\ IF registered
            THEN /\ available' = Granted(n)
                 /\ notifyDue' = TRUE
            ELSE UNCHANGED <<available, notifyDue>>
  /\ UNCHANGED <<closed, registered, sendVars, wire, windowVars, recvVars, begun>>

\* MUTANT of CloseRequest: the waiters are not told.
CloseRequest_Silent(reason) ==
  /\ registered' = FALSE
  /\ closed' = IF registered /\ closed = "open" THEN reason ELSE closed
  /\ notifyDue' = notifyDue

\* CreditRouter::close_request: the gates registered NOW are closed and forgotten.
CloseRequest(reason) ==
  /\ registered' = FALSE
  /\ IF registered
       THEN /\ closed' = IF closed = "open" THEN reason ELSE closed
            /\ notifyDue' = TRUE
       ELSE UNCHANGED <<closed, notifyDue>>

\* The handler reported done and is reaped; gates it still has are closed.  A
\* cancelled handler may end without ever opening its output.
HandlerDone ==
  /\ ~notifyDue /\ ~done
  /\ started \/ cancelled
  /\ started => \A s \in Senders : Finished(s)
  /\ done' = TRUE
  /\ CloseRequest("END")
  /\ UNCHANGED <<available, started, pc, woken, left, cancelled, wire, credits,
                 windowVars, recvVars, begun>>

\* The request is cancelled while its handler runs.  The consumer's request
\* entry is already gone: nothing is read, and nothing granted, any more.
Cancel ==
  /\ ~notifyDue /\ ~done /\ ~cancelled
  /\ cancelled' = TRUE
  /\ CloseRequest("CANCELLED")
  /\ consumer' = "gone"
  /\ UNCHANGED <<available, started, pc, woken, left, done, wire, credits,
                 windowVars, buf, queue, violated, taken, begun>>

\* MUTANT of Waiters: Notified is only created before the question, and
\* enabled by the await.
Waiters_Polled == {s \in Tasks : pc[s] = "parked"}

\* The futures that notify_waiters reaches: those enabled, awaited or not yet.
Waiters == {s \in Tasks : pc[s] \in {"armed", "refused", "parked"}}

\* notify_waiters, after the unlock.
NotifyWaiters ==
  /\ notifyDue
  /\ notifyDue' = FALSE
  /\ woken' = woken \cup Waiters
  /\ UNCHANGED <<available, closed, registered, started, pc, left, cancelled, done, wire,
                 credits, windowVars, recvVars, begun>>

-----------------------------------------------------------------------------
(* The receiver                                                            *)

\* A CHUNK reaches the demux.  Beyond the window it is a violation and is
\* dropped.  A frame that continues an item is granted back at once; the last
\* one delivers the item to the handler.
Arrive ==
  /\ wire > 0
  /\ wire' = wire - 1
  /\ \/ /\ consumer # "gone" /\ remaining > 0
        /\ IF buf > 0 THEN Continued
                      ELSE remaining' = remaining - 1 /\ credits' = credits
        /\ IF buf + 1 = ItemFrames THEN buf' = 0 /\ queue' = queue + 1
                                   ELSE buf' = buf + 1 /\ queue' = queue
        /\ UNCHANGED violated
     \/ /\ consumer # "gone" /\ remaining = 0
        /\ violated' = TRUE
        /\ UNCHANGED <<remaining, credits, buf, queue>>
     \/ /\ consumer = "gone"
        /\ UNCHANGED <<remaining, credits, buf, queue, violated>>
  /\ UNCHANGED <<gateVars, sendVars, pending, consumer, taken, begun>>

\* The handler takes an item; recv() grants it back, recv_data() does not.
TakeItem ==
  /\ consumer # "gone" /\ queue > 0
  /\ queue' = queue - 1
  /\ taken' = taken + 1
  /\ consumer' = "ready"
  /\ IF ConsumerCall = "recv" THEN Consume
                              ELSE UNCHANGED <<windowVars, credits>>
  /\ UNCHANGED <<gateVars, sendVars, wire, buf, violated, begun>>

\* The channel is empty: recv() flushes before it blocks, recv_data() just blocks.
Block ==
  /\ consumer = "ready" /\ queue = 0
  /\ consumer' = "blocked"
  /\ IF ConsumerCall = "recv" THEN Flush
                              ELSE UNCHANGED <<windowVars, credits>>
  /\ UNCHANGED <<gateVars, sendVars, wire, buf, queue, violated, taken, begun>>

-----------------------------------------------------------------------------

\* The stream is over and nothing is under way.
Terminated ==
  /\ done /\ ~notifyDue
  /\ wire = 0 /\ credits = 0
  /\ consumer = "gone" \/ (consumer = "blocked" /\ queue = 0)
  /\ UNCHANGED vars

TaskStep(s)   == Arm(s) \/ Acquire(s) \/ Await(s) \/ Wake(s) \/ Send(s)
ThreadStep(s) == BlockingAcquire(s) \/ Send(s)
MainLoop      == Grant \/ HandlerDone \/ NotifyWaiters

Next == \/ Start
        \/ \E s \in Tasks : TaskStep(s)
        \/ \E s \in Threads : ThreadStep(s)
        \/ MainLoop \/ Cancel
        \/ Arrive \/ TakeItem \/ Block
        \/ Terminated

Spec == Init /\ [][Next]_vars

(* Every task and thread is scheduled, the wire delivers, the main loop     *)
(* keeps turning.  Nothing obliges anyone to cancel.                        *)
Fairness == /\ WF_vars(Start)
            /\ \A s \in Tasks : WF_vars(TaskStep(s))
            /\ \A s \in Threads : WF_vars(ThreadStep(s))
            /\ WF_vars(MainLoop)
            /\ WF_vars(Arrive) /\ WF_vars(TakeItem) /\ WF_vars(Block)

FairSpec == Spec /\ Fairness

-----------------------------------------------------------------------------
(* Properties                                                              *)

Holding == {s \in Senders : pc[s] = "holding"}

\* No chunk ever arrives beyond the window its receiver granted, however
\* grants, arrivals and consumption interleave (CreditWindow::arrive).
NoViolation == ~violated

\* While the stream is open the window is conserved: every credit of it is
\* with the gate, paid for a frame under way, held back for an item not yet
\* taken, waiting for its batch, or on its way back in a CREDIT frame.  What
\* is lost here throttles the stream for good, what is gained overruns it.
Conservation ==
  (closed = "open" /\ ~cancelled /\ ~violated) =>
    available + Cardinality(Holding) + wire + (IF buf > 0 THEN 1 ELSE 0)
      + queue + pending + credits
      + (IF ConsumerCall = "recv" THEN 0 ELSE taken) = SendWindow

\* The two ends agree: what the receiver still promised room for covers all
\* that the sender may yet put on the wire, and all that is on it.
WindowCovers ==
  RecvWindow + available + Cardinality(Holding) + wire + credits
     <= remaining + SendWindow

\* No wakeup is lost: a task told to wait and not notified, when its credit
\* is there or its gate closed, still has one coming (CreditGate::acquire
\* enables its Notified before it asks, for this).
NoLostWakeup ==
  \A s \in Tasks :
    (pc[s] \in {"refused", "parked"} /\ s \notin woken /\ (closed # "open" \/ available > 0))
       => notifyDue

\* Everything written is read, unless the request is cancelled: flow control
\* does not stall the stream for good, though the receiver batches its grants
\* by a window that need not be the sender's and an item may take more frames
\* than either window.  (Not so of a sender's window of 1 with items of two
\* frames, nor of a reader that uses recv_data.)
Total == Cardinality(Senders) * Items
Delivered == <>(cancelled \/ taken = Total)

\* A cancel releases every sender blocked on a gate it closed, so the handler
\* ends and is reaped (CreditGate::close, L13).
CloseReleases == (cancelled /\ closed # "open") ~> done

\* The stream is a pipe of at most SendWindow items.
Pipe == INSTANCE WindowedPipe WITH Window <- SendWindow
PipeSpec == Pipe!Spec
=============================================================================
