------------------------------ MODULE ChainRun ------------------------------
(***************************************************************************)
(* One scope of a plan run: its pipelined chains of steps, run at the same *)
(* time as far as their needs allow (run_scope), each split into segments  *)
(* where streaming through would deadlock or is not allowed, every segment *)
(* run as a live pipeline (run_step_chain): all its requests are opened    *)
(* first, in order, each waiting for the slots of its pools; then one task *)
(* feeds the head, one per hop forwards frames, and the last step's output *)
(* is collected, until a fault, a failure elsewhere or the last step's     *)
(* terminal decides.                                                       *)
(*                                                                         *)
(* The caps at the far end are external: they read, write, end and fail.   *)
(* A stream is the bounded pipe CreditStream is proved to be: a chunk is   *)
(* sent when fewer than Window of its stream are unread.  Admission is     *)
(* what Admission shows of it: all the slots of a chain of pools or none,  *)
(* and every turn comes.  Maps, their scopes and the skipping of steps     *)
(* whose required input is absent are left out.                            *)
(***************************************************************************)
EXTENDS Naturals, FiniteSets, Sequences

CONSTANTS
  Plan,         \* the chains of the scope: a function from chains to their steps
  Needs,        \* [chain -> chains that produce what it reads] (waits_on)
  PoolsOf,      \* [step -> pools a request of its cap is held against]
  Capacity,     \* [pool -> effective capacity, 0 for unlimited]
  Streaming,    \* steps whose output is declared without a length promise
  TakesStream,  \* steps whose main input consumes without one
  Fails,        \* [step -> class its cap may fail with, or "never"]
  Refusable,    \* steps whose request may fail to be opened
  Early,        \* steps whose cap may END before it has read its input
  Retries,      \* [chain -> attempts its step's policy allows after the first]
  Tolerated,    \* chains whose step's policy is on_error = absent
  Window,       \* chunks of a stream that may be unread
  Chunks        \* bound: chunks of a head's input

Chains == DOMAIN Plan
StepsOf(c) == {Plan[c][i] : i \in DOMAIN Plan[c]}
Steps == UNION {StepsOf(c) : c \in Chains}
ChainOf == [s \in Steps |-> CHOOSE c \in Chains : s \in StepsOf(c)]
Classes == {"Internal", "Input", "User"}

ASSUME PlanAssumption ==
  \* A step is in one chain, once.
  /\ \A c \in Chains : Plan[c] \in Seq(StepsOf(c)) /\ Plan[c] # <<>> /\ Needs[c] \subseteq Chains
  /\ \A c, d \in Chains : \A i \in DOMAIN Plan[c], j \in DOMAIN Plan[d] :
       Plan[c][i] = Plan[d][j] => c = d /\ i = j
  \* A step with a policy is a chain of its own (decompose_step_chains).
  /\ \A c \in Chains : Retries[c] > 0 \/ c \in Tolerated => Len(Plan[c]) = 1
ASSUME CapAssumption == /\ \A s \in Steps : Fails[s] \in Classes \cup {"never"}
                        /\ \A c \in Chains : Retries[c] \in Nat
                        /\ Early \cup Refusable \cup Streaming \cup TakesStream \subseteq Steps
ASSUME BoundAssumption == Window \in Nat \ {0} /\ Chunks \in Nat

VARIABLES
  \* the scope
  failure,   \* the failure run_scope will report, None so far; it is what
             \* RunCancel was raised with
  \* the chains' tasks
  phase,     \* "unstarted", "ready", "opening", "flowing", "teardown", "closing",
             \* "joining", "backoff", then "finished" and, joined, "over"
  seg,       \* where the segment it runs starts
  tries,     \* attempts that failed
  verdict,   \* what decided the segment, then what the chain returned
  faults,    \* the segment's fault channel
  \* the tasks that feed each step: the input sender of a segment's head, the
  \* forwarder of its predecessor's output for every other
  feed,      \* "idle", "running", "ok", "fault"
  left,      \* chunks the input sender has yet to send
  gate,      \* the credit gate of the stream fed: "none", "open", "closed"
  \* the requests and their caps
  req,       \* "none", "live", "ended", "erred" or "cancelled"
  got,       \* input chunks the cap has not read
  fed,       \* the cap has been sent END
  out        \* chunks in the response channel

chainVars == <<phase, seg, tries, verdict, faults>>
feedVars  == <<feed, left, gate>>
capVars   == <<req, got, fed, out>>
vars == <<failure, chainVars, feedVars, capVars>>

-----------------------------------------------------------------------------
(* Segments                                                                *)

\* MUTANT of SharePool: only the streaming contract splits a chain.
SharePool_Never(p, s) == FALSE

\* Two adjacent steps whose requests contend for a bounded pool.
SharePool(p, s) == \E q \in PoolsOf[p] \cap PoolsOf[s] : Capacity[q] > 0

\* A hop that may not be pipelined.
Boundary(p, s) == SharePool(p, s) \/ (p \in Streaming /\ s \notin TakesStream)

\* split_chains_at_shared_bounded_pool, then split_chains_at_streaming_boundary:
\* the positions in a chain where a segment starts, and those of each segment.
Cuts == [c \in Chains |-> {i \in DOMAIN Plan[c] : i = 1 \/ Boundary(Plan[c][i - 1], Plan[c][i])}]
Segments == [c \in Chains |-> [k \in Cuts[c] |->
              {i \in DOMAIN Plan[c] : k =< i /\ \A l \in Cuts[c] : k < l => i < l}]]
Heads == UNION {{Plan[c][i] : i \in Cuts[c]} : c \in Chains}

\* The segment that a chain runs, and its steps.
Part(c) == Segments[c][seg[c]]
Current(c) == {Plan[c][i] : i \in Part(c)}
First(I) == CHOOSE i \in I : \A j \in I : i =< j
Final(I) == CHOOSE i \in I : \A j \in I : j =< i
LastOf(c) == Plan[c][Final(Part(c))]

\* A step's neighbours in its chain.
Place == [s \in Steps |-> CHOOSE i \in DOMAIN Plan[ChainOf[s]] : Plan[ChainOf[s]][i] = s]
Before(s) == Plan[ChainOf[s]][Place[s] - 1]
After(s) == Plan[ChainOf[s]][Place[s] + 1]

-----------------------------------------------------------------------------
(* What a chain returns                                                    *)

\* What has been decided of a chain: nothing yet, that it went well, that its
\* outputs are absent, or an error: the step it names, the class it is
\* attributed to, and whether the step's cap said so ("own"), its request
\* could not be opened ("refused"), a task of the segment met its end
\* ("consequence"), or the chain was stopped for a failure elsewhere
\* ("collateral").
Error(s, class, kind) == [step |-> s, class |-> class, kind |-> kind]

\* MUTANT of Stopped: a chain stopped for another's failure counts as failed.
Stopped_Own(c) == Error(Plan[c][seg[c]], "Internal", "own")

Stopped(c) == Error(Plan[c][seg[c]], "Internal", "collateral")
Broken(s) == Error(s, "Internal", "consequence")
None == [kind |-> "none"]
Ok == [kind |-> "ok"]
Absent == [kind |-> "absent"]
IsError(v) == v.kind \in {"own", "refused", "consequence", "collateral"}

\* run_chain, when run_segment has failed: only a failure of its own is
\* attempted again or tolerated.
Fail(c, e) ==
  LET mine == e.kind # "collateral" /\ e.class # "User"
      again == mine /\ e.class = "Internal" /\ tries[c] < Retries[c]
  IN  /\ verdict' = [verdict EXCEPT ![c] =
           IF ~again /\ mine /\ c \in Tolerated THEN Absent ELSE e]
      /\ phase' = [phase EXCEPT ![c] = IF again THEN "backoff" ELSE "finished"]
      /\ tries' = [tries EXCEPT ![c] = IF again THEN @ + 1 ELSE @]

-----------------------------------------------------------------------------
(* The scope                                                               *)

Raised == failure # None

Init ==
  /\ failure = None
  /\ phase = [c \in Chains |-> "unstarted"]
  /\ seg = [c \in Chains |-> 1]
  /\ tries = [c \in Chains |-> 0]
  /\ verdict = [c \in Chains |-> None]
  /\ faults = [c \in Chains |-> <<>>]
  /\ feed = [s \in Steps |-> "idle"]
  /\ left = [s \in Steps |-> Chunks]
  /\ gate = [s \in Steps |-> "none"]
  /\ req = [s \in Steps |-> "none"]
  /\ got = [s \in Steps |-> 0]
  /\ fed = [s \in Steps |-> FALSE]
  /\ out = [s \in Steps |-> 0]

\* A unit is started as soon as what it reads is there; a scope that has
\* failed starts nothing more.
Start(c) ==
  /\ phase[c] = "unstarted"
  /\ failure = None
  /\ \A d \in Needs[c] : phase[d] = "over" /\ verdict[d].kind \in {"ok", "absent"}
  /\ phase' = [phase EXCEPT ![c] = "ready"]
  /\ UNCHANGED <<failure, seg, tries, verdict, faults, feedVars, capVars>>

\* run_scope joins a unit that has returned: the first failure that is not a
\* consequence is the scope's, and is raised for all that still runs.
Reap(c) ==
  /\ phase[c] = "finished"
  /\ phase' = [phase EXCEPT ![c] = "over"]
  /\ failure' = IF failure = None /\ IsError(verdict[c]) /\ verdict[c].kind # "collateral"
                  THEN verdict[c] ELSE failure
  /\ UNCHANGED <<seg, tries, verdict, faults, feedVars, capVars>>

-----------------------------------------------------------------------------
(* A chain's segments: run_dag_on_context and run_step_chain               *)

\* A segment about to start does not start in a run that has failed.
Begin(c) ==
  /\ phase[c] = "ready"
  /\ IF Raised
       THEN Fail(c, Stopped(c))
       ELSE /\ phase' = [phase EXCEPT ![c] = "opening"]
            /\ UNCHANGED <<tries, verdict>>
  /\ UNCHANGED <<failure, seg, faults, feedVars, capVars>>

Room(s) == \A q \in PoolsOf[s] :
             \/ Capacity[q] = 0
             \/ Cardinality({t \in Steps : req[t] = "live" /\ q \in PoolsOf[t]}) < Capacity[q]

Unopened(c) == {i \in Part(c) : req[Plan[c][i]] = "none"}
NextOf(c) == Plan[c][First(Unopened(c))]

\* Step 1: the next request is admitted, registered and written.  This wait
\* is not raced with the run's failure signal.
Open(c) ==
  /\ phase[c] = "opening" /\ Unopened(c) # {}
  /\ Room(NextOf(c))
  /\ req' = [req EXCEPT ![NextOf(c)] = "live"]
  /\ UNCHANGED <<failure, chainVars, feedVars, got, fed, out>>

\* No route, an outage that outlasted its grace, or a write that failed.  What
\* was opened before is left as it is.
Refuse(c) ==
  /\ phase[c] = "opening" /\ Unopened(c) # {}
  /\ NextOf(c) \in Refusable
  /\ Fail(c, Error(NextOf(c), "Internal", "refused"))
  /\ UNCHANGED <<failure, seg, faults, feedVars, capVars>>

\* Steps 2 to 4: the pump, the input sender and the forwarders are spawned.
Spawn(c) ==
  /\ phase[c] = "opening" /\ Unopened(c) = {}
  /\ phase' = [phase EXCEPT ![c] = "flowing"]
  /\ feed' = [s \in Steps |-> IF s \in Current(c) THEN "running" ELSE feed[s]]
  /\ UNCHANGED <<failure, seg, tries, verdict, faults, left, gate, capVars>>

\* Step 5: the collector takes a chunk of the last step's output, when the
\* biased race below leaves it a turn.
Collect(c) ==
  /\ phase[c] = "flowing" /\ out[LastOf(c)] > 0
  /\ faults[c] = <<>> /\ ~Raised
  /\ out' = [out EXCEPT ![LastOf(c)] = @ - 1]
  /\ UNCHANGED <<failure, chainVars, feedVars, req, got, fed>>

\* Step 5, the biased race: a fault first, then the run's failure signal, then
\* the last step's terminal.
Decide(c) ==
  LET last == LastOf(c)
      Verdict(v, next) == /\ verdict' = [verdict EXCEPT ![c] = v]
                          /\ phase' = [phase EXCEPT ![c] = next]
  IN  /\ phase[c] = "flowing"
      /\ \/ /\ faults[c] # <<>>
            /\ Verdict(Head(faults[c]), "teardown")
            /\ faults' = [faults EXCEPT ![c] = Tail(@)]
         \/ /\ faults[c] = <<>> /\ Raised
            /\ Verdict(Stopped(c), "teardown")
            /\ UNCHANGED faults
         \/ /\ faults[c] = <<>> /\ ~Raised /\ out[last] = 0
            /\ req[last] \in {"ended", "erred"}
            /\ IF req[last] = "ended" THEN Verdict(Ok, "closing")
                 ELSE Verdict(Error(last, Fails[last], "own"), "teardown")
            /\ UNCHANGED faults
      /\ UNCHANGED <<failure, seg, tries, feedVars, capVars>>

\* MUTANT of Doomed: the head is left to end by itself.
Doomed_NotHead(c) == {i \in Part(c) \ {seg[c]} : req[Plan[c][i]] = "live"}

\* Requests of the segment that a teardown has to cancel.
Doomed(c) == {i \in Part(c) : req[Plan[c][i]] = "live"}

\* Step 6: the requests are cancelled one by one, in their order.
Teardown(c) ==
  /\ phase[c] = "teardown"
  /\ IF Doomed(c) = {}
       THEN /\ phase' = [phase EXCEPT ![c] = "closing"]
            /\ UNCHANGED req
       ELSE /\ req' = [req EXCEPT ![Plan[c][First(Doomed(c))]] = "cancelled"]
            /\ UNCHANGED phase
  /\ UNCHANGED <<failure, seg, tries, verdict, faults, feedVars, got, fed, out>>

\* The gates registered so far are closed, by close_request on every router.
CloseGates(c) ==
  /\ phase[c] = "closing"
  /\ gate' = [s \in Steps |-> IF s \in Current(c) /\ gate[s] = "open"
                                THEN "closed" ELSE gate[s]]
  /\ phase' = [phase EXCEPT ![c] = "joining"]
  /\ UNCHANGED <<failure, seg, tries, verdict, faults, feed, left, capVars>>

\* The tasks are joined and the fault channel drained.  The END of the last
\* step is not trusted when a task has faulted; of two failures the one that
\* decided stands.
Join(c) ==
  /\ phase[c] = "joining"
  /\ \A s \in Current(c) : feed[s] \in {"ok", "fault"}
  /\ faults' = [faults EXCEPT ![c] = <<>>]
  /\ \/ /\ IsError(verdict[c])
        /\ Fail(c, verdict[c])
        /\ UNCHANGED seg
     \/ /\ verdict[c].kind = "ok" /\ faults[c] # <<>>
        /\ verdict' = [verdict EXCEPT ![c] = Head(faults[c])]
        /\ phase' = [phase EXCEPT ![c] = "teardown"]
        /\ UNCHANGED <<seg, tries>>
     \/ /\ verdict[c].kind = "ok" /\ faults[c] = <<>>
        /\ IF Final(Part(c)) < Len(Plan[c])
             THEN /\ seg' = [seg EXCEPT ![c] = Final(Part(c)) + 1]
                  /\ phase' = [phase EXCEPT ![c] = "ready"]
             ELSE /\ phase' = [phase EXCEPT ![c] = "finished"]
                  /\ UNCHANGED seg
        /\ UNCHANGED <<tries, verdict>>
  /\ UNCHANGED <<failure, feedVars, capVars>>

\* The pause before another attempt, which a failure elsewhere ends.
Backoff(c) ==
  /\ phase[c] = "backoff"
  /\ \/ /\ Raised
        /\ verdict' = [verdict EXCEPT ![c] = Stopped(c)]
        /\ phase' = [phase EXCEPT ![c] = "finished"]
        /\ UNCHANGED <<seg, feedVars, capVars>>
     \/ LET Renew(f, v) == [s \in Steps |-> IF s \in StepsOf(c) THEN v ELSE f[s]]
        IN  /\ phase' = [phase EXCEPT ![c] = "ready"]
            /\ verdict' = [verdict EXCEPT ![c] = None]
            /\ seg' = [seg EXCEPT ![c] = 1]
            /\ feed' = Renew(feed, "idle") /\ left' = Renew(left, Chunks)
            /\ gate' = Renew(gate, "none") /\ req' = Renew(req, "none")
            /\ got' = Renew(got, 0) /\ fed' = Renew(fed, FALSE)
            /\ out' = Renew(out, 0)
  /\ UNCHANGED <<failure, tries, faults>>

-----------------------------------------------------------------------------
(* The tasks of a segment: send_step_input and forward_frames              *)

\* The task that feeds s ends with e on the fault channel.
Faulted(s, e) == /\ feed' = [feed EXCEPT ![s] = "fault"]
                 /\ faults' = [faults EXCEPT ![ChainOf[s]] = Append(@, e)]
\* Where a fault of the task that feeds s is placed.
Blamed(s) == IF s \in Heads THEN s ELSE Before(s)
Supply(s) == IF s \in Heads THEN left[s] ELSE out[Before(s)]

\* STREAM_START: the stream's gate is registered, then the frame sent, which
\* fails when the request is over.
FeedStart(s) ==
  /\ feed[s] = "running" /\ gate[s] = "none" /\ Supply(s) > 0
  /\ gate' = [gate EXCEPT ![s] = "open"]
  /\ IF req[s] = "live" THEN UNCHANGED <<feed, faults>> ELSE Faulted(s, Broken(Blamed(s)))
  /\ UNCHANGED <<failure, phase, seg, tries, verdict, left, capVars>>

\* CHUNK: on a closed gate a forwarder stops and is content, the input sender
\* reports a fault; with credit the chunk is sent, which fails when the
\* request is over; without credit it waits, for a grant or for the gate to be
\* closed, though the request be over.
FeedChunk(s) ==
  /\ feed[s] = "running" /\ gate[s] # "none" /\ Supply(s) > 0
  /\ \/ /\ gate[s] = "closed"
        /\ IF s \in Heads THEN Faulted(s, Broken(s))
             ELSE feed' = [feed EXCEPT ![s] = "ok"] /\ UNCHANGED faults
        /\ UNCHANGED <<left, got, out>>
     \/ /\ gate[s] = "open" /\ req[s] # "live" /\ got[s] < Window
        /\ Faulted(s, Broken(Blamed(s)))
        /\ UNCHANGED <<left, got, out>>
     \/ /\ gate[s] = "open" /\ req[s] = "live" /\ got[s] < Window
        /\ got' = [got EXCEPT ![s] = @ + 1]
        /\ IF s \in Heads THEN left' = [left EXCEPT ![s] = @ - 1] /\ UNCHANGED out
             ELSE out' = [out EXCEPT ![Before(s)] = @ - 1] /\ UNCHANGED left
        /\ UNCHANGED <<feed, faults>>
  /\ UNCHANGED <<failure, phase, seg, tries, verdict, gate, req, fed>>

\* The source's END: END goes to the step fed, unless its request is over.
FeedEnd(s) ==
  /\ feed[s] = "running" /\ Supply(s) = 0
  /\ s \notin Heads => req[Before(s)] = "ended"
  /\ IF req[s] = "live"
       THEN /\ fed' = [fed EXCEPT ![s] = TRUE]
            /\ feed' = [feed EXCEPT ![s] = "ok"]
            /\ UNCHANGED faults
       ELSE /\ Faulted(s, Broken(Blamed(s)))
            /\ UNCHANGED fed
  /\ UNCHANGED <<failure, phase, seg, tries, verdict, left, gate, req, got, out>>

\* The source's ERR, or that of its cancel.
FeedErr(s) ==
  /\ feed[s] = "running" /\ s \notin Heads /\ Supply(s) = 0
  /\ \/ /\ req[Before(s)] = "erred"
        /\ Faulted(s, Error(Before(s), Fails[Before(s)], "own"))
     \/ /\ req[Before(s)] = "cancelled"
        /\ Faulted(s, Broken(Before(s)))
  /\ UNCHANGED <<failure, phase, seg, tries, verdict, left, gate, capVars>>

Feed(s) == FeedStart(s) \/ FeedChunk(s) \/ FeedEnd(s) \/ FeedErr(s)

-----------------------------------------------------------------------------
(* The caps, and the switch between                                        *)

\* Nobody will read the response of s any more: its receiver was dropped.
ReceiverGone(s) ==
  LET c == ChainOf[s]
  IN  \/ s \notin Current(c)
      \/ phase[c] \in {"backoff", "finished", "over"}
      \/ /\ phase[c] \in {"flowing", "teardown", "closing", "joining"}
         /\ IF s = LastOf(c) THEN phase[c] # "flowing" ELSE feed[After(s)] \in {"ok", "fault"}

Read(s) ==
  /\ req[s] = "live" /\ got[s] > 0
  /\ got' = [got EXCEPT ![s] = @ - 1]
  /\ UNCHANGED <<failure, chainVars, feedVars, req, fed, out>>

\* A chunk of the response; where its receiver is gone the switch cancels the
\* request instead.
Write(s) ==
  /\ req[s] = "live" /\ out[s] < Window
  /\ IF ReceiverGone(s)
       THEN req' = [req EXCEPT ![s] = "cancelled"] /\ UNCHANGED out
       ELSE out' = [out EXCEPT ![s] = @ + 1] /\ UNCHANGED req
  /\ UNCHANGED <<failure, chainVars, feedVars, got, fed>>

\* END with success: when it has read all its input, or early.
End(s) ==
  /\ req[s] = "live"
  /\ (fed[s] /\ got[s] = 0) \/ s \in Early
  /\ req' = [req EXCEPT ![s] = "ended"]
  /\ UNCHANGED <<failure, chainVars, feedVars, got, fed, out>>

\* ERR, of the cap or of the switch for a cap that died.
Err(s) ==
  /\ req[s] = "live" /\ Fails[s] # "never"
  /\ req' = [req EXCEPT ![s] = "erred"]
  /\ UNCHANGED <<failure, chainVars, feedVars, got, fed, out>>

-----------------------------------------------------------------------------
ChainStep(c) == \/ Start(c) \/ Begin(c) \/ Spawn(c) \/ Decide(c) \/ Teardown(c)
                \/ CloseGates(c) \/ Join(c) \/ Backoff(c) \/ Reap(c)

Next == \/ \E c \in Chains : ChainStep(c) \/ Open(c) \/ Refuse(c) \/ Collect(c)
        \/ \E s \in Steps : Feed(s) \/ Read(s) \/ Write(s) \/ End(s) \/ Err(s)

Spec == Init /\ [][Next]_vars

\* Tasks run and caps that can end do; a request that waits for slots has its
\* turn whenever they keep coming free (Admission's NotOvertaken).
Fairness == /\ \A c \in Chains : WF_vars(ChainStep(c)) /\ WF_vars(Collect(c)) /\ SF_vars(Open(c))
            /\ \A s \in Steps : WF_vars(Feed(s)) /\ WF_vars(Read(s)) /\ WF_vars(End(s))
FairSpec == Spec /\ Fairness

-----------------------------------------------------------------------------
(* Properties                                                              *)

\* Errors, and those of them that tasks report.
Errors(kinds) == [step : Steps, class : Classes, kind : kinds]
TypeOK ==
  /\ failure \in Errors({"own", "refused", "consequence"}) \cup {None}
  /\ phase \in [Chains -> {"unstarted", "ready", "opening", "flowing", "teardown", "closing",
                           "joining", "backoff", "finished", "over"}]
  /\ seg \in [Chains -> Nat] /\ \A c \in Chains : seg[c] \in Cuts[c]
  /\ tries \in [Chains -> Nat]
  /\ verdict \in [Chains -> Errors({"own", "refused", "consequence", "collateral"})
                            \cup {None, Ok, Absent}]
  /\ faults \in [Chains -> Seq(Errors({"own", "consequence"}))]
  /\ feed \in [Steps -> {"idle", "running", "ok", "fault"}]
  /\ left \in [Steps -> Nat]
  /\ gate \in [Steps -> {"none", "open", "closed"}]
  /\ req \in [Steps -> {"none", "live", "ended", "erred", "cancelled"}]
  /\ got \in [Steps -> Nat] /\ fed \in [Steps -> BOOLEAN] /\ out \in [Steps -> Nat]

\* A cap that had ENDed before it was sent the END of its input.
EndedEarly(s) == req[s] = "ended" /\ ~fed[s]

\* A step of a chain that is done, or was in an earlier segment, still runs.
LeftRunning(s) == LET c == ChainOf[s]
                  IN  req[s] = "live" /\ (phase[c] \in {"backoff", "finished", "over"} \/ Place[s] < seg[c])

\* A request that outlives its segment would hold its slots for nobody.  A
\* chain leaves one running in two cases only: a later request of its segment
\* was refused, after which the segment returns without a teardown; or a later
\* cap ENDed before its input did, and the END of the last step is trusted.
NothingLeft ==
  \A s \in Steps : LeftRunning(s) =>
    LET c == ChainOf[s]
    IN  \/ verdict[c].kind = "refused" /\ Place[s] < Place[verdict[c].step]
        \/ \E t \in StepsOf(c) : EndedEarly(t) /\ Place[s] < Place[t]

\* What a chain returns as a failure, attempts again or tolerates comes from a
\* step of its own: a cap that failed, a request that was refused, or a cap
\* that ENDed before its input did.  The biased race may take a consequence
\* for the verdict, and its policy is then applied to it; but a chain that is
\* only stopped for a failure elsewhere never answers for what its tasks meet.
FailureHasCause ==
  \A c \in Chains :
    phase[c] \in {"backoff", "finished", "over"} /\ verdict[c].kind \in {"own", "consequence", "absent"} =>
      \E s \in StepsOf(c) : req[s] = "erred" \/ (s \in Refusable /\ req[s] = "none") \/ EndedEarly(s)

\* What the forwarders' comment claims: a cap that ends before it drains its
\* input is no failure, so a chain fails by a cap's ERR or a refusal only.
OnlyErrorsFail ==
  \A c \in Chains :
    phase[c] \in {"backoff", "finished", "over"} /\ verdict[c].kind \in {"own", "consequence", "absent"} =>
      \E s \in StepsOf(c) : req[s] = "erred" \/ (s \in Refusable /\ req[s] = "none")

\* The plan takes bounded pools in one order: along each chain they go up in
\* it, or stay the same from step to step, where the chain is cut.
PoolsInOrder ==
  \E rank \in [DOMAIN Capacity -> 1..Cardinality(DOMAIN Capacity)] :
    \A c \in Chains : \A i, j \in DOMAIN Plan[c] : i < j =>
      \A p \in PoolsOf[Plan[c][i]], q \in PoolsOf[Plan[c][j]] :
        \/ Capacity[p] = 0 \/ Capacity[q] = 0
        \/ rank[p] < rank[q]
        \/ p = q /\ \A k \in i..j : p \in PoolsOf[Plan[c][k]]

\* The scope returns: no request waits for a slot that its own chain holds,
\* no task keeps the join of its chain waiting, and a failure ends all that
\* runs beside it.  This needs pools in one order: chains that take them in
\* opposite orders, or come back to one, can wait for each other for ever.  A
\* request left running may hold for ever the slots others wait for.  And
\* where the last cap ENDed early nothing is torn down: the gates are closed
\* before an earlier cap has its input, which then never ENDs, and the join
\* waits for its forwarder.
Returned == \A c \in Chains : phase[c] = "over" \/ (phase[c] = "unstarted" /\ Raised)
RunEnds == PoolsInOrder => <>(Returned \/ \E s \in Steps : LeftRunning(s) \/ EndedEarly(s))
=============================================================================
