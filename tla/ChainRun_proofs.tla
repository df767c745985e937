-------------------------- MODULE ChainRun_proofs --------------------------
(***************************************************************************)
(* For any plan, pools, policies and window, and any caps: a chain leaves  *)
(* a request running in the two cases that NothingLeft names only, and     *)
(* what a chain returns as a failure has a cause in one of its own steps.  *)
(***************************************************************************)
EXTENDS ChainRun, SequenceTheorems, WellFoundedInduction, TLAPS

\* Where a step is in its chain: in the segment that runs, before it or after.
Here(s) == Place[s] \in Part(ChainOf[s])
Past(s) == Place[s] < seg[ChainOf[s]]
Untouched(s) == req[s] = "none" /\ feed[s] = "idle" /\ ~fed[s] /\ gate[s] = "none"
Running == {"flowing", "teardown", "closing", "joining"}
Done == {"backoff", "finished", "over"}

\* A cap that has erred is one that can.
ErredCan == \A s \in Steps : req[s] = "erred" => Fails[s] # "never"
TypeInv == TypeOK /\ ErredCan

\* A later cap of the chain ENDed before its input did.
Cut(s) == \E t \in StepsOf(ChainOf[s]) : EndedEarly(t) /\ Place[s] < Place[t]

\* What has been done to a step follows from how far its chain is.
Progress(s) ==
  LET c == ChainOf[s] IN
    /\ Past(s) => req[s] # "none" /\ (req[s] = "live" => Cut(s))
    /\ ~Past(s) /\ (~Here(s) \/ phase[c] \in {"unstarted", "ready"}) => Untouched(s)
    /\ Here(s) /\ phase[c] = "opening" =>
         req[s] # "cancelled" /\ feed[s] = "idle" /\ ~fed[s] /\ gate[s] = "none"
    /\ Here(s) /\ phase[c] \in Running => req[s] # "none"
    /\ Here(s) /\ phase[c] = "flowing" => gate[s] # "closed"
    /\ feed[s] = "running" => Here(s) /\ phase[c] \in Running /\ ~fed[s]

\* The END of a step's input is that of a source that had ended.
EndInTurn(s) ==
  /\ fed[s] /\ s \notin Heads => req[Before(s)] = "ended"
  /\ Here(s) /\ phase[ChainOf[s]] = "flowing" /\ feed[s] = "ok" => fed[s]

\* What has been decided of a chain has its cause in a step.
Caused(c) == \E s \in StepsOf(c) : req[s] = "erred" \/ EndedEarly(s)
Shaken(c) == faults[c] # <<>> \/ \E s \in Current(c) : feed[s] = "fault" \/ req[s] = "cancelled"
Decided(c) ==
  /\ phase[c] = "teardown" => verdict[c].kind \in {"own", "consequence", "collateral"}
  /\ phase[c] \in {"closing", "joining"} => verdict[c].kind \in {"own", "consequence", "collateral", "ok"}
  /\ phase[c] \in {"closing", "joining"} /\ verdict[c].kind = "ok" =>
       req[LastOf(c)] = "ended" /\ (faults[c] # <<>> => Caused(c))
  /\ phase[c] \notin Running => faults[c] = <<>>
  /\ phase[c] = "flowing" /\ Shaken(c) => Caused(c)
  /\ phase[c] \in {"teardown", "closing", "joining"} \cup Done /\ verdict[c].kind \in {"own", "consequence"}
       => Caused(c)
  /\ phase[c] \in Done /\ verdict[c].kind = "absent" =>
       Caused(c) \/ \E s \in StepsOf(c) : s \in Refusable /\ req[s] = "none"

\* Requests are opened in order, and those left when the gates are closed are
\* those of steps whose output a later cap did not wait for.
Orderly(c) ==
  /\ phase[c] = "opening" => \A i, j \in Part(c) :
       i < j /\ req[Plan[c][j]] # "none" => req[Plan[c][i]] # "none"
  /\ phase[c] \in {"closing", "joining"} => \A s \in Current(c) : req[s] = "live" => Cut(s)

Inv(c) == (\A s \in StepsOf(c) : Progress(s) /\ EndInTurn(s)) /\ Decided(c) /\ Orderly(c)
IInv == TypeInv /\ \A c \in Chains : Inv(c)

-----------------------------------------------------------------------------
(* Positions                                                               *)

LEMMA FirstIs ==
  ASSUME NEW I \in SUBSET Nat, I # {}
  PROVE  First(I) \in I /\ \A j \in I : First(I) =< j
<1>1. IsWellFoundedOn(OpToRel(<, Nat), Nat)
  BY NatLessThanWellFounded
<1>2. PICK i \in I : \A j \in I : ~ (<<j, i>> \in OpToRel(<, Nat))
  BY <1>1, WFMin
<1>3. \A j \in I : ~(j < i)
  BY <1>2 DEF OpToRel
<1>4. \E k \in I : \A j \in I : k =< j
  BY <1>3
<1>5. QED  BY <1>4 DEF First

LEMMA FinalIs ==
  ASSUME NEW n \in Nat, NEW I \in SUBSET (1..n), I # {}
  PROVE  Final(I) \in I /\ \A j \in I : j =< Final(I)
<1> DEFINE U == {k \in Nat : \A j \in I : j =< k}
           m == First(U)
<1>1. n \in U /\ U \in SUBSET Nat
  OBVIOUS
<1>2. m \in U /\ \A k \in U : m =< k
  BY <1>1, FirstIs
<1> HIDE DEF m
<1>3. m \in I
  <2>1. SUFFICES ASSUME m \notin I PROVE FALSE
    OBVIOUS
  <2>2. m \in Nat /\ \A j \in I : j \in Nat /\ j < m /\ j >= 1
    BY <1>2, <2>1
  <2>3. m - 1 \in Nat /\ \A j \in I : j =< m - 1
    <3>1. PICK i \in I : i \in Nat /\ i < m /\ i >= 1
      BY <2>2
    <3>2. m - 1 \in Nat
      BY <2>2, <3>1
    <3>3. ASSUME NEW j \in I PROVE j =< m - 1
      BY <2>2, <3>2
    <3>4. QED  BY <3>2, <3>3
  <2>4. m - 1 \in U
    BY <2>3
  <2>5. ~(m =< m - 1)
    BY <2>2
  <2>6. QED  BY <1>2, <2>4, <2>5
<1>4. \E i \in I : \A j \in I : j =< i
  BY <1>2, <1>3
<1>5. QED  BY <1>4 DEF Final

LEMMA Positions ==
  ASSUME NEW c \in Chains
  PROVE  /\ Len(Plan[c]) \in Nat \ {0} /\ DOMAIN Plan[c] = 1..Len(Plan[c])
         /\ Cuts[c] \subseteq DOMAIN Plan[c] /\ 1 \in Cuts[c]
<1>1. Plan[c] \in Seq(StepsOf(c)) /\ Plan[c] # <<>>
  BY PlanAssumption
<1>2. Len(Plan[c]) \in Nat \ {0} /\ DOMAIN Plan[c] = 1..Len(Plan[c])
  BY <1>1, LenProperties, EmptySeq
<1>3. QED  BY <1>2 DEF Cuts

LEMMA StepAt ==
  ASSUME NEW c \in Chains, NEW i \in DOMAIN Plan[c]
  PROVE  /\ Plan[c][i] \in Steps /\ Plan[c][i] \in StepsOf(c)
         /\ ChainOf[Plan[c][i]] = c /\ Place[Plan[c][i]] = i
<1> DEFINE s == Plan[c][i]
<1>1. s \in Steps /\ s \in StepsOf(c)
  BY DEF Steps, StepsOf
<1>2. \A d \in Chains : s \in StepsOf(d) => d = c
  BY PlanAssumption DEF StepsOf
<1>3. ChainOf[s] = c
  BY <1>1, <1>2 DEF ChainOf
<1>4. \A j \in DOMAIN Plan[c] : Plan[c][j] = s => j = i
  BY PlanAssumption
<1>5. Place[s] = i
  BY <1>1, <1>3, <1>4 DEF Place
<1>6. QED  BY <1>1, <1>3, <1>5

LEMMA PlaceOf ==
  ASSUME NEW s \in Steps
  PROVE  /\ ChainOf[s] \in Chains /\ Place[s] \in DOMAIN Plan[ChainOf[s]]
         /\ Plan[ChainOf[s]][Place[s]] = s /\ s \in StepsOf(ChainOf[s])
<1>1. PICK c \in Chains : \E i \in DOMAIN Plan[c] : s = Plan[c][i]
  BY DEF Steps, StepsOf
<1>2. QED  BY <1>1, StepAt

LEMMA StepOf ==
  ASSUME NEW c \in Chains, NEW s
  PROVE  s \in StepsOf(c) <=> s \in Steps /\ ChainOf[s] = c
  BY StepAt, PlaceOf DEF StepsOf

\* The segment that runs is a piece of its chain that starts at a cut.
LEMMA PartIs ==
  ASSUME TypeOK, NEW c \in Chains
  PROVE  /\ seg[c] \in Cuts[c] /\ seg[c] \in Part(c) /\ Part(c) \subseteq DOMAIN Plan[c]
         /\ Part(c) = {i \in DOMAIN Plan[c] : seg[c] =< i /\ \A l \in Cuts[c] : seg[c] < l => i < l}
         /\ \A i \in Part(c) : seg[c] =< i
         /\ \A i \in Part(c), j \in DOMAIN Plan[c] : seg[c] =< j /\ j =< i => j \in Part(c)
         /\ \A i \in Part(c) : i \in Cuts[c] => i = seg[c]
<1>1. seg[c] \in Cuts[c] /\ Cuts[c] \subseteq DOMAIN Plan[c] /\ DOMAIN Plan[c] \subseteq Nat
  BY Positions DEF TypeOK
<1>2. Part(c) = {i \in DOMAIN Plan[c] : seg[c] =< i /\ \A l \in Cuts[c] : seg[c] < l => i < l}
  BY <1>1 DEF Part, Segments
<1>3. QED  BY <1>1, <1>2

LEMMA CurrentIs ==
  ASSUME TypeOK, NEW c \in Chains
  PROVE  \A s : s \in Current(c) <=> s \in Steps /\ ChainOf[s] = c /\ Here(s)
<1>1. Part(c) \subseteq DOMAIN Plan[c]
  BY PartIs
<1>2. QED  BY <1>1, StepAt, PlaceOf DEF Current, Here

LEMMA LastIs ==
  ASSUME TypeOK, NEW c \in Chains
  PROVE  /\ Final(Part(c)) \in Part(c) /\ \A i \in Part(c) : i =< Final(Part(c))
         /\ LastOf(c) \in Current(c) /\ Place[LastOf(c)] = Final(Part(c))
<1>1. Part(c) \in SUBSET (1..Len(Plan[c])) /\ Part(c) # {} /\ Len(Plan[c]) \in Nat
  BY PartIs, Positions
<1>2. Final(Part(c)) \in Part(c) /\ \A i \in Part(c) : i =< Final(Part(c))
  BY <1>1, FinalIs
<1>3. QED  BY <1>2, PartIs, StepAt DEF LastOf, Current

LEMMA HeadsIs ==
  ASSUME NEW s \in Steps
  PROVE  s \in Heads <=> Place[s] \in Cuts[ChainOf[s]]
<1>1. \A c \in Chains : \A i \in Cuts[c] : i \in DOMAIN Plan[c]
  BY Positions
<1>2. QED  BY <1>1, StepAt, PlaceOf DEF Heads

LEMMA BeforeIs ==
  ASSUME NEW s \in Steps, s \notin Heads
  PROVE  /\ Before(s) \in Steps /\ ChainOf[Before(s)] = ChainOf[s] /\ Place[Before(s)] = Place[s] - 1
<1> DEFINE c == ChainOf[s]
<1>1. c \in Chains /\ Place[s] \in 1..Len(Plan[c]) /\ Place[s] # 1 /\ Len(Plan[c]) \in Nat
  BY PlaceOf, HeadsIs, Positions
<1>2. Place[s] - 1 \in DOMAIN Plan[c]
  BY <1>1, Positions
<1>3. QED  BY <1>1, <1>2, StepAt DEF Before

LEMMA BeforeHere ==
  ASSUME TypeOK, NEW s \in Steps, s \notin Heads, Here(s)
  PROVE  Here(Before(s))
<1> DEFINE c == ChainOf[s]
<1>1. c \in Chains /\ Place[s] \in Part(c) /\ Place[s] # seg[c]
  BY PlaceOf, HeadsIs, PartIs DEF Here
<1>2. Before(s) \in Steps /\ ChainOf[Before(s)] = c /\ Place[Before(s)] = Place[s] - 1
  BY BeforeIs
<1>3. Place[Before(s)] \in DOMAIN Plan[c] /\ DOMAIN Plan[c] = 1..Len(Plan[c]) /\ Len(Plan[c]) \in Nat
  BY <1>1, <1>2, PlaceOf, Positions
<1>4. Place[s] \in DOMAIN Plan[c] /\ seg[c] \in DOMAIN Plan[c] /\ seg[c] =< Place[s]
  BY <1>1, PartIs
<1>5. seg[c] =< Place[Before(s)] /\ Place[Before(s)] =< Place[s]
  BY <1>1, <1>2, <1>3, <1>4
<1>6. QED  BY <1>1, <1>2, <1>3, <1>5, PartIs DEF Here

LEMMA AfterIs ==
  ASSUME TypeOK, NEW s \in Steps, Here(s), s # LastOf(ChainOf[s])
  PROVE  /\ After(s) \in Current(ChainOf[s]) /\ After(s) \notin Heads /\ Before(After(s)) = s
<1> DEFINE c == ChainOf[s]
           f == Final(Part(c))
<1>1. c \in Chains /\ Place[s] \in Part(c) /\ Plan[c][Place[s]] = s
  BY PlaceOf DEF Here
<1>2. f \in Part(c) /\ Place[s] =< f /\ Place[s] # f
  BY <1>1, LastIs DEF LastOf
<1>3. DOMAIN Plan[c] = 1..Len(Plan[c]) /\ Len(Plan[c]) \in Nat /\ f \in DOMAIN Plan[c]
      /\ Place[s] \in DOMAIN Plan[c] /\ seg[c] \in DOMAIN Plan[c] /\ seg[c] =< Place[s]
  BY <1>1, <1>2, PartIs, Positions
<1> HIDE DEF f, c
<1>4. Place[s] + 1 \in DOMAIN Plan[c] /\ seg[c] =< Place[s] + 1 /\ Place[s] + 1 =< f /\ Place[s] + 1 # seg[c]
  BY <1>2, <1>3
<1>5. Place[s] + 1 \in Part(c) /\ Place[s] + 1 \notin Cuts[c]
  BY <1>1, <1>2, <1>4, PartIs
<1>6. After(s) \in Steps /\ ChainOf[After(s)] = c /\ Place[After(s)] = Place[s] + 1
  BY <1>1, <1>4, StepAt DEF After, c
<1>7. After(s) \in Current(c) /\ After(s) \notin Heads
  BY <1>1, <1>5, <1>6, CurrentIs, HeadsIs DEF Here
<1>8. (Place[s] + 1) - 1 = Place[s]
  BY <1>3
<1>9. QED  BY <1>1, <1>6, <1>7, <1>8 DEF Before, c

\* Where a segment's last step has ended, so have the others, one before
\* another, unless a later one did not wait for its input.
LEMMA AllEnded ==
  ASSUME TypeOK, NEW c \in Chains, \A s \in StepsOf(c) : EndInTurn(s), req[LastOf(c)] = "ended"
  PROVE  \A s \in Current(c) : req[s] = "ended" \/ Cut(s)
<1> DEFINE S == {i \in Part(c) : req[Plan[c][i]] # "ended" /\ ~Cut(Plan[c][i])}
           m == Final(S)
           s == Plan[c][m]
<1>1. SUFFICES ASSUME S # {} PROVE FALSE
  BY DEF Current
<1>2. S \in SUBSET (1..Len(Plan[c])) /\ Len(Plan[c]) \in Nat /\ Part(c) \subseteq DOMAIN Plan[c]
  BY PartIs, Positions
<1>3. m \in S /\ \A j \in S : j =< m
  BY <1>1, <1>2, FinalIs
<1> HIDE DEF m
<1>4. m \in Part(c) /\ m \in DOMAIN Plan[c] /\ req[s] # "ended" /\ ~Cut(s) /\ m \in Nat
  BY <1>2, <1>3
<1>5. s \in Steps /\ ChainOf[s] = c /\ Place[s] = m /\ Here(s)
  BY <1>4, StepAt DEF Here
<1> HIDE DEF s
<1>6. s # LastOf(c)
  BY <1>4
<1> DEFINE a == After(s)
<1>7. a \in Current(c) /\ a \notin Heads /\ Before(a) = s
  BY <1>5, <1>6, AfterIs
<1>8. a \in StepsOf(c) /\ a \in Steps /\ ChainOf[a] = c
  BY <1>7, CurrentIs, StepOf
<1>9. PICK j \in Part(c) : a = Plan[c][j]
  BY <1>7 DEF Current
<1> HIDE DEF a
<1>10. Place[a] = j /\ j = m + 1
  <2>1. Place[a] = j
    BY <1>2, <1>9, StepAt
  <2>2. Place[Before(a)] = Place[a] - 1
    BY <1>7, <1>8, BeforeIs
  <2>3. j \in Nat
    BY <1>2, <1>9, Positions
  <2>4. QED  BY <1>4, <1>5, <1>7, <2>1, <2>2, <2>3
<1>11. ~EndedEarly(a)
  BY <1>4, <1>5, <1>8, <1>10 DEF Cut
<1>12. req[a] # "ended"
  BY <1>4, <1>7, <1>8, <1>11 DEF EndInTurn, EndedEarly
<1>13. ~Cut(a)
  <2>1. SUFFICES ASSUME Cut(a) PROVE FALSE
    OBVIOUS
  <2>2. PICK t \in StepsOf(c) : EndedEarly(t) /\ Place[a] < Place[t]
    BY <1>8, <2>1 DEF Cut
  <2>3. Place[t] \in Nat
    BY <2>2, StepOf, PlaceOf, Positions
  <2>4. Place[s] < Place[t]
    BY <1>4, <1>5, <1>10, <2>2, <2>3
  <2>5. QED  BY <1>4, <1>5, <2>2, <2>4 DEF Cut
<1>14. m + 1 \in S
  BY <1>9, <1>10, <1>12, <1>13
<1>15. QED  BY <1>3, <1>4, <1>14

\* The next segment starts where this one ends.
LEMMA NextSegment ==
  ASSUME TypeOK, NEW c \in Chains, Final(Part(c)) < Len(Plan[c])
  PROVE  /\ Final(Part(c)) + 1 \in Cuts[c]
         /\ \A i \in DOMAIN Plan[c] : i < Final(Part(c)) + 1 <=> i < seg[c] \/ i \in Part(c)
<1> DEFINE f == Final(Part(c))
<1>1. DOMAIN Plan[c] = 1..Len(Plan[c]) /\ Len(Plan[c]) \in Nat
  BY Positions
<1>2. f \in Part(c) /\ f \in DOMAIN Plan[c] /\ \A i \in Part(c) : i =< f
  BY LastIs, PartIs
<1>3. seg[c] \in DOMAIN Plan[c] /\ seg[c] =< f /\ Cuts[c] \subseteq DOMAIN Plan[c]
  BY <1>2, PartIs, Positions
<1> HIDE DEF f
<1>4. f + 1 \in DOMAIN Plan[c] /\ f + 1 \notin Part(c) /\ seg[c] =< f + 1
  BY <1>1, <1>2, <1>3 DEF f
<1>5. PICK l \in Cuts[c] : seg[c] < l /\ ~(f + 1 < l)
  BY <1>4, PartIs
<1>6. f < l
  BY <1>2, <1>5, PartIs
<1>7. l = f + 1
  BY <1>1, <1>2, <1>3, <1>5, <1>6
<1>8. \A i \in DOMAIN Plan[c] : i < f + 1 <=> i < seg[c] \/ i \in Part(c)
  BY <1>1, <1>2, <1>3, PartIs
<1>9. QED  BY <1>5, <1>7, <1>8 DEF f

-----------------------------------------------------------------------------
(* Types                                                                   *)

LEMMA ErrorTyped ==
  ASSUME NEW s \in Steps, NEW class \in Classes, NEW kinds, NEW kind \in kinds
  PROVE  Error(s, class, kind) \in Errors(kinds)
  BY DEF Error, Errors

\* What a failed attempt does to its chain.
LEMMA FailIs ==
  ASSUME TypeOK, NEW c \in Chains, NEW e \in Errors({"own", "refused", "consequence", "collateral"}),
         Fail(c, e)
  PROVE  \E p \in {"backoff", "finished"}, v \in {Absent, e} :
           /\ phase' = [phase EXCEPT ![c] = p] /\ verdict' = [verdict EXCEPT ![c] = v]
           /\ tries' \in [Chains -> Nat]
           /\ e.kind = "collateral" => v = e
<1> DEFINE mine == e.kind # "collateral" /\ e.class # "User"
           again == mine /\ e.class = "Internal" /\ tries[c] < Retries[c]
           p == IF again THEN "backoff" ELSE "finished"
           v == IF ~again /\ mine /\ c \in Tolerated THEN Absent ELSE e
<1>1. phase' = [phase EXCEPT ![c] = p] /\ verdict' = [verdict EXCEPT ![c] = v]
      /\ tries' = [tries EXCEPT ![c] = IF again THEN tries[c] + 1 ELSE tries[c]]
  BY DEF Fail, TypeOK
<1>2. e.kind = "collateral" => v = e
  OBVIOUS
<1>3. tries' \in [Chains -> Nat]
  BY <1>1 DEF TypeOK
<1>4. p \in {"backoff", "finished"} /\ v \in {Absent, e}
  OBVIOUS
<1> HIDE DEF p, v
<1>5. QED  BY <1>1, <1>2, <1>3, <1>4

LEMMA FailTyped ==
  ASSUME TypeOK, NEW c \in Chains, NEW e \in Errors({"own", "refused", "consequence", "collateral"}),
         Fail(c, e)
  PROVE  /\ phase' \in [Chains -> {"unstarted", "ready", "opening", "flowing", "teardown", "closing",
                                   "joining", "backoff", "finished", "over"}]
         /\ verdict' \in [Chains -> Errors({"own", "refused", "consequence", "collateral"})
                                      \cup {None, Ok, Absent}]
         /\ tries' \in [Chains -> Nat]
<1>1. PICK p \in {"backoff", "finished"}, v \in {Absent, e} :
           /\ phase' = [phase EXCEPT ![c] = p] /\ verdict' = [verdict EXCEPT ![c] = v]
           /\ tries' \in [Chains -> Nat]
  BY FailIs
<1>2. QED  BY <1>1 DEF TypeOK

LEMMA StoppedTyped ==
  ASSUME TypeOK, NEW c \in Chains
  PROVE  /\ Stopped(c) \in Errors({"own", "refused", "consequence", "collateral"})
         /\ Stopped(c).kind = "collateral"
<1>1. Plan[c][seg[c]] \in Steps
  BY PartIs, Positions, StepAt
<1>2. QED  BY <1>1 DEF Stopped, Error, Errors, Classes

\* The first step whose request is not opened yet.
LEMMA NextOfIs ==
  ASSUME TypeOK, NEW c \in Chains, Unopened(c) # {}
  PROVE  /\ First(Unopened(c)) \in Part(c) /\ NextOf(c) = Plan[c][First(Unopened(c))]
         /\ NextOf(c) \in Current(c) /\ NextOf(c) \in StepsOf(c) /\ req[NextOf(c)] = "none"
         /\ \A i \in Part(c) : i < First(Unopened(c)) => req[Plan[c][i]] # "none"
<1>1. Part(c) \subseteq DOMAIN Plan[c] /\ DOMAIN Plan[c] \subseteq Nat
  BY PartIs, Positions
<1>2. Unopened(c) \in SUBSET Nat
  BY <1>1 DEF Unopened
<1>3. First(Unopened(c)) \in Unopened(c) /\ \A j \in Unopened(c) : First(Unopened(c)) =< j
  BY <1>2, FirstIs
<1> DEFINE i == First(Unopened(c))
<1> HIDE DEF i
<1>4. i \in Part(c) /\ req[Plan[c][i]] = "none" /\ i \in Nat
  BY <1>2, <1>3 DEF Unopened, i
<1>5. \A j \in Part(c) : j < i => req[Plan[c][j]] # "none"
  BY <1>1, <1>3, <1>4 DEF Unopened, i
<1>6. Plan[c][i] \in Current(c) /\ Plan[c][i] \in StepsOf(c)
  BY <1>1, <1>4 DEF Current, StepsOf
<1>7. QED  BY <1>4, <1>5, <1>6 DEF NextOf, i

LEMMA DoomedIs ==
  ASSUME TypeOK, NEW c \in Chains, Doomed(c) # {}
  PROVE  /\ Plan[c][First(Doomed(c))] \in Current(c) /\ Plan[c][First(Doomed(c))] \in StepsOf(c)
         /\ req[Plan[c][First(Doomed(c))]] = "live"
<1>1. Part(c) \subseteq DOMAIN Plan[c] /\ DOMAIN Plan[c] \subseteq Nat
  BY PartIs, Positions
<1>2. Doomed(c) \in SUBSET Nat
  BY <1>1 DEF Doomed
<1>3. First(Doomed(c)) \in Doomed(c)
  BY <1>2, FirstIs
<1>4. QED  BY <1>1, <1>3 DEF Doomed, Current, StepsOf

LEMMA StepsIn ==
  ASSUME NEW c \in Chains
  PROVE  StepsOf(c) \subseteq Steps
  BY StepOf

\* A chain's step.
LEMMA ChainTyped ==
  ASSUME TypeInv, NEW c \in Chains,
         ChainStep(c) \/ Open(c) \/ Refuse(c) \/ Collect(c)
  PROVE  TypeInv'
<1> USE DEF chainVars, feedVars, capVars
<1>0. /\ StepsOf(c) \subseteq Steps /\ LastOf(c) \in Steps /\ TypeOK /\ Current(c) \subseteq StepsOf(c)
      /\ Current(c) \subseteq Steps
  BY StepsIn, LastIs, CurrentIs, StepOf DEF TypeInv
<1>1. CASE Start(c)
  BY <1>1 DEF Start, TypeInv, TypeOK, ErredCan
<1>2. CASE Begin(c)
  <2>1. CASE Raised
    <3>1. Fail(c, Stopped(c))
      BY <1>2, <2>1 DEF Begin
    <3>2. QED  BY <1>0, <1>2, <3>1, StoppedTyped, FailTyped DEF Begin, TypeInv, TypeOK, ErredCan
  <2>2. CASE ~Raised
    BY <1>2, <2>2 DEF Begin, TypeInv, TypeOK, ErredCan
  <2>3. QED  BY <2>1, <2>2
<1>3. CASE Spawn(c)
  <2>1. feed' \in [Steps -> {"idle", "running", "ok", "fault"}]
    BY <1>3 DEF Spawn, TypeInv, TypeOK
  <2>2. QED  BY <1>3, <2>1 DEF Spawn, TypeInv, TypeOK, ErredCan
<1>4. CASE Decide(c)
  <2>1. /\ UNCHANGED <<failure, seg, tries, feedVars, capVars>>
        /\ \E v, p : /\ verdict' = [verdict EXCEPT ![c] = v] /\ phase' = [phase EXCEPT ![c] = p]
                     /\ p \in {"teardown", "closing"}
                     /\ v \in Errors({"own", "refused", "consequence", "collateral"}) \cup {Ok}
        /\ faults' \in [Chains -> Seq(Errors({"own", "consequence"}))]
    <3>1. CASE faults[c] # <<>>
      <4>1. faults[c] \in Seq(Errors({"own", "consequence"}))
        BY DEF TypeInv, TypeOK
      <4>2. Head(faults[c]) \in Errors({"own", "consequence"}) /\ Tail(faults[c]) \in Seq(Errors({"own", "consequence"}))
        BY <3>1, <4>1, HeadTailProperties
      <4>3. Head(faults[c]) \in Errors({"own", "refused", "consequence", "collateral"})
        BY <4>2 DEF Errors
      <4>4. /\ verdict' = [verdict EXCEPT ![c] = Head(faults[c])] /\ phase' = [phase EXCEPT ![c] = "teardown"]
            /\ faults' = [faults EXCEPT ![c] = Tail(faults[c])]
        BY <1>4, <3>1 DEF Decide, TypeInv, TypeOK
      <4>5. QED  BY <1>4, <4>2, <4>3, <4>4 DEF Decide, TypeInv, TypeOK
    <3>2. CASE faults[c] = <<>> /\ Raised
      <4>1. Stopped(c) \in Errors({"own", "refused", "consequence", "collateral"})
        BY <1>0, StoppedTyped
      <4>2. QED  BY <1>4, <3>2, <4>1 DEF Decide, TypeInv, TypeOK
    <3>3. CASE faults[c] = <<>> /\ ~Raised
      <4>1. req[LastOf(c)] = "ended" \/ req[LastOf(c)] = "erred"
        BY <1>4, <3>3 DEF Decide
      <4>2. CASE req[LastOf(c)] = "ended"
        BY <1>4, <3>3, <4>2 DEF Decide, TypeInv, TypeOK
      <4>3. CASE req[LastOf(c)] = "erred"
        <5>1. Fails[LastOf(c)] \in Classes
          BY <1>0, <4>3, CapAssumption DEF TypeInv, ErredCan
        <5>2. Error(LastOf(c), Fails[LastOf(c)], "own")
                \in Errors({"own", "refused", "consequence", "collateral"})
          BY <1>0, <5>1, ErrorTyped
        <5>3. QED  BY <1>4, <3>3, <4>3, <5>2 DEF Decide, TypeInv, TypeOK
      <4>4. QED  BY <4>1, <4>2, <4>3
    <3>4. QED  BY <3>1, <3>2, <3>3
  <2>2. PICK v, p : /\ verdict' = [verdict EXCEPT ![c] = v] /\ phase' = [phase EXCEPT ![c] = p]
                    /\ p \in {"teardown", "closing"}
                    /\ v \in Errors({"own", "refused", "consequence", "collateral"}) \cup {Ok}
    BY <2>1
  <2>3. phase' \in [Chains -> {"unstarted", "ready", "opening", "flowing", "teardown", "closing",
                               "joining", "backoff", "finished", "over"}]
    BY <2>2 DEF TypeInv, TypeOK
  <2>4. verdict' \in [Chains -> Errors({"own", "refused", "consequence", "collateral"})
                                  \cup {None, Ok, Absent}]
    BY <2>2 DEF TypeInv, TypeOK
  <2>5. QED  BY <2>1, <2>3, <2>4 DEF TypeInv, TypeOK, ErredCan
<1>5. CASE Teardown(c)
  <2>1. CASE Doomed(c) = {}
    BY <1>5, <2>1 DEF Teardown, TypeInv, TypeOK, ErredCan
  <2>2. CASE Doomed(c) # {}
    <3>1. PICK s \in Steps : req' = [req EXCEPT ![s] = "cancelled"]
      BY <1>0, <1>5, <2>2, DoomedIs DEF Teardown
    <3>2. QED  BY <1>5, <2>2, <3>1 DEF Teardown, TypeInv, TypeOK, ErredCan
  <2>3. QED  BY <2>1, <2>2
<1>6. CASE CloseGates(c)
  <2>1. gate' \in [Steps -> {"none", "open", "closed"}]
    BY <1>6 DEF CloseGates, TypeInv, TypeOK
  <2>2. QED  BY <1>6, <2>1 DEF CloseGates, TypeInv, TypeOK, ErredCan
<1>7. CASE Join(c)
  <2>1. faults' \in [Chains -> Seq(Errors({"own", "consequence"}))]
    <3>1. <<>> \in Seq(Errors({"own", "consequence"}))
      BY EmptySeq
    <3>2. QED  BY <1>7, <3>1 DEF Join, TypeInv, TypeOK
  <2>2. verdict[c] \in Errors({"own", "refused", "consequence", "collateral"}) \cup {None, Ok, Absent}
    BY DEF TypeInv, TypeOK
  <2>3. CASE IsError(verdict[c])
    <3>1. verdict[c] \in Errors({"own", "refused", "consequence", "collateral"})
      BY <2>2, <2>3 DEF IsError, None, Ok, Absent
    <3>2. Fail(c, verdict[c]) /\ UNCHANGED <<seg, failure, feedVars, capVars>>
      BY <1>7, <2>3 DEF Join, IsError
    <3>3. QED  BY <1>0, <2>1, <3>1, <3>2, FailTyped DEF TypeInv, TypeOK, ErredCan
  <2>4. CASE ~IsError(verdict[c]) /\ faults[c] # <<>>
    <3>1. faults[c] \in Seq(Errors({"own", "consequence"}))
      BY DEF TypeInv, TypeOK
    <3>2. Head(faults[c]) \in Errors({"own", "consequence"})
      BY <2>4, <3>1, HeadTailProperties
    <3>3. Head(faults[c]) \in Errors({"own", "refused", "consequence", "collateral"})
      BY <3>2 DEF Errors
    <3>4. /\ verdict' = [verdict EXCEPT ![c] = Head(faults[c])] /\ phase' = [phase EXCEPT ![c] = "teardown"]
          /\ UNCHANGED <<failure, seg, tries, feedVars, capVars>>
      BY <1>7, <2>4 DEF Join
    <3>5. QED  BY <2>1, <3>3, <3>4 DEF TypeInv, TypeOK, ErredCan
  <2>5. CASE ~IsError(verdict[c]) /\ faults[c] = <<>>
    <3>1. UNCHANGED <<failure, tries, verdict, feedVars, capVars>>
      BY <1>7, <2>5 DEF Join
    <3>2. CASE Final(Part(c)) < Len(Plan[c])
      <4>1. Final(Part(c)) + 1 \in Cuts[c] /\ Cuts[c] \subseteq Nat
        BY <1>0, <3>2, NextSegment, Positions
      <4>2. seg' = [seg EXCEPT ![c] = Final(Part(c)) + 1] /\ phase' = [phase EXCEPT ![c] = "ready"]
        BY <1>7, <2>5, <3>2 DEF Join
      <4>3. seg' \in [Chains -> Nat] /\ \A d \in Chains : seg'[d] \in Cuts[d]
        BY <4>1, <4>2 DEF TypeInv, TypeOK
      <4>4. QED  BY <2>1, <3>1, <4>2, <4>3 DEF TypeInv, TypeOK, ErredCan
    <3>3. CASE ~(Final(Part(c)) < Len(Plan[c]))
      <4>1. seg' = seg /\ phase' = [phase EXCEPT ![c] = "finished"]
        BY <1>7, <2>5, <3>3 DEF Join
      <4>2. QED  BY <2>1, <3>1, <4>1 DEF TypeInv, TypeOK, ErredCan
    <3>4. QED  BY <3>2, <3>3
  <2>6. QED  BY <2>3, <2>4, <2>5
<1>8. CASE Backoff(c)
  <2>1. CASE phase' = [phase EXCEPT ![c] = "finished"] /\ verdict' = [verdict EXCEPT ![c] = Stopped(c)]
             /\ UNCHANGED <<seg, feedVars, capVars>>
    BY <1>0, <1>8, <2>1, StoppedTyped DEF Backoff, TypeInv, TypeOK, ErredCan
  <2>2. CASE phase' = [phase EXCEPT ![c] = "ready"]
    <3> DEFINE Renew(f, v) == [s \in Steps |-> IF s \in StepsOf(c) THEN v ELSE f[s]]
    <3>1. /\ verdict' = [verdict EXCEPT ![c] = None] /\ seg' = [seg EXCEPT ![c] = 1]
          /\ feed' = Renew(feed, "idle") /\ left' = Renew(left, Chunks)
          /\ gate' = Renew(gate, "none") /\ req' = Renew(req, "none")
          /\ got' = Renew(got, 0) /\ fed' = Renew(fed, FALSE) /\ out' = Renew(out, 0)
          /\ UNCHANGED <<failure, tries, faults>>
      <4>1. phase'[c] = "ready"
        BY <2>2 DEF TypeInv, TypeOK
      <4>2. QED  BY <1>8, <4>1 DEF Backoff, TypeInv, TypeOK
    <3>2. 1 \in Cuts[c]
      BY Positions
    <3>3. seg' \in [Chains -> Nat] /\ \A d \in Chains : seg'[d] \in Cuts[d]
      BY <3>1, <3>2 DEF TypeInv, TypeOK
    <3>4. /\ feed' \in [Steps -> {"idle", "running", "ok", "fault"}] /\ left' \in [Steps -> Nat]
          /\ gate' \in [Steps -> {"none", "open", "closed"}]
          /\ req' \in [Steps -> {"none", "live", "ended", "erred", "cancelled"}]
          /\ got' \in [Steps -> Nat] /\ fed' \in [Steps -> BOOLEAN] /\ out' \in [Steps -> Nat]
      BY <3>1, BoundAssumption DEF TypeInv, TypeOK
    <3>5. ErredCan'
      BY <3>1 DEF TypeInv, ErredCan
    <3>6. QED  BY <2>2, <3>1, <3>3, <3>4, <3>5 DEF TypeInv, TypeOK
  <2>3. QED  BY <1>8, <2>1, <2>2 DEF Backoff
<1>9. CASE Reap(c)
  <2>1. verdict[c] \in Errors({"own", "refused", "consequence", "collateral"}) \cup {None, Ok, Absent}
    BY DEF TypeInv, TypeOK
  <2>2. IsError(verdict[c]) /\ verdict[c].kind # "collateral" =>
          verdict[c] \in Errors({"own", "refused", "consequence"})
    BY <2>1 DEF IsError, None, Ok, Absent, Errors
  <2>3. failure' \in Errors({"own", "refused", "consequence"}) \cup {None}
    BY <1>9, <2>2 DEF Reap, TypeInv, TypeOK
  <2>4. QED  BY <1>9, <2>3 DEF Reap, TypeInv, TypeOK, ErredCan
<1>10. CASE Open(c)
  <2>1. PICK s \in Steps : req' = [req EXCEPT ![s] = "live"]
    BY <1>0, <1>10, NextOfIs DEF Open
  <2>2. QED  BY <1>10, <2>1 DEF Open, TypeInv, TypeOK, ErredCan
<1>11. CASE Refuse(c)
  <2>1. Unopened(c) # {} /\ Fail(c, Error(NextOf(c), "Internal", "refused"))
    BY <1>11 DEF Refuse
  <2>2. NextOf(c) \in Steps
    BY <1>0, <2>1, NextOfIs
  <2>3. Error(NextOf(c), "Internal", "refused") \in Errors({"own", "refused", "consequence", "collateral"})
    BY <2>2, ErrorTyped DEF Classes
  <2>4. QED  BY <1>0, <1>11, <2>1, <2>3, FailTyped DEF Refuse, TypeInv, TypeOK, ErredCan
<1>12. CASE Collect(c)
  <2>1. out' \in [Steps -> Nat]
    BY <1>0, <1>12 DEF Collect, TypeInv, TypeOK
  <2>2. QED  BY <1>12, <2>1 DEF Collect, TypeInv, TypeOK, ErredCan
<1>13. QED  BY <1>1, <1>2, <1>3, <1>4, <1>5, <1>6, <1>7, <1>8, <1>9, <1>10, <1>11, <1>12 DEF ChainStep

\* The step of a task that feeds a step, and of a cap.
LEMMA StepTyped ==
  ASSUME TypeInv, NEW s \in Steps, Feed(s) \/ Read(s) \/ Write(s) \/ End(s) \/ Err(s)
  PROVE  TypeInv'
<1> USE DEF chainVars, feedVars, capVars
<1>0. /\ ChainOf[s] \in Chains /\ TypeOK /\ Blamed(s) \in Steps
      /\ s \notin Heads => Before(s) \in Steps
  BY PlaceOf, BeforeIs DEF TypeInv, Blamed
<1>1. ASSUME NEW e \in Errors({"own", "consequence"}), Faulted(s, e)
      PROVE  /\ faults' \in [Chains -> Seq(Errors({"own", "consequence"}))]
             /\ feed' \in [Steps -> {"idle", "running", "ok", "fault"}]
  <2>1. Append(faults[ChainOf[s]], e) \in Seq(Errors({"own", "consequence"}))
    BY <1>0, AppendProperties DEF TypeOK
  <2>2. QED  BY <1>0, <1>1, <2>1 DEF Faulted, TypeOK
<1>2. /\ Broken(s) \in Errors({"own", "consequence"}) /\ Broken(Blamed(s)) \in Errors({"own", "consequence"})
      /\ s \notin Heads => Broken(Before(s)) \in Errors({"own", "consequence"})
  BY <1>0, ErrorTyped DEF Broken, Classes
<1>3. CASE FeedStart(s)
  <2>1. /\ faults' \in [Chains -> Seq(Errors({"own", "consequence"}))]
        /\ feed' \in [Steps -> {"idle", "running", "ok", "fault"}]
    BY <1>1, <1>2, <1>3 DEF FeedStart, TypeInv, TypeOK
  <2>2. QED  BY <1>3, <2>1 DEF FeedStart, TypeInv, TypeOK, ErredCan
<1>4. CASE FeedChunk(s)
  <2>1. /\ faults' \in [Chains -> Seq(Errors({"own", "consequence"}))]
        /\ feed' \in [Steps -> {"idle", "running", "ok", "fault"}]
    BY <1>1, <1>2, <1>4 DEF FeedChunk, TypeInv, TypeOK
  <2>2. got' \in [Steps -> Nat] /\ left' \in [Steps -> Nat] /\ out' \in [Steps -> Nat]
    <3>1. got' = got \/ got' = [got EXCEPT ![s] = got[s] + 1]
      BY <1>4 DEF FeedChunk
    <3>2. left' = left \/ (left[s] > 0 /\ left' = [left EXCEPT ![s] = left[s] - 1])
      BY <1>4 DEF FeedChunk, Supply
    <3>3. out' = out \/ (s \notin Heads /\ out[Before(s)] > 0 /\ out' = [out EXCEPT ![Before(s)] = out[Before(s)] - 1])
      BY <1>4 DEF FeedChunk, Supply
    <3>. got \in [Steps -> Nat] /\ left \in [Steps -> Nat] /\ out \in [Steps -> Nat]
      BY <1>0 DEF TypeOK
    <3>4. got' \in [Steps -> Nat]
      BY <3>1
    <3>5. left' \in [Steps -> Nat]
      <4>1. left[s] > 0 => left[s] - 1 \in Nat
        OBVIOUS
      <4>2. QED  BY <3>2, <4>1
    <3>6. out' \in [Steps -> Nat]
      <4>1. s \notin Heads /\ out[Before(s)] > 0 => out[Before(s)] - 1 \in Nat
        BY <1>0
      <4>2. QED  BY <3>3, <4>1
    <3>7. QED  BY <3>4, <3>5, <3>6
  <2>3. QED  BY <1>4, <2>1, <2>2 DEF FeedChunk, TypeInv, TypeOK, ErredCan
<1>5. CASE FeedEnd(s)
  <2>1. /\ faults' \in [Chains -> Seq(Errors({"own", "consequence"}))]
        /\ feed' \in [Steps -> {"idle", "running", "ok", "fault"}]
        /\ fed' \in [Steps -> BOOLEAN]
    BY <1>1, <1>2, <1>5 DEF FeedEnd, TypeInv, TypeOK
  <2>2. QED  BY <1>5, <2>1 DEF FeedEnd, TypeInv, TypeOK, ErredCan
<1>6. CASE FeedErr(s)
  <2>1. /\ faults' \in [Chains -> Seq(Errors({"own", "consequence"}))]
        /\ feed' \in [Steps -> {"idle", "running", "ok", "fault"}]
    <3>1. s \notin Heads
      BY <1>6 DEF FeedErr
    <3>2. CASE req[Before(s)] = "erred"
      <4>1. Fails[Before(s)] \in Classes
        BY <1>0, <3>1, <3>2, CapAssumption DEF TypeInv, ErredCan
      <4>2. Error(Before(s), Fails[Before(s)], "own") \in Errors({"own", "consequence"})
        BY <1>0, <3>1, <4>1, ErrorTyped
      <4>3. Faulted(s, Error(Before(s), Fails[Before(s)], "own"))
        BY <1>6, <3>2 DEF FeedErr
      <4>4. QED  BY <1>1, <4>2, <4>3
    <3>3. CASE req[Before(s)] # "erred"
      BY <1>1, <1>2, <1>6, <3>1, <3>3 DEF FeedErr
    <3>4. QED  BY <3>2, <3>3
  <2>2. QED  BY <1>6, <2>1 DEF FeedErr, TypeInv, TypeOK, ErredCan
<1>7. CASE Read(s)
  <2>1. got' \in [Steps -> Nat]
    BY <1>7 DEF Read, TypeInv, TypeOK
  <2>2. QED  BY <1>7, <2>1 DEF Read, TypeInv, TypeOK, ErredCan
<1>8. CASE Write(s)
  <2>1. out' \in [Steps -> Nat]
    <3>1. out \in [Steps -> Nat] /\ out[s] + 1 \in Nat
      BY <1>0 DEF TypeOK
    <3>2. out' = out \/ out' = [out EXCEPT ![s] = out[s] + 1]
      BY <1>8 DEF Write
    <3>3. QED  BY <3>1, <3>2
  <2>2. req' = req \/ req' = [req EXCEPT ![s] = "cancelled"]
    BY <1>8 DEF Write
  <2>3. QED  BY <1>8, <2>1, <2>2 DEF Write, TypeInv, TypeOK, ErredCan
<1>9. CASE End(s)
  BY <1>9 DEF End, TypeInv, TypeOK, ErredCan
<1>10. CASE Err(s)
  BY <1>10 DEF Err, TypeInv, TypeOK, ErredCan
<1>11. QED  BY <1>3, <1>4, <1>5, <1>6, <1>7, <1>8, <1>9, <1>10 DEF Feed

-----------------------------------------------------------------------------
(* What one step leaves alone                                              *)

\* Nothing that the invariant speaks of is different for a chain.
Same(c) ==
  /\ phase'[c] = phase[c] /\ seg'[c] = seg[c] /\ verdict'[c] = verdict[c] /\ faults'[c] = faults[c]
  /\ \A s \in StepsOf(c) : req'[s] = req[s] /\ feed'[s] = feed[s] /\ gate'[s] = gate[s] /\ fed'[s] = fed[s]

\* An early end stays one, and so does what it has cut off.
LEMMA CutStays ==
  ASSUME NEW c \in Chains, \A t \in StepsOf(c) : EndedEarly(t) => EndedEarly(t)'
  PROVE  \A s \in StepsOf(c) : Cut(s) => Cut(s)'
<1>1. \A s \in StepsOf(c) : ChainOf[s] = c
  BY StepOf
<1>2. QED  BY <1>1 DEF Cut

LEMMA Elsewhere ==
  ASSUME TypeOK, NEW c \in Chains, Inv(c), Same(c)
  PROVE  Inv(c)'
<1>0. \A s \in StepsOf(c) : Cut(s) => Cut(s)'
  <2>1. \A t \in StepsOf(c) : EndedEarly(t) => EndedEarly(t)'
    BY DEF Same, EndedEarly
  <2>2. QED  BY <2>1, CutStays
<1>1. seg'[c] = seg[c] /\ Part(c)' = Part(c) /\ LastOf(c)' = LastOf(c) /\ Current(c)' = Current(c)
  BY DEF Same, Part, LastOf, Current
<1>2. /\ LastOf(c) \in StepsOf(c) /\ Current(c) \subseteq StepsOf(c)
      /\ \A i \in Part(c) : Plan[c][i] \in StepsOf(c)
  BY LastIs, CurrentIs, StepOf, PartIs, StepAt
<1>3. ASSUME NEW s \in StepsOf(c)
      PROVE  Progress(s)' /\ EndInTurn(s)'
  <2>1. s \in Steps /\ ChainOf[s] = c
    BY StepOf
  <2>2. s \notin Heads => Before(s) \in StepsOf(c)
    BY <2>1, BeforeIs, StepOf
  <2>3. Progress(s) /\ EndInTurn(s)
    BY DEF Inv
  <2>4. Progress(s)'
    BY <1>0, <1>1, <2>1, <2>3 DEF Same, Progress, Past, Here, Untouched
  <2>5. EndInTurn(s)'
    BY <1>1, <2>1, <2>2, <2>3 DEF Same, EndInTurn, Here
  <2>6. QED  BY <2>4, <2>5
<1>4. Caused(c)' <=> Caused(c)
  BY DEF Same, Caused, EndedEarly
<1>5. Shaken(c)' <=> Shaken(c)
  BY <1>1, <1>2 DEF Same, Shaken
<1>6. Decided(c)'
  BY <1>1, <1>2, <1>4, <1>5 DEF Inv, Decided, Same
<1>7. Orderly(c)'
  BY <1>0, <1>1, <1>2 DEF Inv, Orderly, Same
<1>8. QED  BY <1>3, <1>6, <1>7 DEF Inv

\* A chain's own step leaves the others alone, and so does one of its tasks
\* and caps.
LEMMA ChainStepLocal ==
  ASSUME TypeOK, NEW c \in Chains, ChainStep(c) \/ Open(c) \/ Refuse(c) \/ Collect(c),
         NEW d \in Chains, d # c
  PROVE  Same(d)
<1> USE DEF chainVars, feedVars, capVars, Same
<1>1. /\ StepsOf(d) \cap StepsOf(c) = {} /\ Current(c) \subseteq StepsOf(c) /\ StepsOf(d) \subseteq Steps
      /\ StepsOf(c) \subseteq Steps
  BY StepOf, CurrentIs
<1>2. ASSUME NEW e \in Errors({"own", "refused", "consequence", "collateral"}), Fail(c, e)
      PROVE  phase'[d] = phase[d] /\ verdict'[d] = verdict[d]
  BY <1>2 DEF Fail, TypeOK
<1>3. CASE Start(c)
  BY <1>3 DEF Start, TypeOK
<1>4. CASE Begin(c)
  BY <1>2, <1>4, StoppedTyped DEF Begin, TypeOK
<1>5. CASE Spawn(c)
  BY <1>1, <1>5 DEF Spawn, TypeOK
<1>6. CASE Decide(c)
  BY <1>6 DEF Decide, TypeOK
<1>7. CASE Teardown(c)
  <2>1. CASE Doomed(c) = {}
    BY <1>7, <2>1 DEF Teardown, TypeOK
  <2>2. CASE Doomed(c) # {}
    BY <1>1, <1>7, <2>2, DoomedIs DEF Teardown, TypeOK
  <2>3. QED  BY <2>1, <2>2
<1>8. CASE CloseGates(c)
  BY <1>1, <1>8 DEF CloseGates, TypeOK
<1>9. CASE Join(c)
  <2>1. phase'[d] = phase[d] /\ verdict'[d] = verdict[d] /\ seg'[d] = seg[d]
    BY <1>9 DEF Join, Fail, TypeOK
  <2>2. QED  BY <1>9, <2>1 DEF Join, TypeOK
<1>10. CASE Backoff(c)
  <2>1. phase'[d] = phase[d] /\ verdict'[d] = verdict[d] /\ seg'[d] = seg[d] /\ faults' = faults
    BY <1>10 DEF Backoff, TypeOK
  <2>2. ASSUME NEW s \in StepsOf(d)
        PROVE  req'[s] = req[s] /\ feed'[s] = feed[s] /\ gate'[s] = gate[s] /\ fed'[s] = fed[s]
    <3>1. s \in Steps /\ s \notin StepsOf(c)
      BY <1>1
    <3>2. CASE phase' = [phase EXCEPT ![c] = "finished"] /\ UNCHANGED <<feedVars, capVars>>
      BY <3>2
    <3>3. CASE phase' # [phase EXCEPT ![c] = "finished"] \/ ~UNCHANGED <<feedVars, capVars>>
      BY <1>10, <3>1, <3>3 DEF Backoff
    <3>4. QED  BY <3>2, <3>3
  <2>3. QED  BY <2>1, <2>2
<1>11. CASE Reap(c)
  BY <1>11 DEF Reap, TypeOK
<1>12. CASE Open(c)
  BY <1>1, <1>12, NextOfIs DEF Open, TypeOK
<1>13. CASE Refuse(c)
  <2>1. phase'[d] = phase[d] /\ verdict'[d] = verdict[d]
    BY <1>13 DEF Refuse, Fail, TypeOK
  <2>2. QED  BY <1>13, <2>1 DEF Refuse
<1>14. CASE Collect(c)
  BY <1>14 DEF Collect
<1>15. QED
  BY <1>3, <1>4, <1>5, <1>6, <1>7, <1>8, <1>9, <1>10, <1>11, <1>12, <1>13, <1>14 DEF ChainStep

LEMMA StepLocal ==
  ASSUME TypeOK, NEW s \in Steps, Feed(s) \/ Read(s) \/ Write(s) \/ End(s) \/ Err(s),
         NEW d \in Chains, d # ChainOf[s]
  PROVE  Same(d)
<1> USE DEF chainVars, feedVars, capVars, Same
<1>1. s \notin StepsOf(d) /\ StepsOf(d) \subseteq Steps
  BY StepOf
<1>2. CASE FeedStart(s)
  BY <1>1, <1>2 DEF FeedStart, Faulted, TypeOK
<1>3. CASE FeedChunk(s)
  BY <1>1, <1>3 DEF FeedChunk, Faulted, TypeOK
<1>4. CASE FeedEnd(s)
  BY <1>1, <1>4 DEF FeedEnd, Faulted, TypeOK
<1>5. CASE FeedErr(s)
  BY <1>1, <1>5 DEF FeedErr, Faulted, TypeOK
<1>6. CASE Read(s)
  BY <1>6 DEF Read
<1>7. CASE Write(s)
  BY <1>1, <1>7 DEF Write, TypeOK
<1>8. CASE End(s)
  BY <1>1, <1>8 DEF End, TypeOK
<1>9. CASE Err(s)
  BY <1>1, <1>9 DEF Err, TypeOK
<1>10. QED  BY <1>2, <1>3, <1>4, <1>5, <1>6, <1>7, <1>8, <1>9 DEF Feed

-----------------------------------------------------------------------------
(* The chain that steps                                                    *)

\* What the invariant says of a step, by where it is.
LEMMA Standing ==
  ASSUME TypeOK, NEW c \in Chains, Inv(c), NEW s \in StepsOf(c)
  PROVE  /\ s \in Steps /\ ChainOf[s] = c /\ (s \in Current(c) <=> Here(s)) /\ ~(Past(s) /\ Here(s))
         /\ s \notin Heads => Before(s) \in StepsOf(c)
         /\ req[s] = "live" => (Past(s) /\ Cut(s)) \/ (Here(s) /\ phase[c] \notin {"unstarted", "ready"})
<1>1. s \in Steps /\ ChainOf[s] = c
  BY StepOf
<1>2. Progress(s)
  BY DEF Inv
<1>3. s \in Current(c) <=> Here(s)
  BY <1>1, CurrentIs
<1>4. ~(Past(s) /\ Here(s))
  <2>1. seg[c] \in Nat /\ Place[s] \in Nat
    <3>1. seg[c] \in DOMAIN Plan[c] /\ Place[s] \in DOMAIN Plan[c]
      BY <1>1, PlaceOf, PartIs, Positions
    <3>2. QED  BY <3>1, Positions
  <2>2. Here(s) => seg[c] =< Place[s]
    BY <1>1, PartIs DEF Here
  <2>3. QED  BY <1>1, <2>1, <2>2 DEF Past
<1>5. s \notin Heads => Before(s) \in StepsOf(c)
  BY <1>1, BeforeIs, StepOf
<1>6. QED  BY <1>1, <1>2, <1>3, <1>4, <1>5 DEF Progress, Untouched

\* A step of a chain that moves its phase, and nothing of its requests.
LEMMA PhaseOnly ==
  ASSUME TypeOK, NEW c \in Chains, Inv(c), UNCHANGED <<seg, feed, gate, req, fed>>,
         phase'[c] # phase[c],
         phase'[c] \in {"unstarted", "ready"} => phase[c] \in {"unstarted", "ready"},
         phase'[c] = "opening" => phase[c] = "ready",
         phase'[c] \in Running => phase[c] \in Running,
         phase'[c] = "flowing" => FALSE,
         phase'[c] \notin Running => \A s \in Current(c) : feed[s] # "running"
  PROVE  \A s \in StepsOf(c) : Progress(s)' /\ EndInTurn(s)'
<1> SUFFICES ASSUME NEW s \in StepsOf(c) PROVE Progress(s)' /\ EndInTurn(s)'
  OBVIOUS
<1>1. /\ s \in Steps /\ ChainOf[s] = c /\ (s \in Current(c) <=> Here(s)) /\ ~(Past(s) /\ Here(s))
      /\ Progress(s) /\ EndInTurn(s)
  BY Standing DEF Inv
<1>2. (Here(s)' <=> Here(s)) /\ (Past(s)' <=> Past(s)) /\ (Cut(s)' <=> Cut(s))
  BY DEF Here, Past, Part, Cut, EndedEarly
<1>3. Progress(s)'
  <2>1. (Past(s)' => req'[s] # "none" /\ (req'[s] = "live" => Cut(s)')) /\ (Untouched(s)' <=> Untouched(s))
    BY <1>1, <1>2 DEF Progress, Untouched
  <2>2. ~Past(s)' /\ (~Here(s)' \/ phase'[c] \in {"unstarted", "ready"}) => Untouched(s)'
    BY <1>1, <1>2, <2>1 DEF Progress
  <2>3. Here(s)' /\ phase'[c] = "opening" =>
          req'[s] # "cancelled" /\ feed'[s] = "idle" /\ ~fed'[s] /\ gate'[s] = "none"
    BY <1>1, <1>2 DEF Progress, Untouched
  <2>4. Here(s)' /\ phase'[c] \in Running => req'[s] # "none"
    BY <1>1, <1>2 DEF Progress, Running
  <2>5. Here(s)' /\ phase'[c] = "flowing" => gate'[s] # "closed"
    OBVIOUS
  <2>6. feed'[s] = "running" => Here(s)' /\ phase'[c] \in Running /\ ~fed'[s]
    BY <1>1, <1>2 DEF Progress
  <2>7. QED  BY <1>1, <2>1, <2>2, <2>3, <2>4, <2>5, <2>6 DEF Progress
<1>4. EndInTurn(s)'
  BY <1>1, <1>2 DEF EndInTurn
<1>5. QED  BY <1>3, <1>4

\* A failed attempt ends with its failure, or with what its policy makes of it.
LEMMA FailDone ==
  ASSUME TypeInv, NEW c \in Chains, Inv(c),
         NEW e \in Errors({"own", "refused", "consequence", "collateral"}), Fail(c, e),
         UNCHANGED <<seg, feed, gate, req, fed>>, phase[c] \notin Done, phase[c] # "unstarted",
         faults'[c] = <<>>, \A s \in Current(c) : feed[s] # "running",
         e.kind \in {"own", "consequence"} => Caused(c),
         e.kind = "refused" => \E s \in StepsOf(c) : s \in Refusable /\ req[s] = "none"
  PROVE  Inv(c)' /\ phase'[c] \in {"backoff", "finished"}
<1>1. PICK p \in {"backoff", "finished"}, v \in {Absent, e} :
           /\ phase' = [phase EXCEPT ![c] = p] /\ verdict' = [verdict EXCEPT ![c] = v]
           /\ e.kind = "collateral" => v = e
  BY FailIs DEF TypeInv
<1>2. phase'[c] = p /\ verdict'[c] = v /\ TypeOK
  BY <1>1 DEF TypeInv, TypeOK
<1>3. \A s \in StepsOf(c) : Progress(s)' /\ EndInTurn(s)'
  BY <1>2, PhaseOnly DEF Done, Running
<1>4. Decided(c)'
  <2>1. Caused(c)' <=> Caused(c)
    BY DEF Caused, EndedEarly
  <2>2. e.kind \in {"own", "refused", "consequence", "collateral"}
    BY DEF Errors
  <2>3. v.kind \in {"own", "consequence"} => Caused(c)
    BY DEF Absent
  <2>4. v.kind = "absent" => Caused(c) \/ \E s \in StepsOf(c) : s \in Refusable /\ req[s] = "none"
    BY <1>1, <2>2
  <2>5. QED  BY <1>2, <2>1, <2>3, <2>4 DEF Decided, Done, Running
<1>5. Orderly(c)'
  BY <1>2 DEF Orderly
<1>6. QED  BY <1>2, <1>3, <1>4, <1>5 DEF Inv


LEMMA BeginKeeps ==
  ASSUME TypeInv, NEW c \in Chains, Inv(c), Start(c) \/ Reap(c) \/ Begin(c)
  PROVE  Inv(c)'
<1> USE DEF chainVars, feedVars, capVars
<1>0. TypeOK /\ (phase[c] \notin Running => \A s \in Current(c) : feed[s] # "running")
  BY Standing, CurrentIs, StepOf DEF TypeInv, Inv, Progress
<1>1. (Caused(c)' <=> Caused(c)) /\ Part(c)' = Part(c)
  BY DEF Caused, EndedEarly, Part, Start, Reap, Begin
<1>2. CASE Start(c) \/ Reap(c)
  <2>1. phase[c] \in {"unstarted", "finished"} /\ phase'[c] = (IF phase[c] = "unstarted" THEN "ready" ELSE "over")
        /\ UNCHANGED <<seg, tries, verdict, faults, feedVars, capVars>>
    BY <1>0, <1>2 DEF Start, Reap, TypeOK
  <2>2. \A s \in StepsOf(c) : Progress(s)' /\ EndInTurn(s)'
    BY <1>0, <2>1, PhaseOnly DEF Running
  <2>3. Decided(c)'
    BY <1>1, <2>1 DEF Inv, Decided, Running, Done
  <2>4. Orderly(c)'
    BY <2>1 DEF Orderly
  <2>5. QED  BY <2>2, <2>3, <2>4 DEF Inv
<1>3. CASE Begin(c) /\ Raised
  <2>1. /\ Fail(c, Stopped(c)) /\ phase[c] = "ready"
        /\ UNCHANGED <<failure, seg, faults, feedVars, capVars>>
    BY <1>3 DEF Begin
  <2>2. Stopped(c) \in Errors({"own", "refused", "consequence", "collateral"}) /\ Stopped(c).kind = "collateral"
    BY <1>0, StoppedTyped
  <2>3. faults'[c] = <<>>
    BY <2>1 DEF Inv, Decided, Running
  <2>4. QED  BY <1>0, <2>1, <2>2, <2>3, FailDone DEF Done, Running
<1>4. CASE Begin(c) /\ ~Raised
  <2>1. phase[c] = "ready" /\ phase'[c] = "opening" /\ UNCHANGED <<seg, tries, verdict, faults, feedVars, capVars>>
    BY <1>0, <1>4 DEF Begin, TypeOK
  <2>2. \A s \in StepsOf(c) : Progress(s)' /\ EndInTurn(s)'
    BY <1>0, <2>1, PhaseOnly DEF Running
  <2>3. Decided(c)'
    BY <1>1, <2>1 DEF Inv, Decided, Running, Done
  <2>4. ASSUME NEW i \in Part(c) PROVE req[Plan[c][i]] = "none"
    <3>1. Plan[c][i] \in StepsOf(c) /\ Plan[c][i] \in Current(c)
      BY <1>0, PartIs, StepAt DEF Current
    <3>2. Progress(Plan[c][i])
      BY <3>1 DEF Inv
    <3>3. QED  BY <1>0, <2>1, <3>1, <3>2, Standing DEF Progress, Untouched
  <2>5. Orderly(c)'
    BY <1>1, <2>1, <2>4 DEF Orderly
  <2>6. QED  BY <2>2, <2>3, <2>5 DEF Inv
<1>5. QED  BY <1>2, <1>3, <1>4

LEMMA OpenKeeps ==
  ASSUME TypeInv, NEW c \in Chains, Inv(c), Open(c)
  PROVE  Inv(c)'
<1> USE DEF chainVars, feedVars, capVars
<1> DEFINE n == NextOf(c)
           k == First(Unopened(c))
<1>0. TypeOK
  BY DEF TypeInv
<1>1. /\ k \in Part(c) /\ n = Plan[c][k] /\ n \in Current(c) /\ n \in StepsOf(c) /\ req[n] = "none"
      /\ \A i \in Part(c) : i < k => req[Plan[c][i]] # "none"
  BY <1>0, NextOfIs DEF Open
<1>2. /\ phase[c] = "opening" /\ req' = [req EXCEPT ![n] = "live"]
      /\ UNCHANGED <<failure, chainVars, feedVars, got, fed, out>>
  BY DEF Open
<1> HIDE DEF n, k
<1>3. Part(c)' = Part(c)
  BY <1>2 DEF Part
<1>9. \A s \in StepsOf(c) : Cut(s) => Cut(s)'
  <2>1. \A t \in StepsOf(c) : EndedEarly(t) => EndedEarly(t)'
    BY <1>0, <1>1, <1>2, StepsIn DEF EndedEarly, TypeOK
  <2>2. QED  BY <2>1, CutStays
<1>4. ASSUME NEW s \in StepsOf(c) PROVE Progress(s)' /\ EndInTurn(s)'
  <2>1. /\ s \in Steps /\ ChainOf[s] = c /\ (s \in Current(c) <=> Here(s)) /\ ~(Past(s) /\ Here(s))
        /\ Progress(s) /\ EndInTurn(s) /\ (s \notin Heads => Before(s) \in Steps)
    BY <1>0, Standing, StepOf DEF Inv
  <2>2. (Here(s)' <=> Here(s)) /\ (Past(s)' <=> Past(s))
    BY <1>2 DEF Here, Past, Part
  <2>3. req'[s] = (IF s = n THEN "live" ELSE req[s])
        /\ (s \notin Heads => req'[Before(s)] = IF Before(s) = n THEN "live" ELSE req[Before(s)])
    BY <1>0, <1>2, <2>1 DEF TypeOK
  <2>4. Progress(s)'
    BY <1>1, <1>2, <1>9, <2>1, <2>2, <2>3 DEF Progress, Untouched, Running
  <2>5. EndInTurn(s)'
    BY <1>1, <1>2, <2>1, <2>2, <2>3 DEF EndInTurn
  <2>6. QED  BY <2>4, <2>5
<1>5. Decided(c)'
  BY <1>2 DEF Inv, Decided, Running, Done
<1>6. Orderly(c)'
  <2>1. SUFFICES ASSUME NEW i \in Part(c), NEW j \in Part(c), i < j, req'[Plan[c][j]] # "none"
                 PROVE  req'[Plan[c][i]] # "none"
    BY <1>2, <1>3 DEF Orderly
  <2>2. Plan[c][i] \in Steps /\ Plan[c][j] \in Steps
    BY <1>0, PartIs, StepAt
  <2>3. CASE Plan[c][j] = n
    <3>1. j = k
      BY <1>0, <1>1, <2>3, PartIs, StepAt
    <3>2. QED  BY <1>0, <1>1, <1>2, <2>1, <2>2, <3>1 DEF TypeOK
  <2>4. CASE Plan[c][j] # n
    <3>1. req[Plan[c][j]] # "none"
      BY <1>0, <1>2, <2>1, <2>2, <2>4 DEF TypeOK
    <3>2. req[Plan[c][i]] # "none"
      BY <1>2, <2>1, <3>1 DEF Inv, Orderly
    <3>3. QED  BY <1>0, <1>2, <2>2, <3>2 DEF TypeOK
  <2>5. QED  BY <2>3, <2>4
<1>7. QED  BY <1>4, <1>5, <1>6 DEF Inv

LEMMA RefuseKeeps ==
  ASSUME TypeInv, NEW c \in Chains, Inv(c), Refuse(c)
  PROVE  Inv(c)'
<1> USE DEF chainVars, feedVars, capVars
<1>0. TypeOK
  BY DEF TypeInv
<1> DEFINE e == Error(NextOf(c), "Internal", "refused")
<1>1. /\ phase[c] = "opening" /\ NextOf(c) \in Refusable /\ Fail(c, e)
      /\ UNCHANGED <<failure, seg, faults, feedVars, capVars>>
  BY DEF Refuse
<1>2. NextOf(c) \in StepsOf(c) /\ req[NextOf(c)] = "none" /\ NextOf(c) \in Steps
  BY <1>0, NextOfIs, StepOf DEF Refuse
<1>3. e \in Errors({"own", "refused", "consequence", "collateral"}) /\ e.kind = "refused"
  BY <1>2, ErrorTyped DEF Error, Classes
<1>4. faults'[c] = <<>>
  BY <1>1 DEF Inv, Decided, Running
<1>5. \A s \in Current(c) : feed[s] # "running"
  <2>1. ASSUME NEW s \in Current(c) PROVE feed[s] # "running"
    <3>1. s \in StepsOf(c) /\ Progress(s) /\ ChainOf[s] = c
      BY <1>0, CurrentIs, StepOf DEF Inv
    <3>2. QED  BY <1>1, <3>1 DEF Progress, Running
  <2>2. QED  BY <2>1
<1> HIDE DEF e
<1>6. QED  BY <1>1, <1>2, <1>3, <1>4, <1>5, FailDone DEF Done


LEMMA SpawnKeeps ==
  ASSUME TypeInv, NEW c \in Chains, Inv(c), Spawn(c)
  PROVE  Inv(c)'
<1> USE DEF chainVars, feedVars, capVars
<1>0. TypeOK
  BY DEF TypeInv
<1>1. /\ phase[c] = "opening" /\ Unopened(c) = {} /\ phase'[c] = "flowing"
      /\ UNCHANGED <<failure, seg, tries, verdict, faults, left, gate, capVars>>
  BY <1>0 DEF Spawn, TypeOK
<1>2. Current(c) \subseteq StepsOf(c) /\ StepsOf(c) \subseteq Steps
      /\ \A s \in Steps : feed'[s] = IF s \in Current(c) THEN "running" ELSE feed[s]
  BY <1>0, CurrentIs, StepOf DEF Spawn
<1>3. Current(c)' = Current(c)
  BY <1>1 DEF Current, Part
<1>4. \A s \in Current(c) : req[s] # "none"
  BY <1>1 DEF Unopened, Current
<1>9. \A s \in StepsOf(c) : Cut(s) => Cut(s)'
  BY <1>1, CutStays DEF EndedEarly
<1>5. ASSUME NEW s \in StepsOf(c) PROVE Progress(s)' /\ EndInTurn(s)'
  <2>1. /\ s \in Steps /\ ChainOf[s] = c /\ (s \in Current(c) <=> Here(s)) /\ ~(Past(s) /\ Here(s))
        /\ Progress(s) /\ EndInTurn(s)
    BY <1>0, Standing DEF Inv
  <2>2. (Here(s)' <=> Here(s)) /\ (Past(s)' <=> Past(s))
    BY <1>1 DEF Here, Past, Part
  <2>3. feed'[s] = IF s \in Current(c) THEN "running" ELSE feed[s]
    BY <1>2
  <2>4. Progress(s)'
    BY <1>1, <1>4, <1>9, <2>1, <2>2, <2>3 DEF Progress, Untouched, Running
  <2>5. EndInTurn(s)'
    BY <1>1, <2>1, <2>2, <2>3 DEF EndInTurn, Progress
  <2>6. QED  BY <2>4, <2>5
<1>6. Decided(c)'
  <2>1. faults'[c] = <<>>
    BY <1>1 DEF Inv, Decided, Running
  <2>2. ASSUME NEW s \in Current(c) PROVE feed'[s] # "fault" /\ req'[s] # "cancelled"
    <3>1. s \in StepsOf(c) /\ Here(s) /\ ChainOf[s] = c
      BY <1>0, CurrentIs, StepOf
    <3>2. req[s] # "cancelled"
      BY <1>1, <3>1 DEF Inv, Progress
    <3>3. QED  BY <1>1, <1>2, <3>1, <3>2
  <2>3. ~Shaken(c)'
    BY <1>3, <2>1, <2>2 DEF Shaken
  <2>4. QED  BY <1>1, <2>1, <2>3 DEF Decided, Running, Done
<1>7. Orderly(c)'
  BY <1>1 DEF Orderly
<1>8. QED  BY <1>5, <1>6, <1>7 DEF Inv

LEMMA DecideKeeps ==
  ASSUME TypeInv, NEW c \in Chains, Inv(c), Decide(c)
  PROVE  Inv(c)'
<1> USE DEF chainVars, feedVars, capVars
<1>0. TypeOK
  BY DEF TypeInv
<1>1. phase[c] = "flowing" /\ UNCHANGED <<failure, seg, tries, feedVars, capVars>>
  BY DEF Decide
<1>2. (Caused(c)' <=> Caused(c)) /\ LastOf(c)' = LastOf(c) /\ Current(c)' = Current(c)
      /\ LastOf(c) \in StepsOf(c)
  BY <1>0, <1>1, LastIs, CurrentIs, StepOf DEF Caused, EndedEarly, LastOf, Current, Part
<1>3. ASSUME phase'[c] \in {"teardown", "closing"}
      PROVE  \A s \in StepsOf(c) : Progress(s)' /\ EndInTurn(s)'
  BY <1>0, <1>1, <1>3, PhaseOnly DEF Running
<1>4. CASE faults[c] # <<>>
  <2>1. verdict'[c] = Head(faults[c]) /\ phase'[c] = "teardown"
    BY <1>0, <1>4 DEF Decide, TypeOK
  <2>2. verdict'[c].kind \in {"own", "consequence"}
    <3>1. faults[c] \in Seq(Errors({"own", "consequence"}))
      BY <1>0 DEF TypeOK
    <3>2. Head(faults[c]) \in Errors({"own", "consequence"})
      BY <1>4, <3>1, HeadTailProperties
    <3>3. QED  BY <2>1, <3>2 DEF Errors
  <2>3. Caused(c)
    BY <1>1, <1>4 DEF Inv, Decided, Shaken
  <2>4. Decided(c)'
    BY <1>2, <2>1, <2>2, <2>3 DEF Decided, Running, Done
  <2>5. Orderly(c)'
    BY <2>1 DEF Orderly
  <2>6. QED  BY <1>3, <2>1, <2>4, <2>5 DEF Inv
<1>5. CASE faults[c] = <<>> /\ Raised
  <2>1. verdict'[c] = Stopped(c) /\ phase'[c] = "teardown" /\ Stopped(c).kind = "collateral"
    BY <1>0, <1>5, StoppedTyped DEF Decide, TypeOK
  <2>2. Decided(c)'
    BY <1>2, <2>1 DEF Decided, Running, Done
  <2>3. Orderly(c)'
    BY <2>1 DEF Orderly
  <2>4. QED  BY <1>3, <2>1, <2>2, <2>3 DEF Inv
<1>6. CASE faults[c] = <<>> /\ ~Raised /\ req[LastOf(c)] = "ended"
  <2>1. verdict'[c] = Ok /\ phase'[c] = "closing" /\ faults' = faults
    BY <1>0, <1>6 DEF Decide, TypeOK
  <2>2. Decided(c)'
    BY <1>1, <1>2, <1>6, <2>1 DEF Decided, Running, Done, Ok
  <2>3. \A s \in Current(c) : req[s] = "live" => Cut(s)
    <3>1. \A s \in StepsOf(c) : EndInTurn(s)
      BY DEF Inv
    <3>2. QED  BY <1>0, <1>6, <3>1, AllEnded
  <2>4. Orderly(c)'
    <3>1. \A s \in StepsOf(c) : Cut(s) => Cut(s)'
      BY <1>1, CutStays DEF EndedEarly
    <3>2. \A s \in Current(c) : Cut(s)' \/ req'[s] # "live"
      BY <1>0, <1>1, <2>3, <3>1, CurrentIs, StepOf
    <3>3. QED  BY <1>2, <2>1, <3>2 DEF Orderly
  <2>5. QED  BY <1>3, <2>1, <2>2, <2>4 DEF Inv
<1>7. CASE faults[c] = <<>> /\ ~Raised /\ req[LastOf(c)] # "ended"
  <2>1. /\ req[LastOf(c)] = "erred" /\ phase'[c] = "teardown"
        /\ verdict'[c] = Error(LastOf(c), Fails[LastOf(c)], "own")
    BY <1>0, <1>7 DEF Decide, TypeOK
  <2>2. Caused(c) /\ verdict'[c].kind = "own"
    BY <1>2, <2>1 DEF Caused, EndedEarly, Error
  <2>3. Decided(c)'
    BY <1>2, <2>1, <2>2 DEF Decided, Running, Done
  <2>4. Orderly(c)'
    BY <2>1 DEF Orderly
  <2>5. QED  BY <1>3, <2>1, <2>3, <2>4 DEF Inv
<1>8. QED  BY <1>4, <1>5, <1>6, <1>7

\* A request that was live is over, or is told so: what that disturbs.
LEMMA RequestOver ==
  ASSUME TypeInv, NEW c \in Chains, Inv(c), NEW s \in StepsOf(c), req[s] = "live",
         NEW r \in {"ended", "erred", "cancelled"}, req' = [req EXCEPT ![s] = r],
         UNCHANGED <<phase, seg, verdict, faults, feed, gate, fed>>,
         r = "cancelled" /\ phase[c] = "opening" => Past(s),
         r = "cancelled" /\ phase[c] = "flowing" => Caused(c)
  PROVE  Inv(c)'
<1>0. TypeOK /\ s \in Steps /\ StepsOf(c) \subseteq Steps
  BY StepOf DEF TypeInv
<1>1. Current(c)' = Current(c) /\ LastOf(c)' = LastOf(c) /\ Part(c)' = Part(c)
      /\ LastOf(c) \in StepsOf(c) /\ Current(c) \subseteq StepsOf(c)
  BY <1>0, LastIs, CurrentIs, StepOf DEF Current, LastOf, Part
<1>2. \A t \in Steps : req'[t] = IF t = s THEN r ELSE req[t]
  BY <1>0 DEF TypeOK
<1>8. \A t \in StepsOf(c) : Cut(t) => Cut(t)'
  <2>1. \A t \in StepsOf(c) : EndedEarly(t) => EndedEarly(t)'
    BY <1>0, <1>2 DEF EndedEarly
  <2>2. QED  BY <2>1, CutStays
<1>3. ASSUME NEW t \in StepsOf(c) PROVE Progress(t)' /\ EndInTurn(t)'
  <2>1. /\ t \in Steps /\ ChainOf[t] = c /\ (t \in Current(c) <=> Here(t)) /\ ~(Past(t) /\ Here(t))
        /\ Progress(t) /\ EndInTurn(t) /\ (t \notin Heads => Before(t) \in Steps)
        /\ (req[t] = "live" => (Past(t) /\ Cut(t)) \/ (Here(t) /\ phase[c] \notin {"unstarted", "ready"}))
    BY <1>0, Standing, StepOf DEF Inv
  <2>2. (Here(t)' <=> Here(t)) /\ (Past(t)' <=> Past(t))
    BY DEF Here, Past, Part
  <2>3. req'[t] = (IF t = s THEN r ELSE req[t])
        /\ (t \notin Heads => req'[Before(t)] = IF Before(t) = s THEN r ELSE req[Before(t)])
    BY <1>2, <2>1
  <2>4. Progress(t)'
    BY <1>8, <2>1, <2>2, <2>3 DEF Progress, Untouched, Running
  <2>5. EndInTurn(t)'
    BY <2>1, <2>2, <2>3 DEF EndInTurn
  <2>6. QED  BY <2>4, <2>5
<1>4. Caused(c) => Caused(c)'
  BY <1>0, <1>2 DEF Caused, EndedEarly
<1>5. Decided(c)'
  <2>1. phase[c] = "flowing" /\ Shaken(c)' => Caused(c)'
    <3>1. SUFFICES ASSUME phase[c] = "flowing", Shaken(c)', ~Caused(c) PROVE FALSE
      BY <1>4
    <3>2. Shaken(c)
      BY <1>0, <1>1, <1>2, <3>1 DEF Shaken
    <3>3. QED  BY <3>1, <3>2 DEF Inv, Decided
  <2>2. req[LastOf(c)] = "ended" => req'[LastOf(c)] = "ended"
    BY <1>0, <1>1, <1>2
  <2>3. \A t \in StepsOf(c) : req[t] = "none" => req'[t] = "none"
    BY <1>0, <1>2
  <2>4. Decided(c)
    BY DEF Inv
  <2>5. QED  BY <1>1, <1>4, <2>1, <2>2, <2>3, <2>4 DEF Decided
<1>6. Orderly(c)'
  <2>1. \A i \in Part(c) : Plan[c][i] \in Steps
    BY <1>0, PartIs, StepAt
  <2>2. \A t \in Steps : req'[t] = "none" <=> req[t] = "none"
    BY <1>2
  <2>3. \A t \in Current(c) : req'[t] = "live" => req[t] = "live"
    BY <1>0, <1>1, <1>2
  <2>4. Orderly(c)
    BY DEF Inv
  <2>5. phase[c] = "opening" => \A i, j \in Part(c) :
          i < j /\ req'[Plan[c][j]] # "none" => req'[Plan[c][i]] # "none"
    BY <2>1, <2>2, <2>4 DEF Orderly
  <2>6. phase[c] \in {"closing", "joining"} => \A t \in Current(c) : req'[t] = "live" => Cut(t)'
    BY <1>1, <1>8, <2>3, <2>4 DEF Orderly
  <2>7. QED  BY <1>1, <2>5, <2>6 DEF Orderly
<1>7. QED  BY <1>3, <1>5, <1>6 DEF Inv

LEMMA TeardownKeeps ==
  ASSUME TypeInv, NEW c \in Chains, Inv(c), Teardown(c) \/ CloseGates(c)
  PROVE  Inv(c)'
<1> USE DEF chainVars, feedVars, capVars
<1>0. TypeOK
  BY DEF TypeInv
<1>1. CASE Teardown(c) /\ Doomed(c) = {}
  <2>1. phase[c] = "teardown" /\ phase'[c] = "closing" /\ UNCHANGED <<seg, verdict, faults, feedVars, capVars>>
    BY <1>0, <1>1 DEF Teardown, TypeOK
  <2>2. \A s \in StepsOf(c) : Progress(s)' /\ EndInTurn(s)'
    BY <1>0, <2>1, PhaseOnly DEF Running
  <2>3. Decided(c)'
    <3>1. Caused(c)' <=> Caused(c)
      BY <2>1 DEF Caused, EndedEarly
    <3>2. QED  BY <2>1, <3>1 DEF Inv, Decided, Running, Done
  <2>4. \A s \in Current(c) : req[s] # "live"
    BY <1>1 DEF Doomed, Current
  <2>5. Orderly(c)'
    BY <2>1, <2>4 DEF Orderly, Current, Part
  <2>6. QED  BY <2>2, <2>3, <2>5 DEF Inv
<1>2. CASE Teardown(c) /\ Doomed(c) # {}
  <2>1. PICK s \in StepsOf(c) : req[s] = "live" /\ req' = [req EXCEPT ![s] = "cancelled"]
    BY <1>0, <1>2, DoomedIs DEF Teardown
  <2>2. phase[c] = "teardown" /\ UNCHANGED <<phase, seg, verdict, faults, feed, gate, fed>>
    BY <1>2 DEF Teardown
  <2>3. QED  BY <2>1, <2>2, RequestOver
<1>3. CASE CloseGates(c)
  <2>1. /\ phase[c] = "closing" /\ phase'[c] = "joining" /\ UNCHANGED <<seg, verdict, faults, feed, left, capVars>>
        /\ \A s \in Steps : gate'[s] = IF s \in Current(c) /\ gate[s] = "open" THEN "closed" ELSE gate[s]
    BY <1>0, <1>3 DEF CloseGates, TypeOK
  <2>8. \A s \in StepsOf(c) : Cut(s) => Cut(s)'
    BY <2>1, CutStays DEF EndedEarly
  <2>2. ASSUME NEW s \in StepsOf(c) PROVE Progress(s)' /\ EndInTurn(s)'
    <3>1. /\ s \in Steps /\ ChainOf[s] = c /\ (s \in Current(c) <=> Here(s)) /\ ~(Past(s) /\ Here(s))
          /\ Progress(s) /\ EndInTurn(s)
      BY <1>0, Standing DEF Inv
    <3>2. (Here(s)' <=> Here(s)) /\ (Past(s)' <=> Past(s))
      BY <2>1 DEF Here, Past, Part
    <3>3. gate'[s] = IF s \in Current(c) /\ gate[s] = "open" THEN "closed" ELSE gate[s]
      BY <2>1, <3>1
    <3>4. Progress(s)'
      BY <2>1, <2>8, <3>1, <3>2, <3>3 DEF Progress, Untouched, Running
    <3>5. EndInTurn(s)'
      BY <2>1, <3>1, <3>2 DEF EndInTurn
    <3>6. QED  BY <3>4, <3>5
  <2>3. Caused(c)' <=> Caused(c)
    BY <2>1 DEF Caused, EndedEarly
  <2>4. LastOf(c)' = LastOf(c) /\ Current(c)' = Current(c)
    BY <2>1 DEF LastOf, Current, Part
  <2>5. Decided(c)'
    BY <2>1, <2>3, <2>4 DEF Inv, Decided, Running, Done
  <2>6. Orderly(c)'
    <3>1. \A s \in Current(c) : req[s] = "live" => Cut(s)
      BY <2>1 DEF Inv, Orderly
    <3>2. \A s \in Current(c) : req'[s] = "live" => Cut(s)'
      BY <1>0, <2>1, <2>8, <3>1, CurrentIs, StepOf
    <3>3. QED  BY <2>1, <2>4, <3>2 DEF Orderly
  <2>7. QED  BY <2>2, <2>5, <2>6 DEF Inv
<1>4. QED  BY <1>1, <1>2, <1>3


LEMMA JoinKeeps ==
  ASSUME TypeInv, NEW c \in Chains, Inv(c), Join(c)
  PROVE  Inv(c)'
<1> USE DEF chainVars, feedVars, capVars
<1>0. TypeOK
  BY DEF TypeInv
<1>1. /\ phase[c] = "joining" /\ faults'[c] = <<>> /\ \A s \in Current(c) : feed[s] # "running"
      /\ UNCHANGED <<failure, feedVars, capVars>>
  BY <1>0 DEF Join, TypeOK
<1>2. (Caused(c)' <=> Caused(c)) /\ verdict[c].kind \in {"own", "consequence", "collateral", "ok"}
  BY <1>1 DEF Caused, EndedEarly, Inv, Decided
<1>3. CASE verdict[c].kind # "ok"
  <2>1. IsError(verdict[c])
    BY <1>2, <1>3 DEF IsError
  <2>2. verdict[c] \in Errors({"own", "refused", "consequence", "collateral"})
    <3>1. verdict[c] \in Errors({"own", "refused", "consequence", "collateral"}) \cup {None, Ok, Absent}
      BY <1>0 DEF TypeOK
    <3>2. QED  BY <1>2, <1>3, <3>1 DEF None, Ok, Absent
  <2>3. Fail(c, verdict[c]) /\ UNCHANGED seg
    BY <1>3 DEF Join
  <2>4. verdict[c].kind \in {"own", "consequence"} => Caused(c)
    BY <1>1 DEF Inv, Decided
  <2>5. verdict[c].kind # "refused"
    BY <1>2
  <2>6. QED  BY <1>1, <2>2, <2>3, <2>4, <2>5, FailDone DEF Done
<1>4. CASE verdict[c].kind = "ok"
  <2>1. req[LastOf(c)] = "ended" /\ (faults[c] # <<>> => Caused(c))
    BY <1>1, <1>4 DEF Inv, Decided
  <2>6. CASE faults[c] # <<>>
    <3>1. verdict'[c] = Head(faults[c]) /\ phase'[c] = "teardown" /\ UNCHANGED <<seg, tries>>
      BY <1>0, <1>4, <2>6 DEF Join, IsError, TypeOK
    <3>2. verdict'[c].kind \in {"own", "consequence"}
      <4>1. faults[c] \in Seq(Errors({"own", "consequence"}))
        BY <1>0 DEF TypeOK
      <4>2. Head(faults[c]) \in Errors({"own", "consequence"})
        BY <2>6, <4>1, HeadTailProperties
      <4>3. QED  BY <3>1, <4>2 DEF Errors
    <3>3. \A s \in StepsOf(c) : Progress(s)' /\ EndInTurn(s)'
      BY <1>0, <1>1, <3>1, PhaseOnly DEF Running
    <3>4. Decided(c)'
      BY <1>1, <1>2, <2>1, <2>6, <3>1, <3>2 DEF Decided, Running, Done
    <3>5. Orderly(c)'
      BY <3>1 DEF Orderly
    <3>6. QED  BY <3>3, <3>4, <3>5 DEF Inv
  <2>2. ASSUME faults[c] = <<>>
        PROVE  /\ UNCHANGED verdict
               /\ IF Final(Part(c)) < Len(Plan[c])
                    THEN seg' = [seg EXCEPT ![c] = Final(Part(c)) + 1] /\ phase' = [phase EXCEPT ![c] = "ready"]
                    ELSE phase' = [phase EXCEPT ![c] = "finished"] /\ UNCHANGED seg
    BY <1>4, <2>2 DEF Join, IsError
  <2>3. CASE faults[c] = <<>> /\ ~(Final(Part(c)) < Len(Plan[c]))
    <3>1. phase'[c] = "finished" /\ UNCHANGED seg
      BY <1>0, <2>2, <2>3 DEF TypeOK
    <3>2. \A s \in StepsOf(c) : Progress(s)' /\ EndInTurn(s)'
      BY <1>0, <1>1, <3>1, PhaseOnly DEF Running
    <3>3. Decided(c)'
      BY <1>1, <1>4, <2>2, <2>3, <3>1 DEF Decided, Running, Done
    <3>4. Orderly(c)'
      BY <3>1 DEF Orderly
    <3>5. QED  BY <3>2, <3>3, <3>4 DEF Inv
  <2>4. CASE faults[c] = <<>> /\ Final(Part(c)) < Len(Plan[c])
    <3>1. phase'[c] = "ready" /\ seg'[c] = Final(Part(c)) + 1
      BY <1>0, <2>2, <2>4 DEF TypeOK
    <3>2. \A i \in DOMAIN Plan[c] : i < Final(Part(c)) + 1 <=> i < seg[c] \/ i \in Part(c)
      BY <1>0, <2>4, NextSegment
    <3>3. \A s \in Current(c) : req[s] = "ended" \/ Cut(s)
      <4>1. \A s \in StepsOf(c) : EndInTurn(s)
        BY DEF Inv
      <4>2. QED  BY <1>0, <2>1, <4>1, AllEnded
    <3>8. \A s \in StepsOf(c) : Cut(s) => Cut(s)'
      BY <1>1, CutStays DEF EndedEarly
    <3>4. ASSUME NEW s \in StepsOf(c) PROVE Progress(s)' /\ EndInTurn(s)'
      <4>1. /\ s \in Steps /\ ChainOf[s] = c /\ (s \in Current(c) <=> Here(s))
            /\ Progress(s) /\ EndInTurn(s) /\ Place[s] \in DOMAIN Plan[c]
        BY <1>0, Standing, PlaceOf DEF Inv
      <4>2. Past(s)' <=> Past(s) \/ Here(s)
        BY <3>1, <3>2, <4>1 DEF Past, Here
      <4>3. req'[s] = req[s] /\ feed'[s] = feed[s] /\ fed'[s] = fed[s] /\ gate'[s] = gate[s]
        BY <1>1
      <4>4. Progress(s)'
        BY <1>1, <3>1, <3>3, <3>8, <4>1, <4>2, <4>3 DEF Progress, Untouched, Running
      <4>5. EndInTurn(s)'
        BY <1>1, <3>1, <4>1 DEF EndInTurn
      <4>6. QED  BY <4>4, <4>5
    <3>5. Decided(c)'
      BY <1>1, <3>1 DEF Decided, Running, Done
    <3>6. Orderly(c)'
      BY <3>1 DEF Orderly
    <3>7. QED  BY <3>4, <3>5, <3>6 DEF Inv
  <2>5. QED  BY <2>3, <2>4, <2>6
<1>5. QED  BY <1>3, <1>4

LEMMA BackoffKeeps ==
  ASSUME TypeInv, NEW c \in Chains, Inv(c), Backoff(c)
  PROVE  Inv(c)'
<1> USE DEF chainVars, feedVars, capVars
<1>0. TypeOK
  BY DEF TypeInv
<1>1. phase[c] = "backoff" /\ UNCHANGED <<failure, tries, faults>> /\ faults[c] = <<>>
  BY DEF Backoff, Inv, Decided, Running
<1>2. CASE phase' = [phase EXCEPT ![c] = "finished"]
  <2>1. phase'[c] = "finished" /\ verdict'[c] = Stopped(c) /\ UNCHANGED <<seg, feedVars, capVars>>
    BY <1>0, <1>2 DEF Backoff, TypeOK
  <2>2. \A s \in Current(c) : feed[s] # "running"
    <3>1. ASSUME NEW s \in Current(c) PROVE feed[s] # "running"
      <4>1. s \in StepsOf(c) /\ Progress(s) /\ ChainOf[s] = c
        BY <1>0, CurrentIs, StepOf DEF Inv
      <4>2. QED  BY <1>1, <4>1 DEF Progress, Running
    <3>2. QED  BY <3>1
  <2>3. \A s \in StepsOf(c) : Progress(s)' /\ EndInTurn(s)'
    BY <1>0, <1>1, <2>1, <2>2, PhaseOnly DEF Running
  <2>4. Stopped(c).kind = "collateral"
    BY <1>0, StoppedTyped
  <2>5. Decided(c)'
    BY <1>1, <2>1, <2>4 DEF Decided, Running, Done
  <2>6. Orderly(c)'
    BY <2>1 DEF Orderly
  <2>7. QED  BY <2>3, <2>5, <2>6 DEF Inv
<1>3. CASE phase' # [phase EXCEPT ![c] = "finished"]
  <2>1. /\ phase' = [phase EXCEPT ![c] = "ready"] /\ seg' = [seg EXCEPT ![c] = 1]
        /\ feed' = [s \in Steps |-> IF s \in StepsOf(c) THEN "idle" ELSE feed[s]]
        /\ gate' = [s \in Steps |-> IF s \in StepsOf(c) THEN "none" ELSE gate[s]]
        /\ req' = [s \in Steps |-> IF s \in StepsOf(c) THEN "none" ELSE req[s]]
        /\ fed' = [s \in Steps |-> IF s \in StepsOf(c) THEN FALSE ELSE fed[s]]
    BY <1>3 DEF Backoff
  <2>2. phase'[c] = "ready" /\ seg'[c] = 1
    BY <1>0, <2>1 DEF TypeOK
  <2>3. ASSUME NEW s \in StepsOf(c) PROVE Progress(s)' /\ EndInTurn(s)'
    <3>1. s \in Steps /\ ChainOf[s] = c /\ Place[s] \in DOMAIN Plan[c]
      BY StepOf, PlaceOf
    <3>2. ~Past(s)'
      <4>1. ~(Place[s] < 1)
        BY <3>1, Positions
      <4>2. QED  BY <2>2, <3>1, <4>1 DEF Past
    <3>3. req'[s] = "none" /\ feed'[s] = "idle" /\ ~fed'[s] /\ gate'[s] = "none"
      BY <2>1, <3>1
    <3>4. Progress(s)'
      BY <2>2, <3>1, <3>2, <3>3 DEF Progress, Untouched, Running
    <3>5. EndInTurn(s)'
      BY <3>3 DEF EndInTurn
    <3>6. QED  BY <3>4, <3>5
  <2>4. Decided(c)'
    BY <1>1, <2>2 DEF Decided, Running, Done
  <2>5. Orderly(c)'
    BY <2>2 DEF Orderly
  <2>6. QED  BY <2>3, <2>4, <2>5 DEF Inv
<1>4. QED  BY <1>2, <1>3

-----------------------------------------------------------------------------
(* The tasks that feed, and the caps                                       *)

\* What a task that feeds can meet.
LEMMA Feeding ==
  ASSUME TypeOK, NEW s \in Steps, Inv(ChainOf[s]), feed[s] = "running"
  PROVE  LET c == ChainOf[s] IN
         /\ c \in Chains /\ s \in StepsOf(c) /\ s \in Current(c) /\ phase[c] \in Running
         /\ ~fed[s] /\ req[s] # "none"
         /\ phase[c] \in {"closing", "joining"} /\ verdict[c].kind = "ok" => Caused(c)
         /\ gate[s] = "closed" => phase[c] # "flowing"
         /\ req[s] # "live" /\ phase[c] = "flowing" => Caused(c)
         /\ s \notin Heads => Before(s) \in Current(c) /\ Before(s) \in StepsOf(c)
<1> DEFINE c == ChainOf[s]
<1>1. c \in Chains /\ s \in StepsOf(c)
  BY PlaceOf
<1>2. Progress(s) /\ EndInTurn(s) /\ Decided(c)
  BY <1>1 DEF Inv
<1>3. Here(s) /\ phase[c] \in Running /\ s \in Current(c)
  BY <1>1, <1>2, CurrentIs DEF Progress
<1>4. ~fed[s] /\ req[s] # "none" /\ (req[s] = "ended" => Caused(c))
  BY <1>1, <1>2, <1>3 DEF Progress, Caused, EndedEarly
<1>5. phase[c] \in {"closing", "joining"} /\ verdict[c].kind = "ok" => Caused(c)
  <2>1. SUFFICES ASSUME req[LastOf(c)] = "ended" PROVE Caused(c)
    BY <1>2 DEF Decided
  <2>2. \A t \in StepsOf(c) : EndInTurn(t)
    BY DEF Inv
  <2>3. req[s] = "ended" \/ Cut(s)
    BY <1>1, <1>3, <2>1, <2>2, AllEnded
  <2>4. Cut(s) => Caused(c)
    BY DEF Cut, Caused
  <2>5. QED  BY <1>4, <2>3, <2>4
<1>6. gate[s] = "closed" => phase[c] # "flowing"
  BY <1>2, <1>3 DEF Progress, Running
<1>7. req[s] # "live" /\ phase[c] = "flowing" => Caused(c)
  <2>1. req[s] \in {"none", "live", "ended", "erred", "cancelled"}
    BY DEF TypeOK
  <2>2. req[s] = "cancelled" => Shaken(c)
    BY <1>3 DEF Shaken
  <2>3. req[s] = "erred" => Caused(c)
    BY <1>1 DEF Caused, EndedEarly
  <2>4. QED  BY <1>2, <1>4, <2>1, <2>2, <2>3 DEF Decided
<1>8. s \notin Heads => Before(s) \in Current(c) /\ Before(s) \in StepsOf(c)
  <2>1. SUFFICES ASSUME s \notin Heads PROVE Before(s) \in Current(c) /\ Before(s) \in StepsOf(c)
    OBVIOUS
  <2>2. Before(s) \in Steps /\ ChainOf[Before(s)] = c /\ Here(Before(s))
    BY <1>3, <2>1, BeforeHere, BeforeIs
  <2>3. QED  BY <1>1, <2>2, CurrentIs, StepOf
<1>9. QED  BY <1>1, <1>3, <1>4, <1>5, <1>6, <1>7, <1>8

\* A task that feeds ends, content or with a fault, or goes on.
LEMMA FeedMoves ==
  ASSUME TypeInv, NEW s \in Steps, Inv(ChainOf[s]), feed[s] = "running",
         UNCHANGED <<phase, seg, verdict, req>>,
         NEW f \in {"running", "ok", "fault"}, feed' = [feed EXCEPT ![s] = f],
         NEW g \in {gate[s], "open"}, gate' = [gate EXCEPT ![s] = g],
         NEW e \in BOOLEAN, fed' = [fed EXCEPT ![s] = e],
         e => f = "ok" /\ req[s] = "live" /\ (s \notin Heads => req[Before(s)] = "ended"),
         f = "ok" /\ phase[ChainOf[s]] = "flowing" => e,
         f # "fault" => faults' = faults,
         f = "fault" /\ phase[ChainOf[s]] = "flowing" => Caused(ChainOf[s])
  PROVE  Inv(ChainOf[s])'
<1> DEFINE c == ChainOf[s]
<1>0. TypeOK /\ c \in Chains /\ StepsOf(c) \subseteq Steps
  BY PlaceOf, StepOf DEF TypeInv
<1>1. /\ s \in StepsOf(c) /\ s \in Current(c) /\ phase[c] \in Running
      /\ ~fed[s] /\ req[s] # "none"
      /\ phase[c] \in {"closing", "joining"} /\ verdict[c].kind = "ok" => Caused(c)
      /\ gate[s] = "closed" => phase[c] # "flowing"
  BY <1>0, Feeding
<1> HIDE DEF c
<1>2. Current(c)' = Current(c) /\ LastOf(c)' = LastOf(c) /\ Part(c)' = Part(c)
      /\ Current(c) \subseteq StepsOf(c)
  BY <1>0, CurrentIs, StepOf DEF Current, LastOf, Part
<1>3. \A t \in Steps : /\ feed'[t] = IF t = s THEN f ELSE feed[t]
                       /\ gate'[t] = IF t = s THEN g ELSE gate[t]
                       /\ fed'[t] = IF t = s THEN e ELSE fed[t]
  BY <1>0 DEF TypeOK
<1>9. \A t \in StepsOf(c) : EndedEarly(t) => EndedEarly(t)'
  BY <1>0, <1>3 DEF EndedEarly
<1>10. (\A t \in StepsOf(c) : Cut(t) => Cut(t)') /\ (Caused(c) => Caused(c)')
  BY <1>0, <1>9, CutStays DEF Caused
<1>4. ASSUME NEW t \in StepsOf(c) PROVE Progress(t)' /\ EndInTurn(t)'
  <2>1. /\ t \in Steps /\ ChainOf[t] = c /\ (t \in Current(c) <=> Here(t)) /\ ~(Past(t) /\ Here(t))
        /\ Progress(t) /\ EndInTurn(t)
    BY <1>0, Standing DEF Inv, c
  <2>2. (Here(t)' <=> Here(t)) /\ (Past(t)' <=> Past(t))
    BY DEF Here, Past, Part
  <2>3. /\ feed'[t] = IF t = s THEN f ELSE feed[t]
        /\ gate'[t] = IF t = s THEN g ELSE gate[t]
        /\ fed'[t] = IF t = s THEN e ELSE fed[t]
        /\ req'[t] = req[t]
    BY <1>3, <2>1
  <2>4. Progress(t)'
    BY <1>1, <1>10, <2>1, <2>2, <2>3 DEF Progress, Untouched, Running
  <2>5. EndInTurn(t)'
    BY <1>1, <2>1, <2>2, <2>3 DEF EndInTurn, c
  <2>6. QED  BY <2>4, <2>5
<1>5. Decided(c)'
  <2>1. Decided(c)
    BY DEF Inv, c
  <2>2. phase[c] = "flowing" /\ Shaken(c)' => Caused(c)
    <3>1. CASE f = "fault"
      BY <3>1 DEF c
    <3>2. CASE f # "fault"
      <4>1. Shaken(c)' => Shaken(c)
        <5>1. \A t \in Current(c) : feed'[t] = "fault" => feed[t] = "fault"
          BY <1>0, <1>2, <1>3, <3>2
        <5>2. QED  BY <1>2, <3>2, <5>1 DEF Shaken
      <4>2. QED  BY <2>1, <4>1 DEF Decided
    <3>3. QED  BY <3>1, <3>2
  <2>3. \A t \in StepsOf(c) : req'[t] = req[t]
    OBVIOUS
  <2>4. QED  BY <1>1, <1>2, <1>10, <2>1, <2>2, <2>3 DEF Decided
<1>6. Orderly(c)'
  <2>1. Orderly(c)
    BY DEF Inv, c
  <2>2. QED  BY <1>2, <1>10, <2>1 DEF Orderly
<1>7. Inv(c)'
  BY <1>4, <1>5, <1>6 DEF Inv
<1>8. QED  BY <1>7 DEF c


LEMMA FeedKeeps ==
  ASSUME TypeInv, NEW s \in Steps, Inv(ChainOf[s]), Feed(s)
  PROVE  Inv(ChainOf[s])'
<1> USE DEF chainVars, feedVars, capVars
<1> DEFINE c == ChainOf[s]
<1>0. TypeOK /\ feed[s] = "running" /\ UNCHANGED <<phase, seg, verdict, req>>
  BY DEF TypeInv, Feed, FeedStart, FeedChunk, FeedEnd, FeedErr
<1>1. /\ c \in Chains /\ s \in StepsOf(c) /\ s \in Current(c) /\ phase[c] \in Running
      /\ ~fed[s] /\ req[s] # "none"
      /\ gate[s] = "closed" => phase[c] # "flowing"
      /\ req[s] # "live" /\ phase[c] = "flowing" => Caused(c)
      /\ s \notin Heads => Before(s) \in Current(c) /\ Before(s) \in StepsOf(c)
  BY <1>0, Feeding
<1>2. /\ feed = [feed EXCEPT ![s] = "running"] /\ gate = [gate EXCEPT ![s] = gate[s]]
      /\ fed = [fed EXCEPT ![s] = FALSE] /\ gate[s] \in {"none", "open", "closed"}
  BY <1>0, <1>1 DEF TypeOK
<1>3. ASSUME phase[c] = "flowing" => Caused(c), NEW e, Faulted(s, e), UNCHANGED fed,
             NEW g \in {gate[s], "open"}, gate' = [gate EXCEPT ![s] = g]
      PROVE  Inv(c)'
  BY <1>0, <1>2, <1>3, FeedMoves DEF Faulted
<1> HIDE DEF c
<1>4. CASE FeedStart(s)
  <2>1. gate' = [gate EXCEPT ![s] = "open"] /\ UNCHANGED fed
    BY <1>4 DEF FeedStart
  <2>2. CASE req[s] = "live"
    <3>1. UNCHANGED <<feed, faults>>
      BY <1>4, <2>2 DEF FeedStart
    <3>2. feed' = [feed EXCEPT ![s] = "running"] /\ fed' = [fed EXCEPT ![s] = FALSE]
      BY <1>2, <2>1, <3>1
    <3>3. QED  BY <1>0, <2>1, <3>1, <3>2, FeedMoves DEF c
  <2>3. CASE req[s] # "live"
    <3>1. Faulted(s, Broken(Blamed(s)))
      BY <1>4, <2>3 DEF FeedStart
    <3>2. QED  BY <1>1, <1>3, <2>1, <2>3, <3>1 DEF c
  <2>4. QED  BY <2>2, <2>3
<1>5. CASE FeedChunk(s)
  <2>1. UNCHANGED <<gate, fed>> /\ gate' = [gate EXCEPT ![s] = gate[s]] /\ fed' = [fed EXCEPT ![s] = FALSE]
    BY <1>2, <1>5 DEF FeedChunk
  <2>2. CASE gate[s] = "closed" /\ s \in Heads
    <3>1. Faulted(s, Broken(s))
      BY <1>5, <2>2 DEF FeedChunk
    <3>2. QED  BY <1>1, <1>3, <2>1, <2>2, <3>1 DEF c
  <2>3. CASE gate[s] = "closed" /\ s \notin Heads
    <3>1. feed' = [feed EXCEPT ![s] = "ok"] /\ UNCHANGED faults
      BY <1>5, <2>3 DEF FeedChunk
    <3>2. phase[ChainOf[s]] # "flowing"
      BY <1>1, <2>3 DEF c
    <3>3. QED  BY <1>0, <2>1, <3>1, <3>2, FeedMoves DEF c
  <2>4. CASE gate[s] # "closed" /\ req[s] # "live"
    <3>1. Faulted(s, Broken(Blamed(s)))
      BY <1>5, <2>4 DEF FeedChunk
    <3>2. QED  BY <1>1, <1>3, <2>1, <2>4, <3>1 DEF c
  <2>5. CASE gate[s] # "closed" /\ req[s] = "live"
    <3>1. UNCHANGED <<feed, faults>>
      BY <1>5, <2>5 DEF FeedChunk
    <3>2. feed' = [feed EXCEPT ![s] = "running"]
      BY <1>2, <3>1
    <3>3. QED  BY <1>0, <2>1, <3>1, <3>2, FeedMoves DEF c
  <2>6. QED  BY <2>2, <2>3, <2>4, <2>5
<1>6. CASE FeedEnd(s)
  <2>1. UNCHANGED gate /\ gate' = [gate EXCEPT ![s] = gate[s]]
    BY <1>2, <1>6 DEF FeedEnd
  <2>2. CASE req[s] = "live"
    <3>1. feed' = [feed EXCEPT ![s] = "ok"] /\ fed' = [fed EXCEPT ![s] = TRUE] /\ UNCHANGED faults
      BY <1>6, <2>2 DEF FeedEnd
    <3>2. s \notin Heads => req[Before(s)] = "ended"
      BY <1>6 DEF FeedEnd
    <3>3. QED  BY <1>0, <2>1, <2>2, <3>1, <3>2, FeedMoves DEF c
  <2>3. CASE req[s] # "live"
    <3>1. Faulted(s, Broken(Blamed(s))) /\ UNCHANGED fed
      BY <1>6, <2>3 DEF FeedEnd
    <3>2. QED  BY <1>1, <1>3, <2>1, <2>3, <3>1 DEF c
  <2>4. QED  BY <2>2, <2>3
<1>7. CASE FeedErr(s)
  <2>1. UNCHANGED <<gate, fed>> /\ gate' = [gate EXCEPT ![s] = gate[s]] /\ s \notin Heads
        /\ req[Before(s)] \in {"erred", "cancelled"} /\ \E e : Faulted(s, e)
    BY <1>2, <1>7 DEF FeedErr
  <2>2. phase[c] = "flowing" => Caused(c)
    <3>1. CASE req[Before(s)] = "erred"
      BY <1>1, <2>1, <3>1 DEF Caused, EndedEarly
    <3>2. CASE req[Before(s)] = "cancelled"
      <4>1. Shaken(c)
        BY <1>1, <2>1, <3>2 DEF Shaken
      <4>2. QED  BY <4>1 DEF Inv, Decided, c
    <3>3. QED  BY <2>1, <3>1, <3>2
  <2>3. QED  BY <1>3, <2>1, <2>2 DEF c
<1>8. QED  BY <1>4, <1>5, <1>6, <1>7 DEF Feed, c

LEMMA CapKeeps ==
  ASSUME TypeInv, NEW s \in Steps, Inv(ChainOf[s]), Read(s) \/ Write(s) \/ End(s) \/ Err(s)
  PROVE  Inv(ChainOf[s])'
<1> USE DEF chainVars, feedVars, capVars
<1> DEFINE c == ChainOf[s]
<1>0. /\ TypeOK /\ c \in Chains /\ s \in StepsOf(c) /\ req[s] = "live"
      /\ UNCHANGED <<failure, chainVars, feedVars, fed>>
  BY PlaceOf DEF TypeInv, Read, Write, End, Err
<1>1. /\ Decided(c) /\ (s \in Current(c) <=> Here(s))
      /\ (Past(s) /\ Cut(s)) \/ (Here(s) /\ phase[c] \notin {"unstarted", "ready"})
  BY <1>0, Standing DEF Inv
<1> HIDE DEF c
<1>2. CASE UNCHANGED req
  <2>1. Same(c)
    BY <1>0, <1>2 DEF Same
  <2>2. QED  BY <1>0, <2>1, Elsewhere DEF c
<1>3. CASE End(s) \/ Err(s)
  <2>1. PICK r \in {"ended", "erred"} : req' = [req EXCEPT ![s] = r]
    BY <1>3 DEF End, Err
  <2>2. QED  BY <1>0, <2>1, RequestOver DEF c
<1>4. CASE Write(s) /\ ReceiverGone(s)
  <2>1. req' = [req EXCEPT ![s] = "cancelled"]
    BY <1>4 DEF Write
  <2>2. phase[c] = "opening" => Past(s)
    <3>1. phase[ChainOf[s]] = "opening" /\ s \in Current(ChainOf[s]) => ~ReceiverGone(s)
      BY DEF ReceiverGone
    <3>2. QED  BY <1>1, <1>4, <3>1 DEF c
  <2>3. phase[c] = "flowing" => Caused(c)
    <3>9. Cut(s) => Caused(c)
      BY DEF Cut, Caused, c
    <3>1. SUFFICES ASSUME phase[c] = "flowing", ~Cut(s) PROVE Caused(c)
      BY <3>9
    <3>2. s # LastOf(c) /\ feed[After(s)] \in {"ok", "fault"}
      BY <1>1, <1>4, <3>1 DEF ReceiverGone, c
    <3>3. After(s) \in Current(c) /\ After(s) \notin Heads /\ Before(After(s)) = s
      BY <1>0, <1>1, <3>1, <3>2, AfterIs DEF c
    <3>4. After(s) \in StepsOf(c) /\ Here(After(s)) /\ ChainOf[After(s)] = c
      BY <1>0, <3>3, CurrentIs, StepOf
    <3>5. EndInTurn(After(s))
      BY <3>4 DEF Inv, c
    <3>6. feed[After(s)] # "ok"
      BY <1>0, <3>1, <3>3, <3>4, <3>5 DEF EndInTurn
    <3>7. Shaken(c)
      BY <3>2, <3>3, <3>6 DEF Shaken
    <3>8. QED  BY <1>1, <3>1, <3>7 DEF Decided
  <2>4. QED  BY <1>0, <2>1, <2>2, <2>3, RequestOver DEF c
<1>5. QED  BY <1>2, <1>3, <1>4 DEF Read, Write

-----------------------------------------------------------------------------
(* The theorems                                                            *)

LEMMA InitInv ==
  ASSUME Init
  PROVE  IInv
<1>2. TypeInv
  <2>1. \A c \in Chains : 1 \in Cuts[c] /\ <<>> \in Seq(Errors({"own", "consequence"}))
    BY Positions, EmptySeq
  <2>2. QED  BY <2>1, BoundAssumption DEF Init, TypeInv, TypeOK, ErredCan
<1>3. ASSUME NEW c \in Chains PROVE Inv(c)
  <2>1. ASSUME NEW s \in StepsOf(c) PROVE Progress(s) /\ EndInTurn(s)
    <3>1. s \in Steps /\ ChainOf[s] = c /\ Place[s] \in DOMAIN Plan[c]
      BY StepOf, PlaceOf
    <3>2. ~Past(s)
      <4>1. ~(Place[s] < 1)
        BY <3>1, Positions
      <4>2. QED  BY <3>1, <4>1 DEF Init, Past
    <3>3. phase[c] = "unstarted" /\ req[s] = "none" /\ feed[s] = "idle" /\ ~fed[s] /\ gate[s] = "none"
      BY <3>1 DEF Init
    <3>4. QED  BY <3>1, <3>2, <3>3 DEF Progress, EndInTurn, Untouched, Running
  <2>2. Decided(c)
    BY DEF Init, Decided, Running, Done
  <2>3. Orderly(c)
    BY DEF Init, Orderly
  <2>4. QED  BY <2>1, <2>2, <2>3 DEF Inv
<1>4. QED  BY <1>2, <1>3 DEF IInv

LEMMA Stutter ==
  ASSUME TypeInv, UNCHANGED vars
  PROVE  TypeInv' /\ \A c \in Chains : Inv(c) => Inv(c)'
<1> USE DEF vars, chainVars, feedVars, capVars
<1>1. TypeInv'
  BY DEF TypeInv, TypeOK, ErredCan
<1>2. \A c \in Chains : Same(c)
  BY DEF Same
<1>3. QED  BY <1>1, <1>2, Elsewhere DEF TypeInv

LEMMA NextTyped ==
  ASSUME TypeInv, [Next]_vars
  PROVE  TypeInv'
<1>1. ASSUME NEW c \in Chains, ChainStep(c) \/ Open(c) \/ Refuse(c) \/ Collect(c)
      PROVE  TypeInv'
  BY <1>1, ChainTyped
<1>2. ASSUME NEW s \in Steps, Feed(s) \/ Read(s) \/ Write(s) \/ End(s) \/ Err(s)
      PROVE  TypeInv'
  BY <1>2, StepTyped
<1>3. CASE UNCHANGED vars
  BY <1>3, Stutter
<1>4. QED  BY <1>1, <1>2, <1>3 DEF Next

LEMMA NextInv ==
  ASSUME IInv, [Next]_vars
  PROVE  IInv'
<1>0. TypeInv /\ TypeOK /\ \A c \in Chains : Inv(c)
  BY DEF IInv, TypeInv
<1>1. TypeInv'
  BY <1>0, NextTyped
<1>2. ASSUME NEW c \in Chains, ChainStep(c) \/ Open(c) \/ Refuse(c) \/ Collect(c)
      PROVE  \A d \in Chains : Inv(d)'
  <2>1. ASSUME NEW d \in Chains, d # c PROVE Inv(d)'
    BY <1>0, <1>2, <2>1, ChainStepLocal, Elsewhere
  <2>2. Inv(c)'
    <3>1. CASE Collect(c)
      <4>1. Same(c)
        BY <3>1 DEF Collect, Same, chainVars, feedVars
      <4>2. QED  BY <1>0, <4>1, Elsewhere
    <3>2. CASE ~Collect(c)
      BY <1>0, <1>2, <3>2, BeginKeeps, OpenKeeps, RefuseKeeps, SpawnKeeps, DecideKeeps, TeardownKeeps,
         JoinKeeps, BackoffKeeps DEF ChainStep
    <3>3. QED  BY <3>1, <3>2
  <2>3. QED  BY <2>1, <2>2
<1>3. ASSUME NEW s \in Steps, Feed(s) \/ Read(s) \/ Write(s) \/ End(s) \/ Err(s)
      PROVE  \A d \in Chains : Inv(d)'
  <2>1. ASSUME NEW d \in Chains, d # ChainOf[s] PROVE Inv(d)'
    BY <1>0, <1>3, <2>1, StepLocal, Elsewhere
  <2>2. ChainOf[s] \in Chains
    BY PlaceOf
  <2>3. Inv(ChainOf[s])'
    BY <1>0, <1>3, <2>2, FeedKeeps, CapKeeps
  <2>4. QED  BY <2>1, <2>3
<1>4. ASSUME UNCHANGED vars
      PROVE  \A d \in Chains : Inv(d)'
  BY <1>0, <1>4, Stutter
<1>5. \A d \in Chains : Inv(d)'
  BY <1>2, <1>3, <1>4 DEF Next
<1>6. QED  BY <1>1, <1>5 DEF IInv

\* The states are of their types in every run, caps that end early or not.
THEOREM TypeCorrect == Spec => []TypeOK
<1>1. Init => TypeInv
  BY InitInv DEF IInv
<1>2. TypeInv /\ [Next]_vars => TypeInv'
  BY NextTyped
<1>3. TypeInv => TypeOK
  BY DEF TypeInv
<1>4. QED  BY <1>1, <1>2, <1>3, PTL DEF Spec

\* What a chain (run_chain) returns as a failure of its own, attempts again or
\* tolerates comes from one of its steps: its cap failed, its request was
\* refused, or its cap ENDed before its input did.  What the tasks of a chain
\* meet because it is stopped for another's failure is never such a cause.
THEOREM FailureHasCauseAlways == Spec => []FailureHasCause
<1>1. Init => IInv
  BY InitInv
<1>2. IInv /\ [Next]_vars => IInv'
  BY NextInv
<1>3. IInv => FailureHasCause
  <2>1. SUFFICES ASSUME IInv, NEW c \in Chains, phase[c] \in {"backoff", "finished", "over"},
                        verdict[c].kind \in {"own", "consequence", "absent"}
                 PROVE  \E s \in StepsOf(c) : \/ req[s] = "erred" \/ EndedEarly(s)
                                              \/ s \in Refusable /\ req[s] = "none"
    BY DEF FailureHasCause
  <2>2. Decided(c)
    BY <2>1 DEF IInv, Inv
  <2>3. QED  BY <2>1, <2>2 DEF Decided, Caused, Done
<1>4. QED  BY <1>1, <1>2, <1>3, PTL DEF Spec

-----------------------------------------------------------------------------
(* What is left running                                                    *)

\* The segment returned when a later request was refused.
Refused(s) == LET v == verdict[ChainOf[s]] IN v.kind = "refused" /\ Place[s] < Place[v.step]

Quiet(c) ==
  /\ phase[c] = "backoff" => \A s \in StepsOf(c) : req[s] # "live"
  /\ phase[c] \in {"finished", "over"} => \A s \in StepsOf(c) : req[s] = "live" => Cut(s) \/ Refused(s)

\* A chain of several steps has no policy: its failure stands as it is.
LEMMA FailPlain ==
  ASSUME TypeOK, NEW c \in Chains, NEW e \in Errors({"own", "refused", "consequence", "collateral"}),
         Fail(c, e), Len(Plan[c]) # 1
  PROVE  phase'[c] = "finished" /\ verdict'[c] = e
<1>1. Retries[c] \in Nat /\ ~(Retries[c] > 0) /\ c \notin Tolerated
  BY PlanAssumption, CapAssumption
<1>2. ~(tries[c] < Retries[c])
  BY <1>1 DEF TypeOK
<1>3. QED  BY <1>1, <1>2 DEF Fail, TypeOK

\* Two places of a chain are two steps.
LEMMA TwoPlaces ==
  ASSUME NEW c \in Chains, NEW s \in StepsOf(c), NEW t \in StepsOf(c), Place[s] < Place[t]
  PROVE  Len(Plan[c]) # 1
<1>1. Place[s] \in DOMAIN Plan[c] /\ Place[t] \in DOMAIN Plan[c]
  BY StepOf, PlaceOf
<1>2. QED  BY <1>1, Positions

\* A chain comes to be done with what it had to leave only.
LEMMA QuietEnd ==
  ASSUME TypeInv, NEW c \in Chains, Inv(c),
         ChainStep(c) \/ Open(c) \/ Refuse(c) \/ Collect(c), phase[c] \notin Done, phase'[c] \in Done
  PROVE  Quiet(c)'
<1> USE DEF chainVars, feedVars, capVars
<1>0. /\ TypeOK /\ Orderly(c) /\ Current(c) \subseteq StepsOf(c)
      /\ \A s \in StepsOf(c) : s \in Steps /\ ChainOf[s] = c
      /\ \A s \in StepsOf(c) : req[s] = "live" =>
           Cut(s) \/ (s \in Current(c) /\ phase[c] \notin {"unstarted", "ready"})
  BY Standing, CurrentIs, StepOf DEF TypeInv, Inv
<1>1. Begin(c) \/ Refuse(c) \/ Join(c)
  <2>1. Start(c) => phase'[c] = "ready"
    BY <1>0 DEF Start, TypeOK
  <2>2. Spawn(c) => phase'[c] = "flowing"
    BY <1>0 DEF Spawn, TypeOK
  <2>3. Decide(c) => phase'[c] \in {"teardown", "closing"}
    BY <1>0 DEF Decide, TypeOK
  <2>4. Teardown(c) => phase'[c] \in {"teardown", "closing"}
    BY <1>0 DEF Teardown, TypeOK
  <2>5. CloseGates(c) => phase'[c] = "joining"
    BY <1>0 DEF CloseGates, TypeOK
  <2>6. Open(c) \/ Collect(c) => phase'[c] = phase[c]
    BY DEF Open, Collect
  <2>7. Backoff(c) \/ Reap(c) => phase[c] \in Done
    BY DEF Backoff, Reap, Done
  <2>8. QED  BY <2>1, <2>2, <2>3, <2>4, <2>5, <2>6, <2>7 DEF ChainStep, Done
<1>2. UNCHANGED <<req, fed>>
  BY <1>1 DEF Begin, Refuse, Join
<1>3. \A s \in StepsOf(c) : Cut(s) => Cut(s)'
  BY <1>2, CutStays DEF EndedEarly
<1>4. ASSUME NEW s \in StepsOf(c), req[s] = "live", Cut(s)
      PROVE  phase'[c] # "backoff"
  <2>1. Len(Plan[c]) # 1
    BY <1>0, <1>4, TwoPlaces DEF Cut
  <2>2. ASSUME NEW e \in Errors({"own", "refused", "consequence", "collateral"}), Fail(c, e)
        PROVE  phase'[c] # "backoff"
    BY <1>0, <2>1, <2>2, FailPlain
  <2>3. CASE Begin(c)
    BY <1>0, <2>2, <2>3, StoppedTyped DEF Begin, TypeOK
  <2>4. CASE Refuse(c)
    <3>1. NextOf(c) \in Steps
      BY <1>0, <2>4, NextOfIs DEF Refuse
    <3>2. QED  BY <2>2, <2>4, <3>1, ErrorTyped DEF Refuse, Classes
  <2>5. CASE Join(c)
    <3>1. verdict[c] \in Errors({"own", "refused", "consequence", "collateral"}) \cup {None, Ok, Absent}
      BY <1>0 DEF TypeOK
    <3>2. IsError(verdict[c]) => verdict[c] \in Errors({"own", "refused", "consequence", "collateral"})
      BY <3>1 DEF IsError, None, Ok, Absent
    <3>3. QED  BY <1>0, <2>2, <2>5, <3>2 DEF Join, TypeOK
  <2>6. QED  BY <1>1, <2>3, <2>4, <2>5
<1>5. CASE Begin(c) \/ Join(c)
  <2>1. \A s \in StepsOf(c) : req[s] = "live" => Cut(s)
    BY <1>0, <1>5 DEF Begin, Join, Orderly
  <2>2. QED  BY <1>2, <1>3, <1>4, <2>1 DEF Quiet
<1>6. CASE Refuse(c)
  <2>1. /\ phase[c] = "opening" /\ Unopened(c) # {}
        /\ Fail(c, Error(NextOf(c), "Internal", "refused"))
    BY <1>6 DEF Refuse
  <2> DEFINE n == NextOf(c)
             e == Error(n, "Internal", "refused")
  <2>2. PICK k \in Part(c) : n = Plan[c][k] /\ req[n] = "none" /\ n \in StepsOf(c)
    BY <1>0, <2>1, NextOfIs
  <2>3. n \in Steps /\ Place[n] = k
    BY <1>0, <2>2, PartIs, StepAt
  <2>4. e \in Errors({"own", "refused", "consequence", "collateral"}) /\ e.kind = "refused" /\ e.step = n
    BY <2>3, ErrorTyped DEF Error, Classes
  <2>5. Fail(c, e)
    BY <2>1
  <2> HIDE DEF n, e
  <2>6. ASSUME NEW s \in StepsOf(c), req[s] = "live", ~Cut(s)
        PROVE  Refused(s)' /\ phase'[c] # "backoff"
    <3>1. s \in Current(c)
      BY <1>0, <2>6
    <3>2. PICK j \in Part(c) : s = Plan[c][j]
      BY <3>1 DEF Current
    <3>3. Place[s] = j /\ j \in Nat /\ k \in Nat
      BY <1>0, <2>2, <3>2, PartIs, StepAt, Positions
    <3>4. j # k /\ ~(k < j)
      BY <1>0, <2>1, <2>2, <2>6, <3>2 DEF Orderly
    <3>5. Place[s] < Place[n]
      BY <2>3, <3>3, <3>4
    <3>6. phase'[c] = "finished" /\ verdict'[c] = e
      BY <1>0, <2>2, <2>4, <2>5, <3>5, FailPlain, TwoPlaces
    <3>7. QED  BY <1>0, <2>4, <3>5, <3>6 DEF Refused
  <2>7. ASSUME NEW s \in StepsOf(c), req[s] = "live"
        PROVE  phase'[c] # "backoff" /\ (Cut(s)' \/ Refused(s)')
    BY <1>3, <1>4, <2>6, <2>7
  <2>8. QED  BY <1>2, <2>7 DEF Quiet
<1>7. QED  BY <1>1, <1>5, <1>6

LEMMA NextQuiet ==
  ASSUME IInv, \A d \in Chains : Quiet(d), [Next]_vars
  PROVE  \A d \in Chains : Quiet(d)'
<1> USE DEF chainVars, feedVars, capVars
<1>0. TypeInv /\ TypeOK /\ \A d \in Chains : Inv(d) /\ Quiet(d)
  BY DEF IInv, TypeInv
<1>1. ASSUME NEW d \in Chains, Same(d) PROVE Quiet(d)'
  <2>1. \A s \in StepsOf(d) : Cut(s) => Cut(s)'
    BY <1>1, CutStays DEF Same, EndedEarly
  <2>2. \A s \in StepsOf(d) : Refused(s) => Refused(s)'
    BY <1>1, StepOf DEF Same, Refused
  <2>3. QED  BY <1>0, <1>1, <2>1, <2>2 DEF Same, Quiet
<1>2. ASSUME NEW c \in Chains, ChainStep(c) \/ Open(c) \/ Refuse(c) \/ Collect(c)
      PROVE  \A d \in Chains : Quiet(d)'
  <2>1. ASSUME NEW d \in Chains, d # c PROVE Quiet(d)'
    BY <1>0, <1>1, <1>2, <2>1, ChainStepLocal
  <2>2. CASE phase[c] \notin Done
    <3>1. CASE phase'[c] \in Done
      BY <1>0, <1>2, <2>1, <2>2, <3>1, QuietEnd
    <3>2. CASE phase'[c] \notin Done
      BY <2>1, <3>2 DEF Quiet, Done
    <3>3. QED  BY <3>1, <3>2
  <2>3. CASE phase[c] \in Done
    <3>1. Backoff(c) \/ Reap(c)
      BY <1>2, <2>3 DEF Done, ChainStep, Start, Begin, Spawn, Decide, Teardown, CloseGates, Join,
         Open, Refuse, Collect
    <3>2. CASE Backoff(c)
      <4>1. phase[c] = "backoff" /\ (phase'[c] = "ready" \/ (phase'[c] = "finished" /\ req' = req))
        BY <1>0, <3>2 DEF Backoff, TypeOK
      <4>2. Quiet(c)'
        BY <1>0, <4>1 DEF Quiet
      <4>3. QED  BY <2>1, <4>2
    <3>3. CASE Reap(c)
      <4>1. phase[c] = "finished" /\ phase'[c] = "over" /\ UNCHANGED <<req, fed, verdict>>
        BY <1>0, <3>3 DEF Reap, TypeOK
      <4>2. \A s \in StepsOf(c) : (Cut(s) => Cut(s)') /\ (Refused(s) => Refused(s)')
        BY <4>1 DEF Cut, EndedEarly, Refused
      <4>3. Quiet(c)'
        BY <1>0, <4>1, <4>2 DEF Quiet
      <4>4. QED  BY <2>1, <4>3
    <3>4. QED  BY <3>1, <3>2, <3>3
  <2>4. QED  BY <2>2, <2>3
<1>3. ASSUME NEW s \in Steps, Feed(s) \/ Read(s) \/ Write(s) \/ End(s) \/ Err(s)
      PROVE  \A d \in Chains : Quiet(d)'
  <2>1. phase' = phase /\ verdict' = verdict
    BY <1>3 DEF Feed, FeedStart, FeedChunk, FeedEnd, FeedErr, Read, Write, End, Err
  <2>2. /\ req' = req \/ (req[s] = "live" /\ \E r \in {"ended", "erred", "cancelled"} : req' = [req EXCEPT ![s] = r])
        /\ fed' = fed \/ (req[s] = "live" /\ req' = req /\ fed' = [fed EXCEPT ![s] = TRUE])
    BY <1>3 DEF Feed, FeedStart, FeedChunk, FeedEnd, FeedErr, Read, Write, End, Err
  <2>3. ASSUME NEW t \in Steps
        PROVE  (req'[t] = "live" => req[t] = "live") /\ (EndedEarly(t) => EndedEarly(t)')
    BY <1>0, <2>2 DEF TypeOK, EndedEarly
  <2>4. ASSUME NEW d \in Chains PROVE Quiet(d)'
    <3>1. StepsOf(d) \subseteq Steps /\ Quiet(d)
      BY <1>0, StepsIn
    <3>2. \A t \in StepsOf(d) : Cut(t) => Cut(t)'
      BY <2>3, <3>1, CutStays
    <3>3. \A t \in StepsOf(d) : Refused(t) => Refused(t)'
      BY <2>1 DEF Refused
    <3>4. QED  BY <2>1, <2>3, <3>1, <3>2, <3>3 DEF Quiet
  <2>5. QED  BY <2>4
<1>4. ASSUME UNCHANGED vars
      PROVE  \A d \in Chains : Quiet(d)'
  BY <1>1, <1>4 DEF vars, Same
<1>5. QED  BY <1>2, <1>3, <1>4 DEF Next

\* A chain leaves a request running in the two cases only that run_step_chain
\* has no teardown for: a later request of the segment was refused, or a later
\* cap ENDed before its input did and the END of the last step was trusted.
THEOREM NothingLeftAlways == Spec => []NothingLeft
<1> DEFINE Left == IInv /\ \A c \in Chains : Quiet(c)
<1>1. Init => Left
  BY InitInv DEF Init, Quiet
<1>2. Left /\ [Next]_vars => Left'
  BY NextInv, NextQuiet
<1>3. Left => NothingLeft
  <2>1. SUFFICES ASSUME Left, NEW s \in Steps, LeftRunning(s) PROVE Refused(s) \/ Cut(s)
    BY DEF NothingLeft, Refused, Cut
  <2>2. ChainOf[s] \in Chains /\ s \in StepsOf(ChainOf[s]) /\ req[s] = "live"
    BY <2>1, PlaceOf DEF LeftRunning
  <2>3. CASE phase[ChainOf[s]] \in Done
    BY <2>1, <2>2, <2>3 DEF Quiet, Done
  <2>4. CASE phase[ChainOf[s]] \notin Done
    BY <2>1, <2>2, <2>4 DEF LeftRunning, Done, IInv, Inv, Progress, Past
  <2>5. QED  BY <2>3, <2>4
<1>4. QED  BY <1>1, <1>2, <1>3, PTL DEF Spec
=============================================================================
