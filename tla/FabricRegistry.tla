--------------------------- MODULE FabricRegistry ---------------------------
(***************************************************************************)
(* The definitions a process holds of its fabric (fabric/registry.rs) and  *)
(* the graph of caps that is built from them (the relay switch's           *)
(* LiveCapFab).  A definition is cached with everything it names, or not   *)
(* at all; lookups and one background consumer fetch what is missing, each *)
(* on its own; whatever lands is announced, and the graph is rebuilt.      *)
(*                                                                         *)
(* A process is pinned to one manifest, and reads what it starts with from *)
(* a directory that processes of other pins write, clear and repair at the *)
(* same time (clear_cache; a file found half-written is removed): what a   *)
(* start finds there of a definition is any published version, or none.    *)
(* The files are therefore not kept as state.  Aliases, which name nothing *)
(* that must be cached with them, are left out, and so are caps under      *)
(* development, which the command line puts into the cache by itself.      *)
(* Which media of the graph are of files (its bookends) is left out too.   *)
(***************************************************************************)
EXTENDS Naturals, SequencesExt

CONSTANTS
  Caps, Media, Dims,  \* what the registry defines
  MediaOf,            \* [cap -> the media it refers to]
  DimsOf,             \* [cap or medium -> the dims it names]
  Pins,               \* the manifests a process may be pinned to
  Manifest,           \* [pin -> [definition -> its version there]]
  Patient,            \* lookups that await their fetch (get_cap, get_media_def, prefetch)
  Impatient           \* lookups with SYNC_FETCH_DEADLINE (get_cached_cap, get_cached_media_def)

Definitions == Caps \cup Media \cup Dims
Queueable == Caps \cup Media
Lookups == Patient \cup Impatient
Fetchers == Lookups \cup {"consumer"}
Builders == {"listener", "notified"}
Versions == {Manifest[p][d] : p \in Pins, d \in Definitions}

ASSUME DefinitionsAssumption ==
  /\ Caps \cap Media = {} /\ Caps \cap Dims = {} /\ Media \cap Dims = {}
  /\ MediaOf \in [Caps -> SUBSET Media] /\ DimsOf \in [Queueable -> SUBSET Dims]
ASSUME ManifestAssumption == Manifest \in [Pins -> [Definitions -> Nat \ {0}]]
ASSUME LookupsAssumption == "consumer" \notin Lookups /\ Patient \cap Impatient = {}

VARIABLES
  up,       \* the process runs
  pin,      \* manifest_version
  mem,      \* cached_caps, cached_media_defs, cached_dims: version, or Absent
  found,    \* the definitions that were read from disk
  fetching, \* what each fetcher awaits: a definition, on top of it what it names
  queue,    \* the background queue
  inQueue,  \* fetch_in_queue
  serving,  \* what the consumer took from the queue, or nothing
  adv,      \* aggregate_capabilities
  changed,  \* it changed, and the graph is yet to be rebuilt for that
  revised,  \* a cache revision the listener has not seen
  build,    \* what a rebuild under way has read
  graph,    \* live_cap_fab: its caps
  calm      \* from now on nothing fails (what Hydrated is about)

memory == <<mem, found>>
fetches == <<fetching, queue, inQueue, serving>>
graphVars == <<adv, changed, build, graph>>
vars == <<up, pin, memory, fetches, revised, graphVars, calm>>

Absent == 0
NoKey == "none"
Cached == {d \in Definitions : mem[d] # Absent}

\* What has to be cached before d is: media first, then dims.
Names(d) == IF d \in Caps THEN MediaOf[d] \cup DimsOf[d]
            ELSE IF d \in Media THEN DimsOf[d] ELSE {}
\* MUTANT of Missing: a cap's dims are not looked at.
Missing_NoDims(d) == (Names(d) \ Cached) \cap Media
Missing(d) == IF Names(d) \cap Media \subseteq Cached THEN Names(d) \ Cached
              ELSE (Names(d) \cap Media) \ Cached

\* MUTANT of Retained: dims of other versions count while they are still there.
Retained_Early(p, disk) ==
  [d \in Definitions |->
     IF disk[d] = Manifest[p][d] /\ (d \in Queueable => \A n \in DimsOf[d] : disk[n] # Absent)
     THEN disk[d] ELSE Absent]

\* retain_pinned: of what was on disk, what the manifest names at its version,
\* and of that the definitions whose dims are there.
Pinned(p, disk) ==
  [d \in Definitions |-> IF disk[d] = Manifest[p][d] THEN disk[d] ELSE Absent]
Retained(p, disk) ==
  [d \in Definitions |->
     IF d \in Queueable /\ \E n \in DimsOf[d] : Pinned(p, disk)[n] = Absent
     THEN Absent ELSE Pinned(p, disk)[d]]

\* What the disk may hold: of each definition one that was published, or none.
Disks == [Definitions -> Versions \cup {Absent}]

Idle == [at |-> "idle", caps |-> {}]

Init ==
  /\ up = FALSE /\ pin \in Pins
  /\ mem = [d \in Definitions |-> Absent] /\ found = {}
  /\ fetching = [t \in Fetchers |-> <<>>]
  /\ queue = <<>> /\ inQueue = {} /\ serving = NoKey
  /\ adv = {} /\ changed = FALSE /\ revised = FALSE
  /\ build = [b \in Builders |-> Idle] /\ graph = {}
  /\ calm = FALSE

-----------------------------------------------------------------------------
(* The process                                                             *)

\* It starts from what is on disk, or with bypass_cache from nothing.
Start ==
  /\ ~up /\ up' = TRUE
  /\ \E p \in Pins, disk \in Disks :
       /\ pin' = p
       /\ mem' = Retained(p, disk)
       /\ found' = {d \in Definitions : Retained(p, disk)[d] # Absent}
  /\ UNCHANGED <<fetches, revised, graphVars, calm>>

\* It stops, and all it held is gone.
Stop ==
  /\ up /\ up' = FALSE
  /\ mem' = [d \in Definitions |-> Absent] /\ found' = {}
  /\ fetching' = [t \in Fetchers |-> <<>>]
  /\ queue' = <<>> /\ inQueue' = {} /\ serving' = NoKey
  /\ adv' = {} /\ changed' = FALSE /\ revised' = FALSE
  /\ build' = [b \in Builders |-> Idle] /\ graph' = {}
  /\ UNCHANGED <<pin, calm>>

-----------------------------------------------------------------------------
(* Fetching                                                                *)

\* enqueue_for_background_fetch, for each of D.
Enqueue(D) ==
  /\ queue' = queue \o SetToSeq(D \ inQueue)
  /\ inQueue' = inQueue \cup D

LookUp(t, d) ==
  /\ up /\ fetching[t] = <<>> /\ d \notin Cached
  /\ fetching' = [fetching EXCEPT ![t] = <<d>>]
  /\ UNCHANGED <<up, pin, memory, queue, inQueue, serving, revised, graphVars, calm>>

\* A body has come, or what it named before is cached: the next thing it names
\* is fetched, or when none is missing it is cached and announced.
Fetch(t) ==
  /\ fetching[t] # <<>>
  /\ LET d == Last(fetching[t]) IN
       \/ \E n \in Missing(d) :
            /\ fetching' = [fetching EXCEPT ![t] = Append(@, n)]
            /\ UNCHANGED <<mem, revised>>
       \/ /\ Missing(d) = {}
          /\ fetching' = [fetching EXCEPT ![t] = Front(@)]
          /\ mem' = [mem EXCEPT ![d] = Manifest[pin][d]]
          /\ revised' = TRUE
  /\ UNCHANGED <<up, pin, found, queue, inQueue, serving, graphVars, calm>>

\* The network, the registry or the disk fails a fetch, and with it all it was
\* part of.
FetchFails(t) ==
  /\ fetching[t] # <<>> /\ t \notin Impatient /\ ~calm
  /\ fetching' = [fetching EXCEPT ![t] = <<>>]
  /\ UNCHANGED <<up, pin, memory, queue, inQueue, serving, revised, graphVars, calm>>

\* At its deadline, or at a failure, such a lookup leaves it to the consumer.
GiveUp(t) ==
  /\ fetching[t] # <<>> /\ t \in Impatient
  /\ fetching' = [fetching EXCEPT ![t] = <<>>]
  /\ Enqueue({Head(fetching[t])})
  /\ UNCHANGED <<up, pin, memory, serving, revised, graphVars, calm>>

\* run_fetch_consumer takes the next key; what is cached already it passes by.
Serve ==
  /\ serving = NoKey /\ queue # <<>>
  /\ serving' = Head(queue) /\ queue' = Tail(queue)
  /\ fetching' = [fetching EXCEPT !["consumer"] =
                    IF Head(queue) \in Cached THEN <<>> ELSE <<Head(queue)>>]
  /\ UNCHANGED <<up, pin, memory, inQueue, revised, graphVars, calm>>

\* MUTANT of Left: a key whose fetch failed is not taken out.
Left_Success(d) == IF d \in Cached THEN inQueue \ {d} ELSE inQueue
\* Fetched or not, the key may be queued again.
Left(d) == inQueue \ {d}

Served ==
  /\ serving # NoKey /\ fetching["consumer"] = <<>>
  /\ serving' = NoKey
  /\ inQueue' = Left(serving)
  /\ UNCHANGED <<up, pin, memory, fetching, queue, revised, graphVars, calm>>

-----------------------------------------------------------------------------
(* The graph                                                               *)

\* The caps the masters offer change.
Advertise(C) ==
  /\ up /\ C # adv
  /\ adv' = C /\ changed' = TRUE
  /\ UNCHANGED <<up, pin, memory, fetches, revised, build, graph, calm>>

\* rebuild_live_cap_fab_from_current_capabilities, for a change of the caps or
\* a revision of the cache: first the caps on offer are read ...
ReadCurrent(b) ==
  /\ build[b].at = "idle"
  /\ IF b = "listener" THEN revised /\ revised' = FALSE /\ UNCHANGED changed
                       ELSE changed /\ changed' = FALSE /\ UNCHANGED revised
  /\ build' = [build EXCEPT ![b] = [at |-> "read", caps |-> adv]]
  /\ UNCHANGED <<up, pin, memory, fetches, adv, graph, calm>>

\* ... then, under the graph's lock, it is built anew of the caps that are
\* cached, and the others are asked for (sync_from_cap_urns).
WriteGraph(b) ==
  /\ build[b].at = "read"
  /\ LET kept == build[b].caps \cap Cached IN
       /\ graph' = kept
       /\ Enqueue(build[b].caps \ kept)
  /\ build' = [build EXCEPT ![b] = Idle]
  /\ UNCHANGED <<up, pin, memory, fetching, serving, adv, changed, revised, calm>>

-----------------------------------------------------------------------------

\* From here on nothing fails, nor is a failure still being put away.
Calm ==
  /\ ~calm /\ calm' = TRUE
  /\ serving # NoKey => fetching["consumer"] # <<>>
  /\ UNCHANGED <<up, pin, memory, fetches, revised, graphVars>>

ConsumerStep == Serve \/ Fetch("consumer") \/ Served

Next == \/ Start \/ Stop \/ Calm
        \/ \E t \in Lookups, d \in Queueable : LookUp(t, d)
        \/ \E t \in Lookups : Fetch(t) \/ GiveUp(t)
        \/ \E t \in Fetchers : FetchFails(t)
        \/ ConsumerStep
        \/ \E C \in SUBSET Caps : Advertise(C)
        \/ \E b \in Builders : ReadCurrent(b) \/ WriteGraph(b)

Spec == Init /\ [][Next]_vars

\* The consumer and the two that rebuild the graph are tasks that run.
FairSpec == /\ Spec /\ WF_vars(ConsumerStep)
            /\ \A b \in Builders : WF_vars(ReadCurrent(b)) /\ WF_vars(WriteGraph(b))

-----------------------------------------------------------------------------
(* Properties                                                              *)

\* Every variable has its type.
TypeOK ==
  /\ up \in BOOLEAN /\ pin \in Pins /\ calm \in BOOLEAN
  /\ mem \in [Definitions -> Nat] /\ found \subseteq Definitions
  /\ fetching \in [Fetchers -> Seq(Definitions)]
  /\ queue \in Seq(Queueable) /\ inQueue \subseteq Queueable /\ serving \in Queueable \cup {NoKey}
  /\ adv \subseteq Caps /\ changed \in BOOLEAN /\ revised \in BOOLEAN
  /\ build \in [Builders -> [at : {"idle", "read"}, caps : SUBSET Caps]]
  /\ graph \subseteq Caps

\* "A reader holding a cached definition can always read the documentation of
\* the dims it was built from" (registry.rs:24-27), at the version the manifest
\* pins; and the media of a cap that was fetched.  (Whatever the disk held, and
\* whatever else was being fetched when it landed.)
Whole ==
  \A d \in Cached \cap Queueable :
    /\ mem[d] = Manifest[pin][d]
    /\ \A n \in DimsOf[d] : mem[n] = Manifest[pin][n]
    /\ d \in Caps \ found => MediaOf[d] \subseteq Cached

\* A cap that is offered and was asked for gets into the graph, whatever failed
\* before, when nothing fails any more: the queue forgets no key, keeps none
\* for good, and no revision is missed.
Hydrated ==
  \A c \in Caps :
    (calm /\ c \in inQueue \ Cached) ~> (c \in graph \/ c \notin adv \/ ~up)

\* The graph is that of the caps on offer once nothing is left to do.  (Not so:
\* of two rebuilds the one that read first may write last.)
Settled == /\ ~changed /\ ~revised /\ \A b \in Builders : build[b] = Idle
GraphCurrent == up /\ Settled => graph = adv \cap Cached

\* "Any cap landing in the cap cache has every one of its referenced media defs
\* already in the media cache" (registry.rs:19-22).  (Not so of one read from
\* disk: its media may be of another version, or gone.)
MediaAtHand == \A c \in Caps \cap Cached : MediaOf[c] \subseteq Cached
=============================================================================
