----------------------- MODULE FabricRegistry_proofs -----------------------
(***************************************************************************)
(* For any definitions, manifests and lookups: a definition that is cached *)
(* is whole.  Inductive with one fact more, that everything cached, dims   *)
(* and media included, has the version of the pin; and with the types of   *)
(* the three variables it is about.                                        *)
(***************************************************************************)
EXTENDS FabricRegistry, TLAPS

MemoryType == pin \in Pins /\ mem \in [Definitions -> Nat] /\ found \subseteq Definitions

\* Nothing cached is of another version.
AllPinned == \A d \in Cached : mem[d] = Manifest[pin][d]

IInv == MemoryType /\ AllPinned /\ Whole

\* What retain_pinned keeps has the version of the pin, and its dims with it.
LEMMA RetainedWhole ==
  ASSUME NEW p \in Pins, NEW disk \in Disks
  PROVE  /\ Retained(p, disk) \in [Definitions -> Nat]
         /\ \A d \in Definitions : Retained(p, disk)[d] # Absent =>
              /\ Retained(p, disk)[d] = Manifest[p][d]
              /\ d \in Queueable =>
                   \A n \in DimsOf[d] : Retained(p, disk)[n] = Manifest[p][n]
<1>1. Versions \subseteq Nat
  BY ManifestAssumption DEF Versions
<1>2. disk \in [Definitions -> Nat]
  <2>1. Versions \cup {Absent} \subseteq Nat
    BY <1>1 DEF Absent
  <2>2. QED  BY <2>1 DEF Disks
<1>3. \A d \in Definitions : Pinned(p, disk)[d] \in {Absent, Manifest[p][d]} /\ Pinned(p, disk)[d] \in Nat
  BY <1>2 DEF Pinned, Absent
<1>4. \A n \in Dims : n \in Definitions /\ n \notin Queueable
  BY DefinitionsAssumption DEF Definitions, Queueable
<1>5. Retained(p, disk) \in [Definitions -> Nat]
  BY <1>3 DEF Retained, Absent
<1>6. ASSUME NEW d \in Definitions, Retained(p, disk)[d] # Absent
      PROVE  Retained(p, disk)[d] = Manifest[p][d]
  BY <1>3, <1>6 DEF Retained
<1>7. ASSUME NEW d \in Definitions, Retained(p, disk)[d] # Absent, d \in Queueable,
             NEW n \in DimsOf[d]
      PROVE  Retained(p, disk)[n] = Manifest[p][n]
  <2>1. n \in Dims
    BY <1>7, DefinitionsAssumption
  <2>2. Pinned(p, disk)[n] # Absent
    BY <1>7 DEF Retained
  <2>3. Retained(p, disk)[n] = Pinned(p, disk)[n]
    BY <2>1, <1>4 DEF Retained
  <2>4. QED  BY <2>1, <2>2, <2>3, <1>3, <1>4
<1>8. QED  BY <1>5, <1>6, <1>7

LEMMA StartsWhole == Init => IInv
<1> SUFFICES ASSUME Init PROVE IInv
  OBVIOUS
<1>1. Cached = {}
  BY DEF Init, Cached
<1>2. MemoryType
  BY DEF Init, MemoryType, Absent
<1>3. QED  BY <1>1, <1>2 DEF IInv, AllPinned, Whole

\* A fetch caches what it was for only when all that it names is cached.
LEMMA FetchKeepsWhole ==
  ASSUME NEW t, IInv, Fetch(t)
  PROVE  IInv'
<1> DEFINE d == Last(fetching[t])
<1>1. CASE mem' = mem
  <2>1. pin' = pin /\ found' = found /\ Cached' = Cached
    BY <1>1 DEF Fetch, Cached
  <2>2. QED  BY <2>1, <1>1 DEF IInv, MemoryType, AllPinned, Whole
<1>2. CASE Missing(d) = {} /\ mem' = [mem EXCEPT ![d] = Manifest[pin][d]]
  <2>1. pin' = pin /\ found' = found
    BY DEF Fetch
  <2>2. CASE d \notin Definitions
    <3>1. mem' = mem
      BY <1>2, <2>2 DEF IInv, MemoryType
    <3>2. QED  BY <1>1, <3>1
  <2>3. CASE d \in Definitions
    <3>1. Manifest[pin][d] \in Nat \ {0}
      BY <2>3, ManifestAssumption DEF IInv, MemoryType
    <3>2. mem' \in [Definitions -> Nat]
      BY <1>2, <3>1 DEF IInv, MemoryType
    <3>3. Cached' = Cached \cup {d}
      BY <1>2, <2>3, <3>1 DEF Cached, Absent, IInv, MemoryType
    <3>4. \A e \in Cached' : mem'[e] = Manifest[pin][e]
      BY <1>2, <2>3, <3>3 DEF IInv, MemoryType, AllPinned, Cached
    <3>5. Names(d) \subseteq Cached
      BY <1>2 DEF Missing
    <3>6. \A e \in Cached' \cap Queueable : DimsOf[e] \subseteq Cached'
      <4>1. \A e \in Cached \cap Queueable : \A n \in DimsOf[e] : n \in Definitions /\ mem[n] # Absent
        <5>1. ASSUME NEW e \in Cached \cap Queueable, NEW n \in DimsOf[e]
              PROVE  n \in Definitions /\ mem[n] # Absent
          <6>1. n \in Definitions
            BY DefinitionsAssumption DEF Definitions, Queueable
          <6>2. Manifest[pin][n] \in Nat \ {0}
            BY <6>1, ManifestAssumption DEF IInv, MemoryType
          <6>3. QED  BY <6>1, <6>2 DEF IInv, Whole, Absent
        <5>2. QED  BY <5>1
      <4>2. d \in Queueable => DimsOf[d] \subseteq Cached
        BY <3>5 DEF Names, Queueable
      <4>3. QED  BY <4>1, <4>2, <3>3 DEF Cached
    <3>7. \A c \in (Caps \cap Cached') \ found' : MediaOf[c] \subseteq Cached'
      BY <3>3, <3>5, <2>1 DEF Names, IInv, Whole, Queueable
    <3>8. QED
      BY <2>1, <3>2, <3>4, <3>6, <3>7 DEF IInv, MemoryType, AllPinned, Whole
  <2>4. QED  BY <2>2, <2>3
<1>3. QED  BY <1>1, <1>2 DEF Fetch

LEMMA StaysWhole == IInv /\ [Next]_vars => IInv'
<1> SUFFICES ASSUME IInv, [Next]_vars PROVE IInv'
  OBVIOUS
<1>1. ASSUME UNCHANGED <<pin, memory>> PROVE IInv'
  <2>1. Cached' = Cached
    BY <1>1 DEF memory, Cached
  <2>2. QED  BY <1>1, <2>1 DEF memory, IInv, MemoryType, AllPinned, Whole
<1>2. CASE Start
  <2>1. PICK p \in Pins, disk \in Disks :
          pin' = p /\ mem' = Retained(p, disk)
          /\ found' = {d \in Definitions : Retained(p, disk)[d] # Absent}
    BY <1>2 DEF Start
  <2>2. Cached' = found'
    BY <2>1 DEF Cached
  <2>3. MemoryType' /\ AllPinned'
    BY <2>1, <2>2, RetainedWhole DEF MemoryType, AllPinned
  <2>4. \A d \in Cached' \cap Queueable : \A n \in DimsOf[d] : mem'[n] = Manifest[pin'][n]
    BY <2>1, <2>2, RetainedWhole
  <2>5. QED  BY <2>2, <2>3, <2>4 DEF IInv, AllPinned, Whole
<1>3. CASE Stop
  <2>1. Cached' = {}
    BY <1>3 DEF Stop, Cached
  <2>2. QED  BY <1>3, <2>1 DEF Stop, IInv, MemoryType, AllPinned, Whole, Absent
<1>4. CASE Calm
  BY <1>1, <1>4 DEF Calm
<1>5. ASSUME NEW t \in Lookups, NEW d \in Queueable, LookUp(t, d) PROVE IInv'
  BY <1>1, <1>5 DEF LookUp
<1>6. ASSUME NEW t \in Lookups, Fetch(t) \/ GiveUp(t) PROVE IInv'
  BY <1>1, <1>6, FetchKeepsWhole DEF GiveUp
<1>7. ASSUME NEW t \in Fetchers, FetchFails(t) PROVE IInv'
  BY <1>1, <1>7 DEF FetchFails
<1>8. CASE ConsumerStep
  BY <1>1, <1>8, FetchKeepsWhole DEF ConsumerStep, Serve, Served
<1>9. ASSUME NEW C \in SUBSET Caps, Advertise(C) PROVE IInv'
  BY <1>1, <1>9 DEF Advertise
<1>10. ASSUME NEW b \in Builders, ReadCurrent(b) \/ WriteGraph(b) PROVE IInv'
  BY <1>1, <1>10 DEF ReadCurrent, WriteGraph
<1>11. CASE UNCHANGED vars
  BY <1>1, <1>11 DEF vars
<1>12. QED
  BY <1>2, <1>3, <1>4, <1>5, <1>6, <1>7, <1>8, <1>9, <1>10, <1>11 DEF Next

\* A cached definition has its version and its dims' as the manifest pins them,
\* and a cap that was fetched its media, however fetches interleave and fail.
THEOREM CacheWhole == Spec => []Whole
<1>1. IInv => Whole
  BY DEF IInv
<1>2. QED  BY <1>1, StartsWhole, StaysWhole, PTL DEF Spec
=============================================================================
