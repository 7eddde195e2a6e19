------------------------- MODULE StateUpdaterProofs -------------------------
(***************************************************************************)
(* Proofs of the safety properties of StateUpdater, for any sets of PEs,   *)
(* LEs, generations and observations.                                      *)
(***************************************************************************)
EXTENDS StateUpdater, DataProofs

-----------------------------------------------------------------------------
\* resource.c returns resources with a non-negative usage.

\* The zero vector is a vector of natural numbers.
LEMMA ZeroType == Zero \in Vector /\ Zero \in [Res -> Nat]
  BY DEF Zero, Vector

\* Raising the negative numbers of a vector to 0 gives natural numbers.
LEMMA NonNegativeType ==
  ASSUME NEW v \in Vector
  PROVE  NonNegative(v) \in Vector /\ NonNegative(v) \in [Res -> Nat]
  BY DEF NonNegative, Vector

SafeResource == {r \in Resource : r.usage \in [Res -> Nat]}

\* resource_create returns a resource.
LEMMA ResourceCreate ==
  ASSUME NEW c \in Vector, NEW o \in [Res -> BOOLEAN]
  PROVE  resource_create(c, o) \in SafeResource
  BY ZeroType DEF resource_create, SafeResource, Resource

\* resource_setcapacity and resource_setusage return a resource.
LEMMA ResourceSet ==
  ASSUME NEW r \in SafeResource, NEW v \in Vector
  PROVE  /\ resource_setcapacity(r, v) \in SafeResource
         /\ resource_setusage(r, v) \in SafeResource
  BY NonNegativeType DEF resource_setcapacity, resource_setusage, SafeResource, Resource

\* resource_use returns a resource.
LEMMA ResourceUse ==
  ASSUME NEW r \in SafeResource, NEW d \in [Res -> Nat]
  PROVE  resource_use(r, d) \in SafeResource
<1> DEFINE u == [k \in Res |-> r.usage[k] + d[k]]
<1>1. u \in [Res -> Nat] /\ u \in Vector
  BY DEF SafeResource, Vector
<1> QED
  BY <1>1, Zenon DEF resource_use, SafeResource, Resource

\* resource_release returns a resource.
LEMMA ResourceRelease ==
  ASSUME NEW r \in SafeResource, NEW d \in [Res -> Nat]
  PROVE  resource_release(r, d) \in SafeResource
<1> DEFINE u == [k \in Res |-> r.usage[k] - d[k]]
<1>1. u \in Vector
  BY DEF SafeResource, Vector
<1> QED
  BY <1>1, NonNegativeType, Zenon DEF resource_release, SafeResource, Resource

\* Releasing what was just used restores the usage: the clamp at zero of
\* resource_release never bites, because the usage was not negative.
LEMMA UseThenRelease ==
  ASSUME NEW r \in SafeResource, NEW d \in [Res -> Nat]
  PROVE  resource_release(resource_use(r, d), d) = r
<1> DEFINE u == [k \in Res |-> r.usage[k] + d[k]]
           w == [k \in Res |-> u[k] - d[k]]
<1>1. r.usage \in [Res -> Nat]
  BY DEF SafeResource
<1>2. w = r.usage
  BY <1>1
<1>3. NonNegative(w) = r.usage
  BY <1>1, <1>2 DEF NonNegative
<1>4. resource_use(r, d) = [r EXCEPT !.usage = u]
  BY DEF resource_use
<1>5. [r EXCEPT !.usage = u].usage = u
  BY DEF SafeResource, Resource
<1>6. resource_release(resource_use(r, d), d) = [[r EXCEPT !.usage = u] EXCEPT !.usage = r.usage]
  BY <1>3, <1>4, <1>5, Zenon DEF resource_release
<1> QED
  BY <1>6, Zenon DEF SafeResource, Resource

-----------------------------------------------------------------------------
(***************************************************************************)
(* The types and the structure of the model are inductive together: the    *)
(* type of the vector after vector_delete rests on its having no           *)
(* duplicates.                                                             *)
(***************************************************************************)
Structure == TypeOK /\ ModelStructure

\* The part of CloudType that the operations of pe.c change, and the rest.
PlacementType ==
  /\ res \in [PEid -> SafeResource]
  /\ hostedLE \in [PEid -> SUBSET LEid]
  /\ host \in [LEid -> PEid \cup {NULL}]

ListType ==
  /\ pes \in Seq(PEid) /\ pemap \subseteq PEid /\ ismodified \in BOOLEAN
  /\ indexinsystem \in [PEid -> Int]
  /\ demand \in [LEid -> [Res -> Nat]]

\* The conjuncts of CloudType, by name.
LEMMA CloudTypeSplit ==
  /\ CloudType <=> PlacementType /\ ListType
  /\ CloudType' <=> PlacementType' /\ ListType'
  BY Zenon DEF CloudType, PlacementType, ListType, SafeResource

\* A new evaluator has the structure.
LEMMA StructureInit == Init => Structure
<1> SUFFICES ASSUME Init PROVE Structure
  OBVIOUS
<1>1. NoResource \in SafeResource
  BY ZeroType, ResourceCreate, Zenon DEF NoResource
<1>2. CloudType
  <2>1. res \in [PEid -> SafeResource]
    BY <1>1 DEF Init
  <2>2. demand \in [LEid -> [Res -> Nat]]
    BY ZeroType DEF Init
  <2>3. PlacementType
    BY <2>1 DEF Init, PlacementType
  <2>4. ListType
    <3>1. pes \in Seq(PEid) /\ indexinsystem \in [PEid -> Int]
      BY DEF Init
    <3>2. pemap \subseteq PEid /\ ismodified \in BOOLEAN
      BY Zenon DEF Init
    <3> QED
      BY <2>2, <3>1, <3>2 DEF ListType
  <2> QED
    BY <2>3, <2>4, CloudTypeSplit
<1>3. SessionType
  <2>1. report \in Report
    BY DEF Init, EmptyReport, Report
  <2>2. started \in BOOLEAN /\ phase \in Phases
    BY Zenon DEF Init, Phases
  <2>3. newplacements \in [LEid -> PEid \cup {NULL}] /\ lastHost \in [LEid -> PEid \cup {NULL}]
    BY DEF Init
  <2> QED
    BY <2>1, <2>2, <2>3 DEF Init, SessionType
<1>4. ModelStructure
  BY DEF Init, ModelStructure, ToSet
<1> QED
  BY <1>2, <1>3, <1>4 DEF Structure, TypeOK

\* What the operations of pe.c do to the types of what they change.
LEMMA RemoveLEType ==
  ASSUME CloudType, NEW p \in PEid, NEW l \in LEid, pe_removeLE(p, l)
  PROVE  PlacementType'
<1>1. PlacementType /\ demand[l] \in [Res -> Nat]
  BY CloudTypeSplit DEF ListType
<1>2. resource_release(res[p], demand[l]) \in SafeResource
  BY <1>1, ResourceRelease DEF PlacementType
<1> QED
  BY <1>1, <1>2 DEF pe_removeLE, PlacementType

\* pe_placeLE keeps the types of the model.
LEMMA PlaceLEType ==
  ASSUME CloudType, NEW p \in PEid, NEW l \in LEid, pe_placeLE(p, l)
  PROVE  PlacementType'
<1>1. PlacementType /\ demand[l] \in [Res -> Nat]
  BY CloudTypeSplit DEF ListType
<1>2. resource_use(res[p], demand[l]) \in SafeResource
  BY <1>1, ResourceUse DEF PlacementType
<1> QED
  BY <1>1, <1>2 DEF pe_placeLE, PlacementType
\* The calls that leave the cloud system alone.
LEMMA CloudUnchanged ==
  ASSUME CloudType, ModelStructure, UNCHANGED cloudVars
  PROVE  CloudType' /\ ModelStructure'
  BY DEF CloudType, ModelStructure, cloudVars

\* The PEs of the vector are the PEs of the model.
LEMMA MembersOfVector ==
  ASSUME NEW S, NEW v \in Seq(S)
  PROVE  ToSet(v) \subseteq S
  BY DEF ToSet

\* What stateupdater_start resets has its type.
LEMMA OpenSessionType ==
  ASSUME TypeOK, NEW g \in Generations, OpenSession(g)
  PROVE  /\ gen' \in Generations /\ started' \in BOOLEAN /\ report' \in Report
         /\ observedPEs' \subseteq PEid /\ observedLEs' \subseteq LEid
         /\ lemap' \subseteq LEid
         /\ newplacements' \in [LEid -> PEid \cup {NULL}]
         /\ priorPEs' \subseteq PEid
         /\ lastHost' \in [LEid -> PEid \cup {NULL}]
<1>1. ToSet(pes) \subseteq PEid /\ hostedLE \in [PEid -> SUBSET LEid]
  BY MembersOfVector DEF TypeOK, CloudType
<1>2. lemap' \subseteq LEid
  BY <1>1 DEF OpenSession
<1>3. started' \in BOOLEAN
  BY Zenon DEF OpenSession
<1>4. report' \in Report
  BY DEF OpenSession, EmptyReport, Report
<1> QED
  BY <1>1, <1>2, <1>3, <1>4 DEF OpenSession

\* stateupdater_start keeps the structure.
LEMMA StructureStart ==
  ASSUME Structure, NEW g \in Generations, stateupdater_start(g)
  PROVE  Structure'
<1> USE DEF Structure, TypeOK
<1>1. CASE StartStale(g)
  <2>1. CloudType' /\ ModelStructure'
    BY <1>1, CloudUnchanged DEF StartStale
  <2>2. started' \in BOOLEAN
    BY <1>1, Zenon DEF StartStale
  <2>3. SessionType'
    BY <1>1, <2>2 DEF StartStale, SessionType, stopVars, histVars
  <2> QED
    BY <2>1, <2>3
<1>2. CASE StartFresh(g)
  <2>1. CloudType' /\ ModelStructure'
    BY <1>2, CloudUnchanged DEF StartFresh
  <2>2. SessionType'
    BY <1>2, OpenSessionType DEF StartFresh, SessionType, stopVars
  <2> QED
    BY <2>1, <2>2
<1>3. CASE StartOverOpen(g)
  <2>1. CloudType' /\ ModelStructure'
    BY <1>3, CloudUnchanged DEF StartOverOpen
  <2>2. ToSet(pes) \subseteq PEid
    BY MembersOfVector DEF CloudType
  <2>3. SessionType'
    BY <1>3, <2>2 DEF StartOverOpen, EnterStop, SessionType, Phases, sessionVars, histVars
  <2> QED
    BY <2>1, <2>3
<1> QED
  BY <1>1, <1>2, <1>3 DEF stateupdater_start

\* Entering stateupdater_stop keeps the structure.
LEMMA StructureStop ==
  ASSUME Structure, stateupdater_stop
  PROVE  Structure'
<1> USE DEF Structure, TypeOK
<1>1. CloudType' /\ ModelStructure'
  BY CloudUnchanged DEF stateupdater_stop
<1>2. ToSet(pes) \subseteq PEid
  BY MembersOfVector DEF CloudType
<1>3. SessionType'
  BY <1>2 DEF stateupdater_stop, EnterStop, SessionType, Phases, sessionVars, histVars
<1> QED
  BY <1>1, <1>3
\* ModelStructure in terms of the lemmas on vectors.
LEMMA StructureSplit ==
  ModelStructure <=>
    /\ Injective(pes)
    /\ pemap = ToSet(pes)
    /\ ~ismodified => \A i \in DOMAIN pes : indexinsystem[pes[i]] = i - 1
  BY Zenon DEF ModelStructure, Injective

\* Removing a PE of the model takes its name out of the vector and the map.
LEMMA RemovePE ==
  ASSUME CloudType, ModelStructure, NEW p \in pemap, cloudsystem_remove_PE(p)
  PROVE  /\ CloudType' /\ ModelStructure'
         /\ ToSet(pes') = ToSet(pes) \ {p}
         /\ host' = [l \in LEid |-> IF l \in hostedLE[p] THEN NULL ELSE host[l]]
         /\ hostedLE' = [hostedLE EXCEPT ![p] = {}]
<1>1. /\ p \in PEid /\ p \in ToSet(pes) /\ pes \in Seq(PEid) /\ Injective(pes)
  BY StructureSplit DEF CloudType
<1>2. /\ pe_clear(p)
      /\ pemap' = pemap \ {p} /\ pes' = vector_delete(pes, p)
      /\ ismodified' = TRUE /\ demand' = demand
  BY DEF cloudsystem_remove_PE
<1>3. /\ pes' \in Seq(PEid) /\ ToSet(pes') = ToSet(pes) \ {p} /\ Injective(pes')
  BY <1>1, <1>2, DeleteElement
<1>4. NoResource \in SafeResource
  BY ZeroType, ResourceCreate, Zenon DEF NoResource
<1>5. PlacementType'
  BY <1>1, <1>2, <1>4, CloudTypeSplit DEF pe_clear, PlacementType
<1>6. ListType'
  <2>1. ismodified' \in BOOLEAN
    BY <1>2, Zenon
  <2> QED
    BY <1>1, <1>2, <1>3, <2>1, CloudTypeSplit DEF pe_clear, ListType
<1>7. ModelStructure'
  <2>1. pemap' = ToSet(pes')
    BY <1>2, <1>3 DEF ModelStructure
  <2>2. ~ismodified' => \A i \in DOMAIN pes' : indexinsystem'[pes'[i]] = i - 1
    BY <1>2, Zenon
  <2> QED
    BY <1>3, <2>1, <2>2, Zenon DEF ModelStructure, Injective
<1> QED
  BY <1>2, <1>3, <1>5, <1>6, <1>7, CloudTypeSplit DEF pe_clear

\* cloudsystem_resetpes gives every PE of the vector its index.
LEMMA ResetPEs ==
  ASSUME CloudType, ModelStructure, cloudsystem_resetpes,
         UNCHANGED <<pes, res, hostedLE, host, demand>>
  PROVE  CloudType' /\ ModelStructure'
<1>1. PlacementType'
  BY CloudTypeSplit DEF PlacementType
<1>2. /\ pes \in Seq(PEid) /\ Injective(pes) /\ ToSet(pes) \subseteq PEid
      /\ indexinsystem \in [PEid -> Int]
  BY StructureSplit, MembersOfVector DEF CloudType
<1>3. \A i \in DOMAIN pes : vector_getindex(pes, pes[i]) = i - 1 /\ i - 1 \in Int
  BY <1>2, GetIndexOfElement
<1>4. CASE ~ismodified
  <2>1. UNCHANGED cloudVars
    BY <1>4 DEF cloudsystem_resetpes, cloudVars
  <2> QED
    BY <2>1, CloudUnchanged
<1>5. CASE ismodified
  <2>1. /\ ismodified' = FALSE /\ pemap' = ToSet(pes)
        /\ indexinsystem' = [p \in PEid |->
             IF p \in ToSet(pes) THEN vector_getindex(pes, p) ELSE indexinsystem[p]]
    BY <1>5 DEF cloudsystem_resetpes
  <2>2. \A p \in ToSet(pes) : vector_getindex(pes, p) \in Int
    BY <1>3 DEF ToSet
  <2>3. indexinsystem' \in [PEid -> Int]
    BY <1>2, <2>1, <2>2
  <2>4. ismodified' \in BOOLEAN
    BY <2>1, Zenon
  <2>5. ListType'
    BY <1>2, <2>1, <2>3, <2>4, CloudTypeSplit DEF ListType
  <2>6. \A i \in DOMAIN pes : pes[i] \in PEid /\ pes[i] \in ToSet(pes)
    BY <1>2 DEF ToSet
  <2>7. \A i \in DOMAIN pes : indexinsystem'[pes[i]] = i - 1
    BY <1>3, <2>1, <2>6
  <2>8. ModelStructure'
    BY <1>2, <2>1, <2>7, Zenon DEF ModelStructure, Injective
  <2> QED
    BY <1>1, <2>5, <2>8, CloudTypeSplit
<1> QED
  BY <1>4, <1>5

\* A step that changes only placements keeps the structure.
LEMMA PlacementChanged ==
  ASSUME CloudType, ModelStructure, PlacementType',
         UNCHANGED <<pes, pemap, ismodified, indexinsystem, demand>>
  PROVE  CloudType' /\ ModelStructure'
<1>1. ListType'
  BY CloudTypeSplit DEF ListType
<1>2. ModelStructure'
  BY DEF ModelStructure
<1> QED
  BY <1>1, <1>2, CloudTypeSplit

\* Every step inside stateupdater_stop keeps the structure.
LEMMA StructureStopStep ==
  ASSUME Structure, StopStep
  PROVE  Structure'
<1> USE DEF Structure, TypeOK
<1>1. ASSUME NEW p \in PEid, StopDropPE(p) PROVE Structure'
  <2>1. CloudType' /\ ModelStructure'
    <3>1. CASE p \in pemap
      BY <1>1, <3>1, RemovePE DEF StopDropPE
    <3>2. CASE p \notin pemap
      BY <1>1, <3>2, CloudUnchanged DEF StopDropPE, cloudsystem_remove_PE
    <3> QED
      BY <3>1, <3>2
  <2>2. report' \in Report
    BY <1>1 DEF StopDropPE, SessionType, Report
  <2>3. SessionType'
    BY <1>1, <2>2 DEF StopDropPE, SessionType, histVars
  <2> QED
    BY <2>1, <2>3
<1>2. ASSUME StopResetPEs PROVE Structure'
  <2>1. CloudType' /\ ModelStructure'
    BY <1>2, ResetPEs DEF StopResetPEs
  <2>2. SessionType'
    BY <1>2 DEF StopResetPEs, SessionType, Phases, sessionVars, histVars
  <2> QED
    BY <2>1, <2>2
<1>3. ASSUME NEW l \in LEid, StopDropLE(l) PROVE Structure'
  <2>1. PlacementType'
    <3>1. CASE host[l] # NULL
      <4>1. host[l] \in PEid
        BY <3>1 DEF CloudType
      <4> QED
        BY <1>3, <3>1, <4>1, RemoveLEType DEF StopDropLE
    <3>2. CASE host[l] = NULL
      BY <1>3, <3>2, CloudTypeSplit DEF StopDropLE, PlacementType
    <3> QED
      BY <3>1, <3>2
  <2>2. CloudType' /\ ModelStructure'
    BY <1>3, <2>1, PlacementChanged DEF StopDropLE
  <2>3. report' \in Report
    BY <1>3 DEF StopDropLE, SessionType, Report
  <2>4. SessionType'
    BY <1>3, <2>3 DEF StopDropLE, SessionType, histVars
  <2> QED
    BY <2>2, <2>4
<1>4. ASSUME StopBeginPlacements PROVE Structure'
  <2>1. CloudType' /\ ModelStructure'
    BY <1>4, CloudUnchanged DEF StopBeginPlacements
  <2>2. SessionType'
    BY <1>4 DEF StopBeginPlacements, SessionType, Phases, sessionVars, histVars
  <2> QED
    BY <2>1, <2>2
<1>5. ASSUME NEW l \in LEid, StopPlaceLE(l) PROVE Structure'
  <2>1. PlacementType'
    <3>1. CASE newplacements[l] \in pemap
      <4>1. newplacements[l] \in PEid
        BY <3>1 DEF CloudType
      <4> QED
        BY <1>5, <3>1, <4>1, PlaceLEType DEF StopPlaceLE
    <3>2. CASE newplacements[l] \notin pemap
      BY <1>5, <3>2, CloudTypeSplit DEF StopPlaceLE, PlacementType
    <3> QED
      BY <3>1, <3>2
  <2>2. CloudType' /\ ModelStructure'
    BY <1>5, <2>1, PlacementChanged DEF StopPlaceLE
  <2>3. SessionType'
    BY <1>5 DEF StopPlaceLE, SessionType, sessionVars, histVars
  <2> QED
    BY <2>2, <2>3
<1>6. ASSUME StopFinish PROVE Structure'
  <2>1. CloudType' /\ ModelStructure'
    BY <1>6, CloudUnchanged DEF StopFinish
  <2>2. CASE pending = NULL
    <3>1. started' \in BOOLEAN
      BY <1>6, <2>2, Zenon DEF StopFinish
    <3>2. SessionType'
      BY <1>6, <2>2, <3>1 DEF StopFinish, SessionType, Phases, histVars
    <3> QED
      BY <2>1, <3>2
  <2>3. CASE pending # NULL
    <3>1. pending \in Generations /\ OpenSession(pending)
      BY <1>6, <2>3 DEF StopFinish, SessionType
    <3>2. SessionType'
      BY <1>6, <3>1, OpenSessionType DEF StopFinish, SessionType, Phases
    <3> QED
      BY <2>1, <3>2
  <2> QED
    BY <2>2, <2>3
<1> QED
  BY <1>1, <1>2, <1>3, <1>4, <1>5, <1>6 DEF StopStep
\* Adding a PE that is not in the map puts its name in the vector and the map.
LEMMA AddPE ==
  ASSUME CloudType, ModelStructure, NEW p \in PEid, p \notin pemap,
         NEW r \in SafeResource, cloudsystem_addPE(p, r), UNCHANGED <<host, demand>>
  PROVE  /\ CloudType' /\ ModelStructure'
         /\ ToSet(pes') = ToSet(pes) \cup {p}
<1>1. pes \in Seq(PEid) /\ Injective(pes) /\ p \notin ToSet(pes)
  BY StructureSplit DEF CloudType
<1>2. pes' \in Seq(PEid) /\ ToSet(pes') = ToSet(pes) \cup {p} /\ Injective(pes')
  BY <1>1, AppendElement DEF cloudsystem_addPE
<1>3. PlacementType'
  BY CloudTypeSplit DEF cloudsystem_addPE, PlacementType
<1>4. ismodified' = TRUE /\ ismodified' \in BOOLEAN
  BY Zenon DEF cloudsystem_addPE
<1>5. ListType'
  BY <1>2, <1>4, CloudTypeSplit DEF cloudsystem_addPE, ListType
<1>6. ModelStructure'
  <2>1. pemap' = ToSet(pes')
    BY <1>2 DEF cloudsystem_addPE, ModelStructure
  <2> QED
    BY <1>2, <1>4, <2>1, Zenon DEF ModelStructure, Injective
<1> QED
  BY <1>2, <1>3, <1>5, <1>6, CloudTypeSplit

\* What updatePE stores in a new PE and in a known one.
LEMMA ObservedResource ==
  ASSUME TypeOK, NEW p \in PEid, NEW c \in Capacities, NEW o \in Overflows, NEW u \in Usages
  PROVE  /\ (LET r == resource_create(c, o)
             IN  IF u = NULL THEN r ELSE resource_setusage(r, u)) \in SafeResource
         /\ (LET r == resource_setcapacity(res[p], c)
             IN  IF u = NULL THEN r ELSE resource_setusage(r, u)) \in SafeResource
<1>1. c \in Vector /\ o \in [Res -> BOOLEAN] /\ (u # NULL => u \in Vector)
  BY ConstantsAssumption
<1>2. res[p] \in SafeResource
  BY CloudTypeSplit DEF TypeOK, PlacementType
<1>3. resource_create(c, o) \in SafeResource /\ resource_setcapacity(res[p], c) \in SafeResource
  BY <1>1, <1>2, ResourceCreate, ResourceSet
<1> QED
  BY <1>1, <1>3, ResourceSet

\* stateupdater_updatePE keeps the structure.
LEMMA StructureUpdatePE ==
  ASSUME Structure, NEW p \in PEid, NEW c \in Capacities, NEW o \in Overflows, NEW u \in Usages,
         stateupdater_updatePE(p, c, o, u)
  PROVE  Structure'
<1> USE DEF Structure, TypeOK
<1>1. CloudType' /\ ModelStructure' /\ report' \in Report
  <2>1. CASE p \in pemap
    <3>1. PlacementType'
      <4>1. CASE res' = res
        BY <2>1, <4>1, CloudTypeSplit DEF stateupdater_updatePE, PlacementType
      <4>2. CASE pe_update(p, c, u)
        BY <2>1, <4>2, ObservedResource, CloudTypeSplit
           DEF pe_update, stateupdater_updatePE, PlacementType
      <4> QED
        BY <2>1, <4>1, <4>2 DEF stateupdater_updatePE
    <3>2. CloudType' /\ ModelStructure'
      BY <2>1, <3>1, PlacementChanged DEF stateupdater_updatePE
    <3>3. report' \in Report
      BY <2>1 DEF stateupdater_updatePE, SessionType, Report
    <3> QED
      BY <3>2, <3>3
  <2>2. CASE p \notin pemap
    <3>1. CloudType' /\ ModelStructure'
      BY <2>2, AddPE, ObservedResource DEF stateupdater_updatePE
    <3>2. report' \in Report
      BY <2>2 DEF stateupdater_updatePE, SessionType, Report
    <3> QED
      BY <3>1, <3>2
  <2> QED
    BY <2>1, <2>2
<1>2. SessionType'
  BY <1>1 DEF stateupdater_updatePE, SessionType, stopVars, histVars
<1> QED
  BY <1>1, <1>2

\* stateupdater_updateLE keeps the structure.
LEMMA StructureUpdateLE ==
  ASSUME Structure, NEW l \in LEid, NEW h \in PEid, NEW d \in Demands,
         stateupdater_updateLE(l, h, d)
  PROVE  Structure'
<1> USE DEF Structure, TypeOK
<1>1. /\ CloudType' /\ ModelStructure' /\ report' \in Report
      /\ lemap' \subseteq LEid
      /\ newplacements' \in [LEid -> PEid \cup {NULL}]
  <2>1. CASE UpdateLESameHost(l, h)
    BY <2>1, CloudUnchanged DEF UpdateLESameHost, SessionType
  <2>2. CASE UpdateLEMoved(l, h)
    <3>1. PlacementType'
      <4>1. CASE host[l] # NULL
        <5>1. host[l] \in PEid
          BY <4>1 DEF CloudType
        <5> QED
          BY <2>2, <4>1, <5>1, RemoveLEType DEF UpdateLEMoved
      <4>2. CASE host[l] = NULL
        BY <2>2, <4>2, CloudTypeSplit DEF UpdateLEMoved, PlacementType
      <4> QED
        BY <4>1, <4>2
    <3>2. CloudType' /\ ModelStructure'
      BY <2>2, <3>1, PlacementChanged DEF UpdateLEMoved
    <3>3. report' \in Report
      BY <2>2 DEF UpdateLEMoved, SessionType, Report
    <3> QED
      BY <2>2, <3>2, <3>3 DEF UpdateLEMoved, SessionType
  <2>3. CASE UpdateLENew(l, h, d)
    <3>1. PlacementType'
      BY <2>3, CloudTypeSplit DEF UpdateLENew, PlacementType
    <3>2. ListType'
      <4>1. d \in [Res -> Nat]
        BY ConstantsAssumption
      <4> QED
        BY <2>3, <4>1, CloudTypeSplit DEF UpdateLENew, ListType
    <3>3. ModelStructure'
      BY <2>3 DEF UpdateLENew, ModelStructure
    <3>4. report' \in Report
      BY <2>3 DEF UpdateLENew, SessionType, Report
    <3> QED
      BY <2>3, <3>1, <3>2, <3>3, <3>4, CloudTypeSplit DEF UpdateLENew, SessionType
  <2> QED
    BY <2>1, <2>2, <2>3 DEF stateupdater_updateLE
<1>2. SessionType'
  BY <1>1, Zenon DEF stateupdater_updateLE, SessionType, stopVars
<1> QED
  BY <1>1, <1>2
\* An evaluation is a stuttering step: what it uses on each PE it releases.
LEMMA EvalStutters ==
  ASSUME TypeOK, NEW d \in Demands, evaluator_eval(d)
  PROVE  UNCHANGED vars
<1>1. res \in [PEid -> SafeResource] /\ d \in [Res -> Nat]
  BY CloudTypeSplit, ConstantsAssumption DEF TypeOK, PlacementType
<1>2. \A p \in PEid : resource_release(resource_use(res[p], d), d) = res[p]
  BY <1>1, UseThenRelease
<1>3. res' = [p \in PEid |-> res[p]]
  BY <1>2 DEF evaluator_eval
<1>4. res' = res
  BY <1>1, <1>3
<1> QED
  BY <1>4 DEF evaluator_eval, vars, cloudVars, sessionVars, stopVars, histVars

\* A step that changes nothing keeps the structure.
LEMMA StructureUnchanged ==
  ASSUME Structure, UNCHANGED vars
  PROVE  Structure'
<1>1. CloudType' /\ ModelStructure'
  BY CloudUnchanged DEF Structure, TypeOK, vars
<1>2. SessionType'
  BY DEF Structure, TypeOK, SessionType, vars, sessionVars, stopVars, histVars
<1> QED
  BY <1>1, <1>2 DEF Structure, TypeOK

\* Every step of the updater keeps the structure.
LEMMA StructureNext == Structure /\ [Next]_vars => Structure'
<1> SUFFICES ASSUME Structure, [Next]_vars PROVE Structure'
  OBVIOUS
<1>1. ASSUME NEW g \in Generations, stateupdater_start(g) PROVE Structure'
  BY <1>1, StructureStart
<1>2. ASSUME stateupdater_stop PROVE Structure'
  BY <1>2, StructureStop
<1>3. ASSUME StopStep PROVE Structure'
  BY <1>3, StructureStopStep
<1>4. ASSUME NEW p \in PEid, NEW c \in Capacities, NEW o \in Overflows, NEW u \in Usages,
             stateupdater_updatePE(p, c, o, u)
      PROVE  Structure'
  BY <1>4, StructureUpdatePE
<1>5. ASSUME NEW l \in LEid, NEW h \in PEid, NEW d \in Demands, stateupdater_updateLE(l, h, d)
      PROVE  Structure'
  BY <1>5, StructureUpdateLE
<1>6. ASSUME NEW d \in Demands, evaluator_eval(d) PROVE Structure'
  BY <1>6, EvalStutters, StructureUnchanged DEF Structure
<1>7. CASE UNCHANGED vars
  BY <1>7, StructureUnchanged
<1> QED
  BY <1>1, <1>2, <1>3, <1>4, <1>5, <1>6, <1>7 DEF Next

\* In every reachable state of the updater the structure holds.
THEOREM StructureInvariant == Spec => []Structure
  BY StructureInit, StructureNext, PTL DEF Spec

\* Type correctness, with no usage ever negative, for every cluster and every
\* sequence of calls of the updater and the evaluator.
THEOREM TypeCorrect == Spec => []TypeOK
  BY StructureInvariant, PTL DEF Structure

\* The vector of PEs, the map by name and the positions in the vector always
\* agree: cloudsystem_addPE, cloudsystem_remove_PE and cloudsystem_resetpes
\* keep them in step in every session, finished or abandoned.
THEOREM ModelStructureCorrect == Spec => []ModelStructure
  BY StructureInvariant, PTL DEF Structure

\* evaluator_eval never changes the model, for any demand and any load.
THEOREM EvalKeepsModelCorrect == Spec => EvalKeepsModel
<1>1. Structure /\ [Next]_vars => [(\E d \in Demands : evaluator_eval(d)) => UNCHANGED vars]_vars
  BY EvalStutters DEF Structure
<1> QED
  BY <1>1, StructureInvariant, PTL DEF Spec, EvalKeepsModel
=============================================================================
