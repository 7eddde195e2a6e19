---------------------------- MODULE StateUpdater ----------------------------
(***************************************************************************)
(* The cloud system model of libpigeon and the updater that keeps it in    *)
(* step with observations of the cluster (pigeon_c/src/system/             *)
(* stateupdater.c, cloudsystem.c, pe.c, le.c and evaluator.c).             *)
(*                                                                         *)
(* The model holds physical entities (PEs, the nodes) and the logical      *)
(* entities (LEs, the pods) placed on them.  A caller opens a session with *)
(* start(), reports every PE and LE it observes with updatePE() and        *)
(* updateLE(), and closes the session with stop(), which drops what was    *)
(* not observed and effects the placements.  The loops of stop() are steps *)
(* of their own, so that the states between two removals or placements are *)
(* states of the model; phase and todo are the program counter and the     *)
(* rest of the running loop.  No other call begins while stop() runs.      *)
(***************************************************************************)
EXTENDS Resource, Vectors, Sums, SequencesExt

CONSTANTS
  PEid,          \* names of physical entities
  LEid,          \* names of logical entities
  NULL,          \* the C null pointer
  Generations,   \* generation numbers a caller may pass to start()
  Capacities,    \* capacity vectors a PE may be observed with
  Usages,        \* usage vectors a PE may be observed with; NULL: no usage given
  Overflows,     \* overflow flags a PE may be created with
  Demands        \* demand vectors an LE may be created with

ASSUME ConstantsAssumption ==
  /\ NULL \notin PEid
  /\ Generations \subseteq Nat /\ NULL \notin Generations
  /\ Capacities \subseteq Vector
  /\ (Usages \ {NULL}) \subseteq Vector
  /\ NULL \notin Vector
  /\ Overflows \subseteq [Res -> BOOLEAN]
  /\ Demands \subseteq [Res -> Nat]

VARIABLES
  \* struct s_cloudsystem, and the pe objects it owns
  pes,           \* the vector of PEs, in order
  pemap,         \* the keys of the peID -> pe map
  ismodified,    \* the vector changed since the last cloudsystem_resetpes()
  res,           \* pe->resource
  hostedLE,      \* pe->hostedLE
  indexinsystem, \* pe->indexinsystem
  \* the le objects
  host,          \* le->host
  demand,        \* le->demand
  \* struct s_stateupdater
  gen, started, observedPEs, observedLEs,
  lemap,         \* the keys of the leID -> le map
  newplacements, \* the leID -> peID map; NULL where there is no entry
  report,        \* the vectors of added, deleted and updated PEs and LEs
  \* control point inside stop()
  phase,         \* "ready": no call is running
  todo,          \* the elements the running loop has yet to process
  pending,       \* generation of the start() that called stop(), or NULL
  \* history, for the properties only
  priorPEs,      \* the PEs of the model when the session was opened
  lastHost       \* the last host observed for each LE in this session

cloudVars   == <<pes, pemap, ismodified, res, hostedLE, indexinsystem, host, demand>>
sessionVars == <<gen, started, observedPEs, observedLEs, lemap, newplacements, report>>
stopVars    == <<phase, todo, pending>>
histVars    == <<priorPEs, lastHost>>
vars        == <<cloudVars, sessionVars, stopVars, histVars>>

NoResource == resource_create(Zero, [k \in Res |-> FALSE])

EmptyReport == [addedPEs |-> {}, deletedPEs |-> {}, updatedPEs |-> {},
                addedLEs |-> {}, deletedLEs |-> {}, updatedLEs |-> {}]

Report == [addedPEs : SUBSET PEid, deletedPEs : SUBSET PEid, updatedPEs : SUBSET PEid,
           addedLEs : SUBSET LEid, deletedLEs : SUBSET LEid, updatedLEs : SUBSET LEid]

\* Each control point of stop(): a call may begin, or one of its three loops.
Phases == {"ready", "dropPE", "dropLE", "place"}

-----------------------------------------------------------------------------
\* Operations of pe.c on a PE p and an LE l.  A pe that is no longer in the
\* vector is unreachable; it keeps the values a fresh one would have.

pe_placeLE(p, l) ==
  IF l \in hostedLE[p]
  THEN UNCHANGED <<res, hostedLE, host>>
  ELSE /\ res' = [res EXCEPT ![p] = resource_use(@, demand[l])]
       /\ hostedLE' = [hostedLE EXCEPT ![p] = @ \cup {l}]
       /\ host' = [host EXCEPT ![l] = p]

\* Faulty form: the host of the LE is not reset.
pe_removeLE_KeepsHost(p, l) ==
  IF l \notin hostedLE[p]
  THEN UNCHANGED <<res, hostedLE, host>>
  ELSE /\ res' = [res EXCEPT ![p] = resource_release(@, demand[l])]
       /\ hostedLE' = [hostedLE EXCEPT ![p] = @ \ {l}]
       /\ UNCHANGED host

\* Faulty form: the demand of the LE is not released.
pe_removeLE_KeepsUsage(p, l) ==
  IF l \notin hostedLE[p]
  THEN UNCHANGED <<res, hostedLE, host>>
  ELSE /\ hostedLE' = [hostedLE EXCEPT ![p] = @ \ {l}]
       /\ host' = [host EXCEPT ![l] = NULL]
       /\ UNCHANGED res

pe_removeLE(p, l) ==
  IF l \notin hostedLE[p]
  THEN UNCHANGED <<res, hostedLE, host>>
  ELSE /\ res' = [res EXCEPT ![p] = resource_release(@, demand[l])]
       /\ hostedLE' = [hostedLE EXCEPT ![p] = @ \ {l}]
       /\ host' = [host EXCEPT ![l] = NULL]

\* pe_clear(p) as cloudsystem_remove_PE uses it: every LE hosted by p loses
\* its host, and p itself goes away.
pe_clear(p) ==
  /\ host' = [l \in LEid |-> IF l \in hostedLE[p] THEN NULL ELSE host[l]]
  /\ hostedLE' = [hostedLE EXCEPT ![p] = {}]
  /\ res' = [res EXCEPT ![p] = NoResource]
  /\ indexinsystem' = [indexinsystem EXCEPT ![p] = -1]

pe_update(p, _capacity, _usage) ==
  LET r == resource_setcapacity(res[p], _capacity)
  IN  res' = [res EXCEPT ![p] = IF _usage = NULL THEN r ELSE resource_setusage(r, _usage)]

-----------------------------------------------------------------------------
\* Operations of cloudsystem.c.

cloudsystem_addPE(p, r) ==
  /\ pemap' = pemap \cup {p}
  /\ pes' = Append(pes, p)
  /\ res' = [res EXCEPT ![p] = r]
  /\ hostedLE' = [hostedLE EXCEPT ![p] = {}]
  /\ indexinsystem' = [indexinsystem EXCEPT ![p] = -1]
  /\ ismodified' = TRUE

\* Faulty form: the entry of the vector is cleared but not taken out.
cloudsystem_remove_PE_LeavesHole(p) ==
  IF p \notin pemap
  THEN UNCHANGED cloudVars
  ELSE /\ pe_clear(p)
       /\ pemap' = pemap \ {p}
       /\ pes' = [i \in DOMAIN pes |-> IF pes[i] = p THEN NULL ELSE pes[i]]
       /\ ismodified' = TRUE
       /\ UNCHANGED demand

cloudsystem_remove_PE(p) ==
  IF p \notin pemap
  THEN UNCHANGED cloudVars
  ELSE /\ pe_clear(p)
       /\ pemap' = pemap \ {p}
       /\ pes' = vector_delete(pes, p)
       /\ ismodified' = TRUE
       /\ UNCHANGED demand

\* Faulty form: the PEs keep the positions they had.
cloudsystem_resetpes_KeepsIndex ==
  /\ ismodified' = FALSE
  /\ pemap' = ToSet(pes)
  /\ UNCHANGED indexinsystem

cloudsystem_resetpes ==
  IF ~ismodified
  THEN UNCHANGED <<pemap, ismodified, indexinsystem>>
  ELSE /\ ismodified' = FALSE
       /\ pemap' = ToSet(pes)
       /\ indexinsystem' = [p \in PEid |->
            IF p \in ToSet(pes) THEN vector_getindex(pes, p) ELSE indexinsystem[p]]

-----------------------------------------------------------------------------
\* evaluator_create: an empty system and an updater that was never started.
Init ==
  /\ pes = <<>> /\ pemap = {} /\ ismodified = FALSE
  /\ res = [p \in PEid |-> NoResource]
  /\ hostedLE = [p \in PEid |-> {}]
  /\ indexinsystem = [p \in PEid |-> -1]
  /\ host = [l \in LEid |-> NULL]
  /\ demand = [l \in LEid |-> Zero]
  /\ gen = -1 /\ started = FALSE
  /\ observedPEs = {} /\ observedLEs = {}
  /\ lemap = {} /\ newplacements = [l \in LEid |-> NULL]
  /\ report = EmptyReport
  /\ phase = "ready" /\ todo = {} /\ pending = NULL
  /\ priorPEs = {} /\ lastHost = [l \in LEid |-> NULL]

\* Faulty form: the report of the previous session is not cleared.
OpenSession_KeepsReport(_generation) ==
  /\ started' = TRUE
  /\ gen' = _generation
  /\ UNCHANGED report
  /\ observedPEs' = {} /\ observedLEs' = {}
  /\ newplacements' = [l \in LEid |-> NULL]
  /\ lemap' = UNION {hostedLE[p] : p \in ToSet(pes)}
  /\ priorPEs' = ToSet(pes)
  /\ lastHost' = [l \in LEid |-> NULL]

\* Faulty form: the observations of an abandoned session are kept.
OpenSession_KeepsObservations(_generation) ==
  /\ started' = TRUE
  /\ gen' = _generation
  /\ report' = EmptyReport
  /\ newplacements' = [l \in LEid |-> NULL]
  /\ lemap' = UNION {hostedLE[p] : p \in ToSet(pes)}
  /\ priorPEs' = ToSet(pes)
  /\ lastHost' = [l \in LEid |-> NULL]
  /\ UNCHANGED <<observedPEs, observedLEs>>

\* The new session of start(): empty observations, and the LEs of the model.
OpenSession(_generation) ==
  /\ started' = TRUE
  /\ gen' = _generation
  /\ report' = EmptyReport
  /\ observedPEs' = {} /\ observedLEs' = {}
  /\ newplacements' = [l \in LEid |-> NULL]
  /\ lemap' = UNION {hostedLE[p] : p \in ToSet(pes)}
  /\ priorPEs' = ToSet(pes)
  /\ lastHost' = [l \in LEid |-> NULL]

\* The first lines of stop(): begin the loop over the PEs not observed.
EnterStop(_pending) ==
  /\ phase' = "dropPE"
  /\ todo' = ToSet(pes) \ observedPEs
  /\ pending' = _pending

\* start() with a generation that is not newer: an open session is abandoned
\* with the changes it has already made, and false is returned.
StartStale(_generation) ==
  /\ phase = "ready"
  /\ _generation <= gen
  /\ started' = FALSE
  /\ UNCHANGED <<cloudVars, stopVars, histVars>>
  /\ UNCHANGED <<gen, observedPEs, observedLEs, lemap, newplacements, report>>

StartFresh(_generation) ==
  /\ phase = "ready"
  /\ _generation > gen
  /\ ~started
  /\ OpenSession(_generation)
  /\ UNCHANGED <<cloudVars, stopVars>>

\* start() while a session is open: close that one first.
StartOverOpen(_generation) ==
  /\ phase = "ready"
  /\ _generation > gen
  /\ started
  /\ EnterStop(_generation)
  /\ UNCHANGED <<cloudVars, sessionVars, histVars>>

stateupdater_start(_generation) ==
  \/ StartStale(_generation)
  \/ StartFresh(_generation)
  \/ StartOverOpen(_generation)

stateupdater_stop ==
  /\ phase = "ready"
  /\ started
  /\ EnterStop(NULL)
  /\ UNCHANGED <<cloudVars, sessionVars, histVars>>

\* One round of the loop over the PEs, for a PE that was not observed.
StopDropPE(p) ==
  /\ phase = "dropPE"
  /\ p \in todo
  /\ cloudsystem_remove_PE(p)
  /\ report' = [report EXCEPT !.deletedPEs = @ \cup {p}]
  /\ todo' = todo \ {p}
  /\ UNCHANGED <<gen, started, observedPEs, observedLEs, lemap, newplacements>>
  /\ UNCHANGED <<phase, pending, histVars>>

\* After that loop: resetpes(), and begin the loop over the LEs not observed.
StopResetPEs ==
  /\ phase = "dropPE"
  /\ todo = {}
  /\ cloudsystem_resetpes
  /\ phase' = "dropLE"
  /\ todo' = lemap \ observedLEs
  /\ UNCHANGED <<pes, res, hostedLE, host, demand, sessionVars, pending, histVars>>

StopDropLE(l) ==
  /\ phase = "dropLE"
  /\ l \in todo
  /\ IF host[l] # NULL
     THEN /\ pe_removeLE(host[l], l)
          /\ report' = [report EXCEPT !.deletedLEs = @ \cup {l}]
     ELSE UNCHANGED <<res, hostedLE, host, report>>
  /\ todo' = todo \ {l}
  /\ UNCHANGED <<pes, pemap, ismodified, indexinsystem, demand>>
  /\ UNCHANGED <<gen, started, observedPEs, observedLEs, lemap, newplacements>>
  /\ UNCHANGED <<phase, pending, histVars>>

\* Begin the loop over the new placements (those whose LE is in lemap).
StopBeginPlacements ==
  /\ phase = "dropLE"
  /\ todo = {}
  /\ phase' = "place"
  /\ todo' = {l \in lemap : newplacements[l] # NULL}
  /\ UNCHANGED <<cloudVars, sessionVars, pending, histVars>>

StopPlaceLE(l) ==
  /\ phase = "place"
  /\ l \in todo
  /\ IF newplacements[l] \in pemap
     THEN pe_placeLE(newplacements[l], l)
     ELSE UNCHANGED <<res, hostedLE, host>>
  /\ todo' = todo \ {l}
  /\ UNCHANGED <<pes, pemap, ismodified, indexinsystem, demand>>
  /\ UNCHANGED <<sessionVars, phase, pending, histVars>>

\* The end of stop(): the observations are destroyed and the session closed;
\* if start() had called stop(), it now opens its own session.
StopFinish ==
  /\ phase = "place"
  /\ todo = {}
  /\ phase' = "ready" /\ pending' = NULL
  /\ IF pending = NULL
     THEN /\ started' = FALSE
          /\ observedPEs' = {} /\ observedLEs' = {}
          /\ lemap' = {} /\ newplacements' = [l \in LEid |-> NULL]
          /\ UNCHANGED <<gen, report, histVars>>
     ELSE OpenSession(pending)
  /\ UNCHANGED <<cloudVars, todo>>

stateupdater_updatePE(p, _capacity, _ovf, _usage) ==
  /\ phase = "ready"
  /\ started
  /\ observedPEs' = observedPEs \cup {p}
  /\ IF p \in pemap
     THEN /\ IF res[p].capacity # _capacity \/ (_usage # NULL /\ res[p].usage # _usage)
             THEN /\ pe_update(p, _capacity, _usage)
                  /\ report' = [report EXCEPT !.updatedPEs = @ \cup {p}]
             ELSE UNCHANGED <<res, report>>
          /\ UNCHANGED <<pes, pemap, ismodified, hostedLE, indexinsystem>>
     ELSE /\ cloudsystem_addPE(p,
               LET r == resource_create(_capacity, _ovf)
               IN  IF _usage = NULL THEN r ELSE resource_setusage(r, _usage))
          /\ report' = [report EXCEPT !.addedPEs = @ \cup {p}]
  /\ UNCHANGED <<host, demand, gen, started, observedLEs, lemap, newplacements>>
  /\ UNCHANGED <<stopVars, histVars>>

\* The LE is known and still on the host it is observed on: nothing to do.
UpdateLESameHost(l, _hostID) ==
  /\ l \in lemap
  /\ host[l] = _hostID
  /\ UNCHANGED <<cloudVars, lemap, newplacements, report>>

\* Faulty form: an LE that lost its host earlier in the session keeps the
\* placement it was first given.
UpdateLEMoved_FirstWins(l, _hostID) ==
  /\ l \in lemap
  /\ host[l] # _hostID
  /\ IF host[l] # NULL
     THEN /\ pe_removeLE(host[l], l)
          /\ report' = [report EXCEPT !.updatedLEs = @ \cup {l}]
          /\ newplacements' = [newplacements EXCEPT ![l] = _hostID]
     ELSE UNCHANGED <<res, hostedLE, host, report, newplacements>>
  /\ UNCHANGED <<pes, pemap, ismodified, indexinsystem, demand, lemap>>

\* Faulty form: the LE stays on its old host until it is placed on the new one.
UpdateLEMoved_Lingers(l, _hostID) ==
  /\ l \in lemap
  /\ host[l] # _hostID
  /\ newplacements' = [newplacements EXCEPT ![l] = _hostID]
  /\ UNCHANGED <<cloudVars, lemap, report>>

\* A known LE leaves the host it was on at once; a known LE without a host
\* only gets a new placement.
UpdateLEMoved(l, _hostID) ==
  /\ l \in lemap
  /\ host[l] # _hostID
  /\ IF host[l] # NULL
     THEN /\ pe_removeLE(host[l], l)
          /\ report' = [report EXCEPT !.updatedLEs = @ \cup {l}]
     ELSE UNCHANGED <<res, hostedLE, host, report>>
  /\ newplacements' = [newplacements EXCEPT ![l] = _hostID]
  /\ UNCHANGED <<pes, pemap, ismodified, indexinsystem, demand, lemap>>

\* Faulty form: a new LE is placed at once when its host is known.
UpdateLENew_PlacedAtOnce(l, _hostID, _demand) ==
  /\ l \notin lemap
  /\ _hostID \in pemap
  /\ demand' = [demand EXCEPT ![l] = _demand]
  /\ res' = [res EXCEPT ![_hostID] = resource_use(@, _demand)]
  /\ hostedLE' = [hostedLE EXCEPT ![_hostID] = @ \cup {l}]
  /\ host' = [host EXCEPT ![l] = _hostID]
  /\ report' = [report EXCEPT !.addedLEs = @ \cup {l}]
  /\ lemap' = lemap \cup {l}
  /\ UNCHANGED <<pes, pemap, ismodified, indexinsystem, newplacements>>

UpdateLENew(l, _hostID, _demand) ==
  /\ l \notin lemap
  /\ demand' = [demand EXCEPT ![l] = _demand]
  /\ host' = [host EXCEPT ![l] = NULL]
  /\ report' = [report EXCEPT !.addedLEs = @ \cup {l}]
  /\ lemap' = lemap \cup {l}
  /\ newplacements' = [newplacements EXCEPT ![l] = _hostID]
  /\ UNCHANGED <<pes, pemap, ismodified, res, hostedLE, indexinsystem>>

stateupdater_updateLE(l, _hostID, _demand) ==
  /\ phase = "ready"
  /\ started
  /\ observedLEs' = observedLEs \cup {l}
  /\ \/ UpdateLESameHost(l, _hostID)
     \/ UpdateLEMoved(l, _hostID)
     \/ UpdateLENew(l, _hostID, _demand)
  /\ lastHost' = [lastHost EXCEPT ![l] = _hostID]
  /\ UNCHANGED <<gen, started, observedPEs, stopVars, priorPEs>>

\* Faulty form: the LE is not taken off the PEs again.
evaluator_eval_Unreleased(_demand) ==
  /\ phase = "ready"
  /\ res' = [p \in PEid |->
       IF p \in ToSet(pes) /\ resource_canuse(res[p], _demand)
       THEN resource_use(res[p], _demand)
       ELSE res[p]]
  /\ UNCHANGED <<pes, pemap, ismodified, hostedLE, indexinsystem, host, demand>>
  /\ UNCHANGED <<sessionVars, stopVars, histVars>>

\* evaluator_eval: the LE is tried on every PE that can take it, and taken
\* off again.  The LE is an object of the caller and never stays hosted.
evaluator_eval(_demand) ==
  /\ phase = "ready"
  /\ res' = [p \in PEid |->
       IF p \in ToSet(pes) /\ resource_canuse(res[p], _demand)
       THEN resource_release(resource_use(res[p], _demand), _demand)
       ELSE res[p]]
  /\ UNCHANGED <<pes, pemap, ismodified, hostedLE, indexinsystem, host, demand>>
  /\ UNCHANGED <<sessionVars, stopVars, histVars>>

-----------------------------------------------------------------------------
StopStep ==
  \/ \E p \in PEid : StopDropPE(p)
  \/ StopResetPEs
  \/ \E l \in LEid : StopDropLE(l)
  \/ StopBeginPlacements
  \/ \E l \in LEid : StopPlaceLE(l)
  \/ StopFinish

Next ==
  \/ \E g \in Generations : stateupdater_start(g)
  \/ stateupdater_stop
  \/ StopStep
  \/ \E p \in PEid, c \in Capacities, o \in Overflows, u \in Usages :
       stateupdater_updatePE(p, c, o, u)
  \/ \E l \in LEid, h \in PEid, d \in Demands : stateupdater_updateLE(l, h, d)
  \/ \E d \in Demands : evaluator_eval(d)

Spec == Init /\ [][Next]_vars


-----------------------------------------------------------------------------
(***************************************************************************)
(* Properties.                                                             *)
(***************************************************************************)

CloudType ==
  /\ pes \in Seq(PEid) /\ pemap \subseteq PEid /\ ismodified \in BOOLEAN
  /\ res \in [PEid -> {r \in Resource : r.usage \in [Res -> Nat]}]
  /\ hostedLE \in [PEid -> SUBSET LEid]
  /\ indexinsystem \in [PEid -> Int]
  /\ host \in [LEid -> PEid \cup {NULL}]
  /\ demand \in [LEid -> [Res -> Nat]]

SessionType ==
  /\ gen \in Generations \cup {-1} /\ started \in BOOLEAN
  /\ observedPEs \subseteq PEid /\ observedLEs \subseteq LEid
  /\ lemap \subseteq LEid
  /\ newplacements \in [LEid -> PEid \cup {NULL}]
  /\ report \in Report
  /\ phase \in Phases
  /\ todo \subseteq (IF phase = "dropPE" THEN PEid ELSE LEid)
  /\ pending \in Generations \cup {NULL}
  /\ priorPEs \subseteq PEid
  /\ lastHost \in [LEid -> PEid \cup {NULL}]

\* Every variable has its type; in particular no usage is ever negative,
\* whatever usage an observation gives (resource.c clamps what it stores).
TypeOK == CloudType /\ SessionType

\* The two directions of a placement agree at every step, also between the
\* removals and placements of stop(): an LE is in the hosted vector of a PE
\* exactly when that PE is its host, and a host is always a PE of the model.
\* (pe_placeLE, pe_removeLE, and cloudsystem_remove_PE through pe_clear.)
HostConsistent ==
  /\ \A p \in PEid, l \in LEid : l \in hostedLE[p] <=> host[l] = p
  /\ \A l \in LEid : host[l] # NULL => host[l] \in ToSet(pes)

\* The vector of PEs has no name twice, the map has exactly its names, and
\* once cloudsystem_resetpes() has run every PE knows its position: what
\* "ismodified" promises (cloudsystem.c).
ModelStructure ==
  /\ \A i, j \in DOMAIN pes : pes[i] = pes[j] => i = j
  /\ pemap = ToSet(pes)
  /\ ~ismodified => \A i \in DOMAIN pes : indexinsystem[pes[i]] = i - 1

\* The report of a session is exact at every step, whether the session is
\* open, closing, closed or abandoned: the PEs added since it was opened and
\* the PEs deleted since then are the ones the report lists.
ReportExact ==
  /\ report.addedPEs = ToSet(pes) \ priorPEs
  /\ report.deletedPEs = priorPEs \ ToSet(pes)

\* Where the session says LE l is: its last observed host, if that host was
\* observed as well.
Target(l) ==
  IF l \in observedLEs /\ lastHost[l] \in observedPEs THEN lastHost[l] ELSE NULL

\* When stop() has run its loops, the model is the observed cluster: its PEs
\* are the observed ones, every LE observed on one of them is there, in
\* whatever order and however often the LE was reported, and no other LE has
\* a host.
SnapshotApplied ==
  phase = "place" /\ todo = {} =>
    /\ ToSet(pes) = observedPEs
    /\ \A l \in LEid : host[l] = Target(l)

\* How the observations of a session relate to the model while the session is
\* open and while stop() runs.  It makes ReportExact and SnapshotApplied
\* inductive.  First the PEs: those not observed were there at the start, none
\* is lost before stop(), and after the first loop only observed ones remain.
PEsOfSession ==
  /\ phase # "ready" => started
  /\ started => /\ observedPEs \subseteq ToSet(pes)
                /\ ToSet(pes) \ observedPEs \subseteq priorPEs
                /\ phase = "ready" => priorPEs \subseteq ToSet(pes)
  /\ phase = "dropPE" => todo = ToSet(pes) \ observedPEs
  /\ phase \in {"dropLE", "place"} => observedPEs = ToSet(pes)

\* An LE observed in the session and not yet placed: it is still on the host
\* it was last observed on, unless that PE has just been dropped, or it has no
\* host and a new placement to the host it was last observed on.
Unplaced(l) ==
  IF newplacements[l] = NULL
  THEN \/ host[l] = lastHost[l]
       \/ phase # "ready" /\ host[l] = NULL /\ lastHost[l] \notin ToSet(pes)
  ELSE host[l] = NULL /\ newplacements[l] = lastHost[l]

LEsOfSession ==
  started => \A l \in LEid :
    /\ host[l] # NULL \/ l \in observedLEs => l \in lemap
    /\ l \in observedLEs => lastHost[l] # NULL
    /\ l \notin observedLEs => newplacements[l] = NULL
    /\ l \in observedLEs /\ phase # "place" => Unplaced(l)
    /\ phase = "dropLE" => IF l \in observedLEs THEN l \notin todo
                                                ELSE host[l] # NULL => l \in todo
    /\ phase = "place" => IF l \in todo THEN l \in observedLEs /\ Unplaced(l)
                                               /\ newplacements[l] # NULL
                                        ELSE host[l] = Target(l)

SessionInv == PEsOfSession /\ LEsOfSession

\* The demand for type k of a set of LEs.
Load(les, k) == Total([l \in LEid |-> demand[l][k]], les)

\* Without usage observations (a NULL usage in updatePE) the usage of a PE
\* is the demand of the LEs it hosts, at every step: no demand is counted
\* twice or released twice.
UsageConserved ==
  Usages = {NULL} =>
    \A p \in ToSet(pes) : \A k \in Res : res[p].usage[k] = Load(hostedLE[p], k)

\* stop() places LEs only after every removal of the session: outside the
\* placement loop the LEs of a PE only leave, inside it they only arrive.
RemovalsBeforePlacements ==
  [][ \A p \in PEid : IF phase = "place" THEN hostedLE[p] \subseteq hostedLE'[p]
                                        ELSE hostedLE'[p] \subseteq hostedLE[p] ]_vars

\* "This does not result in overflowing resources while effecting the changes"
\* (stateupdater.h): while stop() places LEs, a PE whose LEs will fit when it
\* is done is not overloaded at any step on the way.
NoTransientOverflow ==
  phase = "place" /\ Usages = {NULL} =>
    \A p \in ToSet(pes) : \A k \in Res :
      Load({l \in LEid : Target(l) = p}, k) <= res[p].capacity[k]
        => res[p].usage[k] <= res[p].capacity[k]

\* Evaluating a pod leaves no trace in the model: what is placed on each PE
\* for the evaluation is released to the last unit.
EvalKeepsModel ==
  [][ (\E d \in Demands : evaluator_eval(d)) => UNCHANGED vars ]_vars
=============================================================================
