---------------------------- MODULE SessionProofs ---------------------------
(***************************************************************************)
(* What a session of the updater does to the model: placements stay        *)
(* consistent, the report is exact and stop() applies the snapshot.  The   *)
(* inductive invariant adds SessionInv, which ties the observations of the *)
(* session to the model at every control point of stop().  On top of it,   *)
(* what the usages of the PEs are and how they move while stop() runs.     *)
(***************************************************************************)
EXTENDS StateUpdaterProofs

SInv == HostConsistent /\ ReportExact /\ PEsOfSession /\ LEsOfSession

\* Facts that every proof below uses.
LEMMA TypeFacts ==
  ASSUME Structure
  PROVE  /\ hostedLE \in [PEid -> SUBSET LEid] /\ host \in [LEid -> PEid \cup {NULL}]
         /\ newplacements \in [LEid -> PEid \cup {NULL}]
         /\ lastHost \in [LEid -> PEid \cup {NULL}]
         /\ NULL \notin PEid
         /\ pemap = ToSet(pes) /\ ToSet(pes) \subseteq PEid
  BY ConstantsAssumption, MembersOfVector, Zenon
     DEF Structure, TypeOK, CloudType, SessionType, ModelStructure

\* A new evaluator satisfies the session invariant.
LEMMA SInvInit == Init => SInv
<1> SUFFICES ASSUME Init PROVE SInv
  OBVIOUS
<1>1. ToSet(pes) = {} /\ phase = "ready" /\ ~started
  BY DEF Init, ToSet
<1>2. HostConsistent
  BY ConstantsAssumption, Zenon DEF Init, HostConsistent
<1>3. ReportExact
  BY <1>1, Zenon DEF Init, ReportExact, EmptyReport
<1>4. PEsOfSession /\ LEsOfSession
  BY <1>1, Zenon DEF PEsOfSession, LEsOfSession
<1> QED
  BY <1>2, <1>3, <1>4, Zenon DEF SInv

\* pe_removeLE takes an LE off its host.
LEMMA TakeOff ==
  ASSUME Structure, HostConsistent, NEW l \in LEid, host[l] # NULL,
         pe_removeLE(host[l], l), pes' = pes
  PROVE  HostConsistent' /\ host' = [host EXCEPT ![l] = NULL]
<1>1. host[l] \in PEid /\ l \in hostedLE[host[l]]
  BY TypeFacts, Zenon DEF HostConsistent
<1>2. /\ hostedLE' = [hostedLE EXCEPT ![host[l]] = @ \ {l}]
      /\ host' = [host EXCEPT ![l] = NULL]
  BY <1>1, Zenon DEF pe_removeLE
<1> QED
  BY <1>1, <1>2, TypeFacts DEF HostConsistent

\* pe_placeLE puts an LE that has no host on a PE of the model.
LEMMA PutOn ==
  ASSUME Structure, HostConsistent, NEW l \in LEid, host[l] = NULL,
         NEW p \in ToSet(pes), pe_placeLE(p, l), pes' = pes
  PROVE  HostConsistent' /\ host' = [host EXCEPT ![l] = p]
<1>1. p \in PEid /\ l \notin hostedLE[p]
  BY TypeFacts DEF HostConsistent
<1>2. /\ hostedLE' = [hostedLE EXCEPT ![p] = @ \cup {l}]
      /\ host' = [host EXCEPT ![l] = p]
  BY <1>1, Zenon DEF pe_placeLE
<1> QED
  BY <1>1, <1>2, TypeFacts DEF HostConsistent

\* A session opens with no observations, and with the hosted LEs in lemap.
LEMMA OpenSessionInv ==
  ASSUME Structure, HostConsistent, NEW g \in Generations, OpenSession(g),
         UNCHANGED cloudVars, phase' = "ready"
  PROVE  SInv'
<1>1. HostConsistent'
  BY Zenon DEF HostConsistent, cloudVars
<1>2. ReportExact'
  BY Zenon DEF ReportExact, OpenSession, EmptyReport, cloudVars
<1>3. PEsOfSession'
  BY Zenon DEF PEsOfSession, OpenSession, cloudVars
<1>4. LEsOfSession'
  <2>1. ASSUME NEW l \in LEid, host[l] # NULL PROVE l \in lemap'
    <3>1. host[l] \in ToSet(pes) /\ l \in hostedLE[host[l]]
      BY <2>1, TypeFacts, Zenon DEF HostConsistent
    <3> QED
      BY <3>1, Zenon DEF OpenSession
  <2> QED
    BY <2>1, Zenon DEF LEsOfSession, OpenSession, cloudVars
<1> QED
  BY <1>1, <1>2, <1>3, <1>4, Zenon DEF SInv

\* stateupdater_start keeps the session invariant.
LEMMA SInvStart ==
  ASSUME Structure, SInv, NEW g \in Generations, stateupdater_start(g)
  PROVE  SInv'
<1> USE DEF SInv
<1>1. CASE StartStale(g)
  BY <1>1, Zenon DEF StartStale, HostConsistent, ReportExact, PEsOfSession, LEsOfSession,
              cloudVars, stopVars, histVars
<1>2. CASE StartFresh(g)
  BY <1>2, OpenSessionInv, Zenon DEF StartFresh, stopVars
<1>3. CASE StartOverOpen(g)
  <2>1. HostConsistent' /\ ReportExact'
    BY <1>3, Zenon DEF StartOverOpen, HostConsistent, ReportExact, cloudVars, sessionVars, histVars
  <2>2. PEsOfSession'
    BY <1>3, Zenon DEF StartOverOpen, EnterStop, PEsOfSession, cloudVars, sessionVars, histVars
  <2>3. LEsOfSession'
    BY <1>3, Zenon DEF StartOverOpen, EnterStop, LEsOfSession, Unplaced, cloudVars, sessionVars, histVars
  <2> QED
    BY <2>1, <2>2, <2>3, Zenon
<1> QED
  BY <1>1, <1>2, <1>3, Zenon DEF stateupdater_start

\* Entering stateupdater_stop keeps the session invariant.
LEMMA SInvStop ==
  ASSUME Structure, SInv, stateupdater_stop
  PROVE  SInv'
<1> USE DEF SInv
<1>1. HostConsistent' /\ ReportExact'
  BY Zenon DEF stateupdater_stop, HostConsistent, ReportExact, cloudVars, sessionVars, histVars
<1>2. PEsOfSession'
  BY Zenon DEF stateupdater_stop, EnterStop, PEsOfSession, cloudVars, sessionVars, histVars
<1>3. LEsOfSession'
  BY Zenon DEF stateupdater_stop, EnterStop, LEsOfSession, Unplaced, cloudVars, sessionVars, histVars
<1> QED
  BY <1>1, <1>2, <1>3, Zenon

\* Removing a PE that was not observed, with its LEs, keeps the session
\* invariant.
LEMMA SInvDropPE ==
  ASSUME Structure, SInv, NEW p \in PEid, StopDropPE(p)
  PROVE  SInv'
<1> USE DEF SInv
<1>1. /\ phase = "dropPE" /\ phase' = phase /\ started /\ started' = started
      /\ p \in todo /\ todo' = todo \ {p} /\ cloudsystem_remove_PE(p)
      /\ UNCHANGED <<observedPEs, observedLEs, lemap, newplacements, priorPEs, lastHost>>
  BY Zenon DEF StopDropPE, histVars, PEsOfSession
<1>2. p \in pemap /\ p \in ToSet(pes) \ observedPEs /\ p \in priorPEs
  BY <1>1, TypeFacts, Zenon DEF PEsOfSession
<1>3. /\ ToSet(pes') = ToSet(pes) \ {p}
      /\ host' = [l \in LEid |-> IF l \in hostedLE[p] THEN NULL ELSE host[l]]
      /\ hostedLE' = [hostedLE EXCEPT ![p] = {}]
  BY <1>1, <1>2, RemovePE, Zenon DEF Structure, TypeOK
<1>4. HostConsistent'
  BY <1>3, TypeFacts DEF HostConsistent
<1>5. ReportExact'
  <2>1. report' = [report EXCEPT !.deletedPEs = @ \cup {p}] /\ report \in Report
    BY Zenon DEF StopDropPE, Structure, TypeOK, SessionType
  <2>2. report'.addedPEs = report.addedPEs /\ report'.deletedPEs = report.deletedPEs \cup {p}
    BY <2>1, Zenon DEF Report
  <2> QED
    BY <1>1, <1>2, <1>3, <2>2, Zenon DEF ReportExact
<1>6. PEsOfSession'
  BY <1>1, <1>2, <1>3, Zenon DEF PEsOfSession
<1>7. LEsOfSession'
  <2>1. \A l \in LEid : host'[l] = host[l] \/ (host'[l] = NULL /\ host[l] = p)
    BY <1>3, TypeFacts, Zenon DEF HostConsistent
  <2> QED
    BY <1>1, <1>3, <2>1, Zenon DEF LEsOfSession, Unplaced
<1> QED
  BY <1>4, <1>5, <1>6, <1>7, Zenon

\* cloudsystem_resetpes keeps the session invariant.
LEMMA SInvResetPEs ==
  ASSUME Structure, SInv, StopResetPEs
  PROVE  SInv'
<1> USE DEF SInv
<1>1. HostConsistent' /\ ReportExact'
  BY Zenon DEF StopResetPEs, HostConsistent, ReportExact, sessionVars, histVars
<1>2. PEsOfSession'
  BY Zenon DEF StopResetPEs, PEsOfSession, sessionVars, histVars
<1>3. LEsOfSession'
  BY Zenon DEF StopResetPEs, PEsOfSession, LEsOfSession, Unplaced, sessionVars, histVars
<1> QED
  BY <1>1, <1>2, <1>3, Zenon

\* Removing an LE that was not observed keeps the session invariant.
LEMMA SInvDropLE ==
  ASSUME Structure, SInv, NEW l \in LEid, StopDropLE(l)
  PROVE  SInv'
<1> USE DEF SInv
<1>1. /\ phase = "dropLE" /\ phase' = phase /\ started /\ started' = started
      /\ l \in todo /\ todo' = todo \ {l} /\ pes' = pes
      /\ UNCHANGED <<observedPEs, observedLEs, lemap, newplacements, priorPEs, lastHost>>
  BY Zenon DEF StopDropLE, histVars, PEsOfSession
<1>2. HostConsistent' /\ host' = [host EXCEPT ![l] = NULL]
  <2>1. CASE host[l] # NULL
    BY <1>1, <2>1, TakeOff, Zenon DEF StopDropLE
  <2>2. CASE host[l] = NULL
    <3>1. host' = host /\ hostedLE' = hostedLE
      BY <2>2, Zenon DEF StopDropLE
    <3> QED
      BY <1>1, <2>2, <3>1, TypeFacts, Zenon DEF HostConsistent
  <2> QED
    BY <2>1, <2>2, Zenon
<1>3. ReportExact'
  <2>1. report'.addedPEs = report.addedPEs /\ report'.deletedPEs = report.deletedPEs
    BY Zenon DEF StopDropLE, Structure, TypeOK, SessionType, Report
  <2> QED
    BY <1>1, <2>1, Zenon DEF ReportExact
<1>4. PEsOfSession'
  BY <1>1, Zenon DEF PEsOfSession
<1>5. l \notin observedLEs
  BY <1>1, Zenon DEF LEsOfSession
<1>6. LEsOfSession'
  BY <1>1, <1>2, <1>5, TypeFacts, Zenon DEF LEsOfSession, Unplaced
<1> QED
  BY <1>2, <1>3, <1>4, <1>6, Zenon

\* The turn from the removals to the placements keeps the session invariant.
LEMMA SInvBeginPlacements ==
  ASSUME Structure, SInv, StopBeginPlacements
  PROVE  SInv'
<1> USE DEF SInv
<1>1. /\ phase = "dropLE" /\ todo = {} /\ phase' = "place"
      /\ todo' = {l \in lemap : newplacements[l] # NULL}
      /\ started /\ UNCHANGED <<cloudVars, sessionVars, histVars>>
  BY Zenon DEF StopBeginPlacements, PEsOfSession
<1>2. HostConsistent' /\ ReportExact'
  BY <1>1, Zenon DEF HostConsistent, ReportExact, cloudVars, sessionVars, histVars
<1>3. PEsOfSession'
  BY <1>1, Zenon DEF PEsOfSession, cloudVars, sessionVars, histVars
<1>4. LEsOfSession'
  <2>1. observedPEs = ToSet(pes)
    BY <1>1, Zenon DEF PEsOfSession
  <2>2. \A l \in LEid : l \notin todo' => host[l] = Target(l)
    <3> SUFFICES ASSUME NEW l \in LEid, l \notin todo' PROVE host[l] = Target(l)
      OBVIOUS
    <3>1. CASE l \notin observedLEs
      BY <1>1, <3>1, Zenon DEF LEsOfSession, Target
    <3>2. CASE l \in observedLEs
      <4>1. newplacements[l] = NULL /\ lastHost[l] # NULL
        BY <1>1, <3>2, Zenon DEF LEsOfSession
      <4>2. \/ host[l] = lastHost[l]
            \/ host[l] = NULL /\ lastHost[l] \notin ToSet(pes)
        BY <1>1, <3>2, <4>1, Zenon DEF LEsOfSession, Unplaced
      <4> QED
        BY <2>1, <3>2, <4>1, <4>2, Zenon DEF Target, HostConsistent
    <3> QED
      BY <3>1, <3>2, Zenon
  <2> QED
    BY <1>1, <2>2, Zenon DEF LEsOfSession, Unplaced, Target, cloudVars, sessionVars, histVars
<1> QED
  BY <1>2, <1>3, <1>4, Zenon

\* A placement at the end of stateupdater_stop keeps the session invariant.
LEMMA SInvPlaceLE ==
  ASSUME Structure, SInv, NEW l \in LEid, StopPlaceLE(l)
  PROVE  SInv'
<1> USE DEF SInv
<1>1. /\ phase = "place" /\ phase' = phase /\ started /\ started' = started
      /\ l \in todo /\ todo' = todo \ {l} /\ pes' = pes
      /\ UNCHANGED <<observedPEs, observedLEs, lemap, newplacements, report, priorPEs, lastHost>>
  BY Zenon DEF StopPlaceLE, sessionVars, histVars, PEsOfSession
<1>2. /\ l \in observedLEs /\ host[l] = NULL /\ newplacements[l] = lastHost[l]
      /\ observedPEs = ToSet(pes)
  BY <1>1, Zenon DEF PEsOfSession, LEsOfSession, Unplaced
<1>3. HostConsistent' /\ host' = [host EXCEPT ![l] = Target(l)]
  <2>1. CASE newplacements[l] \in pemap
    BY <1>1, <1>2, <2>1, PutOn, TypeFacts, SMTT(30) DEF StopPlaceLE, Target
  <2>2. CASE newplacements[l] \notin pemap
    <3>1. host' = host /\ hostedLE' = hostedLE
      BY <2>2, Zenon DEF StopPlaceLE
    <3> QED
      BY <1>1, <1>2, <2>2, <3>1, TypeFacts DEF HostConsistent, Target
  <2> QED
    BY <2>1, <2>2, Zenon
<1>4. ReportExact' /\ PEsOfSession'
  BY <1>1, Zenon DEF ReportExact, PEsOfSession
<1>5. LEsOfSession'
  BY <1>1, <1>2, <1>3, TypeFacts, Zenon DEF LEsOfSession, Unplaced, Target
<1> QED
  BY <1>3, <1>4, <1>5, Zenon

\* The end of stateupdater_stop keeps the session invariant.
LEMMA SInvFinish ==
  ASSUME Structure, SInv, StopFinish
  PROVE  SInv'
<1>1. CASE pending = NULL
  BY <1>1, Zenon DEF SInv, StopFinish, HostConsistent, ReportExact, PEsOfSession, LEsOfSession,
              cloudVars, histVars
<1>2. CASE pending # NULL
  <2>1. pending \in Generations /\ OpenSession(pending) /\ UNCHANGED cloudVars /\ phase' = "ready"
    BY <1>2, Zenon DEF StopFinish, Structure, TypeOK, SessionType
  <2> QED
    BY <2>1, OpenSessionInv, Zenon DEF SInv
<1> QED
  BY <1>1, <1>2, Zenon

\* stateupdater_updatePE keeps the session invariant.
LEMMA SInvUpdatePE ==
  ASSUME Structure, SInv, NEW p \in PEid, NEW c \in Capacities, NEW o \in Overflows, NEW u \in Usages,
         stateupdater_updatePE(p, c, o, u)
  PROVE  SInv'
<1> USE DEF SInv
<1>1. /\ phase = "ready" /\ phase' = "ready" /\ started /\ started' = started
      /\ observedPEs' = observedPEs \cup {p}
      /\ UNCHANGED <<host, observedLEs, lemap, newplacements, priorPEs, lastHost>>
  BY Zenon DEF stateupdater_updatePE, stopVars, histVars
<1>2. /\ ToSet(pes') = ToSet(pes) \cup {p}
      /\ hostedLE' = hostedLE
      /\ report'.deletedPEs = report.deletedPEs
      /\ report'.addedPEs = report.addedPEs \cup (IF p \in pemap THEN {} ELSE {p})
  <2>1. CASE p \in pemap
    BY <2>1, TypeFacts DEF stateupdater_updatePE, Structure, TypeOK, SessionType, Report
  <2>2. CASE p \notin pemap
    <3>1. ToSet(pes') = ToSet(pes) \cup {p}
      BY <2>2, AddPE, ObservedResource, Zenon DEF stateupdater_updatePE, Structure, TypeOK
    <3>2. hostedLE' = hostedLE
      <4>1. hostedLE[p] = {}
        BY <2>2, TypeFacts DEF HostConsistent
      <4> QED
        BY <2>2, <4>1, TypeFacts, ZenonT(30) DEF stateupdater_updatePE, cloudsystem_addPE
    <3>3. report' = [report EXCEPT !.addedPEs = @ \cup {p}] /\ report \in Report
      BY <2>2, Zenon DEF stateupdater_updatePE, Structure, TypeOK, SessionType
    <3> QED
      BY <2>2, <3>1, <3>2, <3>3, Zenon DEF Report
  <2> QED
    BY <2>1, <2>2, Zenon
<1>3. HostConsistent'
  BY <1>1, <1>2, Zenon DEF HostConsistent
<1>4. ReportExact'
  BY <1>1, <1>2, TypeFacts, SMTT(30) DEF ReportExact, PEsOfSession
<1>5. PEsOfSession'
  BY <1>1, <1>2, Zenon DEF PEsOfSession
<1>6. LEsOfSession'
  BY <1>1, <1>2, Zenon DEF LEsOfSession, Unplaced
<1> QED
  BY <1>3, <1>4, <1>5, <1>6, Zenon

\* stateupdater_updateLE keeps the session invariant.
LEMMA SInvUpdateLE ==
  ASSUME Structure, SInv, NEW l \in LEid, NEW h \in PEid, NEW d \in Demands,
         stateupdater_updateLE(l, h, d)
  PROVE  SInv'
<1> USE DEF SInv
<1>1. /\ phase = "ready" /\ phase' = "ready" /\ started /\ started' = started
      /\ observedLEs' = observedLEs \cup {l} /\ lastHost' = [lastHost EXCEPT ![l] = h]
      /\ UNCHANGED <<observedPEs, todo, priorPEs>>
  BY Zenon DEF stateupdater_updateLE, stopVars
<1>2. /\ pes' = pes
      /\ report'.addedPEs = report.addedPEs /\ report'.deletedPEs = report.deletedPEs
  BY Zenon DEF stateupdater_updateLE, UpdateLESameHost, UpdateLEMoved, UpdateLENew, cloudVars,
         Structure, TypeOK, SessionType, Report
<1>3. ReportExact' /\ PEsOfSession'
  BY <1>1, <1>2, Zenon DEF ReportExact, PEsOfSession
<1>4. CASE UpdateLESameHost(l, h)
  <2>1. HostConsistent'
    BY <1>4, Zenon DEF UpdateLESameHost, cloudVars, HostConsistent
  <2>2. newplacements[l] = NULL
    BY <1>1, <1>4, TypeFacts, Zenon DEF UpdateLESameHost, LEsOfSession, Unplaced
  <2>3. LEsOfSession'
    BY <1>1, <1>4, <2>2, TypeFacts, Zenon DEF UpdateLESameHost, cloudVars, LEsOfSession, Unplaced
  <2> QED
    BY <1>3, <2>1, <2>3, Zenon
<1>5. CASE UpdateLEMoved(l, h)
  <2>1. HostConsistent' /\ host' = [host EXCEPT ![l] = NULL]
    <3>1. CASE host[l] # NULL
      BY <1>5, <3>1, TakeOff, Zenon DEF UpdateLEMoved
    <3>2. CASE host[l] = NULL
      <4>1. host' = host /\ hostedLE' = hostedLE
        BY <1>5, <3>2, Zenon DEF UpdateLEMoved
      <4> QED
        BY <1>2, <3>2, <4>1, TypeFacts, Zenon DEF HostConsistent
    <3> QED
      BY <3>1, <3>2, Zenon
  <2>2. LEsOfSession'
    BY <1>1, <1>2, <1>5, <2>1, TypeFacts, Zenon DEF UpdateLEMoved, LEsOfSession, Unplaced
  <2> QED
    BY <1>3, <2>1, <2>2, Zenon
<1>6. CASE UpdateLENew(l, h, d)
  <2>1. host[l] = NULL
    BY <1>1, <1>6, Zenon DEF UpdateLENew, LEsOfSession
  <2>2. host' = host /\ hostedLE' = hostedLE
    BY <1>6, <2>1, TypeFacts, Zenon DEF UpdateLENew
  <2>3. HostConsistent'
    BY <1>2, <2>2, Zenon DEF HostConsistent
  <2>4. LEsOfSession'
    BY <1>1, <1>2, <1>6, <2>1, <2>2, TypeFacts, Zenon DEF UpdateLENew, LEsOfSession, Unplaced
  <2> QED
    BY <1>3, <2>3, <2>4, Zenon
<1> QED
  BY <1>4, <1>5, <1>6, Zenon DEF stateupdater_updateLE

\* A step that changes nothing keeps the session invariant.
LEMMA SInvUnchanged ==
  ASSUME SInv, UNCHANGED vars
  PROVE  SInv'
  BY Zenon DEF SInv, HostConsistent, ReportExact, PEsOfSession, LEsOfSession, Unplaced, Target,
         vars, cloudVars, sessionVars, stopVars, histVars

\* Every step of the updater keeps the session invariant.
LEMMA SInvNext == Structure /\ SInv /\ [Next]_vars => SInv'
<1> SUFFICES ASSUME Structure, SInv, [Next]_vars PROVE SInv'
  OBVIOUS
<1>1. ASSUME NEW g \in Generations, stateupdater_start(g) PROVE SInv'
  BY <1>1, SInvStart, Zenon
<1>2. ASSUME stateupdater_stop PROVE SInv'
  BY <1>2, SInvStop, Zenon
<1>3. ASSUME StopStep PROVE SInv'
  BY <1>3, SInvDropPE, SInvResetPEs, SInvDropLE, SInvBeginPlacements, SInvPlaceLE, SInvFinish, Zenon
     DEF StopStep
<1>4. ASSUME NEW p \in PEid, NEW c \in Capacities, NEW o \in Overflows, NEW u \in Usages,
             stateupdater_updatePE(p, c, o, u)
      PROVE  SInv'
  BY <1>4, SInvUpdatePE, Zenon
<1>5. ASSUME NEW l \in LEid, NEW h \in PEid, NEW d \in Demands, stateupdater_updateLE(l, h, d)
      PROVE  SInv'
  BY <1>5, SInvUpdateLE, Zenon
<1>6. ASSUME NEW d \in Demands, evaluator_eval(d) PROVE SInv'
  BY <1>6, EvalStutters, SInvUnchanged, Zenon DEF Structure
<1>7. CASE UNCHANGED vars
  BY <1>7, SInvUnchanged, Zenon
<1> QED
  BY <1>1, <1>2, <1>3, <1>4, <1>5, <1>6, <1>7, Zenon DEF Next

\* In every reachable state of the updater, stop() in progress included, the
\* session invariant holds.
THEOREM SessionInvariant == Spec => []SInv
  BY SInvInit, SInvNext, StructureInvariant, PTL DEF Spec

\* Of it, what the observations say of the model while a session of
\* stateupdater.c is open and while stop() runs.
THEOREM SessionInvCorrect == Spec => []SessionInv
  BY SessionInvariant, PTL DEF SInv, SessionInv

\* Placements are consistent in both directions at every step, also between
\* the removals and placements of a stop() that is under way.
THEOREM HostConsistentCorrect == Spec => []HostConsistent
  BY SessionInvariant, PTL DEF SInv

\* The added and deleted PEs of the report are exact at every step of every
\* session.
THEOREM ReportExactCorrect == Spec => []ReportExact
  BY SessionInvariant, PTL DEF SInv

\* A stop() that has run its loops leaves exactly the observed PEs, with every
\* observed LE on the host it was last observed on, if that was observed too.
THEOREM SnapshotAppliedCorrect == Spec => []SnapshotApplied
<1>1. SInv => SnapshotApplied
  BY Zenon DEF SInv, SnapshotApplied, PEsOfSession, LEsOfSession
<1> QED
  BY <1>1, SessionInvariant, PTL

\* LEs leave a PE only outside the placement loop of stop() and arrive only
\* inside it, so within a session every removal precedes every placement.
THEOREM RemovalsBeforePlacementsCorrect == Spec => RemovalsBeforePlacements
<1> DEFINE Shrinks == \A p \in PEid : hostedLE'[p] \subseteq hostedLE[p]
           Grows   == \A p \in PEid : hostedLE[p] \subseteq hostedLE'[p]
           Ordered == \A p \in PEid : IF phase = "place" THEN hostedLE[p] \subseteq hostedLE'[p]
                                                        ELSE hostedLE'[p] \subseteq hostedLE[p]
<1>1. Structure /\ [Next]_vars => [Ordered]_vars
  <2> SUFFICES ASSUME Structure, Next PROVE Ordered
    OBVIOUS
  <2>1. ASSUME NEW g \in Generations, stateupdater_start(g) PROVE Ordered
    BY <2>1, Zenon DEF stateupdater_start, StartStale, StartFresh, StartOverOpen, cloudVars
  <2>2. ASSUME stateupdater_stop PROVE Ordered
    BY <2>2, Zenon DEF stateupdater_stop, cloudVars
  <2>3. ASSUME NEW p \in PEid, StopDropPE(p) PROVE Ordered
    <3>1. phase = "dropPE" /\ Shrinks
      BY <2>3, TypeFacts, Zenon DEF StopDropPE, cloudsystem_remove_PE, pe_clear, cloudVars
    <3> QED
      BY <3>1, Zenon
  <2>4. ASSUME StopResetPEs \/ StopBeginPlacements \/ StopFinish PROVE Ordered
    BY <2>4, Zenon DEF StopResetPEs, StopBeginPlacements, StopFinish, cloudVars
  <2>5. ASSUME NEW l \in LEid, StopDropLE(l) PROVE Ordered
    <3>1. phase = "dropLE" /\ Shrinks
      BY <2>5, TypeFacts DEF StopDropLE, pe_removeLE
    <3> QED
      BY <3>1, Zenon
  <2>6. ASSUME NEW l \in LEid, StopPlaceLE(l) PROVE Ordered
    <3>1. phase = "place" /\ Grows
      BY <2>6, TypeFacts DEF StopPlaceLE, pe_placeLE
    <3> QED
      BY <3>1, Zenon
  <2>7. ASSUME NEW p \in PEid, NEW c \in Capacities, NEW o \in Overflows, NEW u \in Usages,
               stateupdater_updatePE(p, c, o, u)
        PROVE  Ordered
    <3>1. phase = "ready" /\ Shrinks
      BY <2>7, TypeFacts, Zenon DEF stateupdater_updatePE, cloudsystem_addPE
    <3> QED
      BY <3>1, Zenon
  <2>8. ASSUME NEW l \in LEid, NEW h \in PEid, NEW d \in Demands, stateupdater_updateLE(l, h, d)
        PROVE  Ordered
    <3>1. phase = "ready"
      BY <2>8, Zenon DEF stateupdater_updateLE
    <3>2. Shrinks
      <4>1. CASE UpdateLESameHost(l, h) \/ UpdateLENew(l, h, d)
        BY <4>1, Zenon DEF UpdateLESameHost, UpdateLENew, cloudVars
      <4>2. CASE UpdateLEMoved(l, h)
        BY <4>2, TypeFacts, SMTT(30) DEF UpdateLEMoved, pe_removeLE
      <4> QED
        BY <2>8, <4>1, <4>2, Zenon DEF stateupdater_updateLE
    <3> QED
      BY <3>1, <3>2, Zenon
  <2>9. ASSUME NEW d \in Demands, evaluator_eval(d) PROVE Ordered
    BY <2>9, Zenon DEF evaluator_eval
  <2> QED
    BY <2>1, <2>2, <2>3, <2>4, <2>5, <2>6, <2>7, <2>8, <2>9, Zenon DEF Next, StopStep
<1> QED
  BY <1>1, StructureInvariant, PTL DEF Spec, RemovalsBeforePlacements

-----------------------------------------------------------------------------
(***************************************************************************)
(* The usage of a PE is the demand of the LEs it hosts.  The hosted and    *)
(* the observed LEs are finite at every step, so that the sums are defined *)
(* without an assumption on the set of all LEs.                            *)
(***************************************************************************)
FiniteLEs == IsFiniteSet(observedLEs) /\ \A p \in PEid : IsFiniteSet(hostedLE[p])

Conserved == \A p \in ToSet(pes) : \A k \in Res : res[p].usage[k] = Load(hostedLE[p], k)

UsageInv == FiniteLEs /\ (Usages = {NULL} => Conserved)

\* The demand of a set of LEs is a natural number, and it changes by the
\* demand of the LE that leaves or joins the set.
LEMMA LoadChange ==
  ASSUME demand \in [LEid -> [Res -> Nat]], NEW k \in Res, NEW S \in SUBSET LEid, IsFiniteSet(S)
  PROVE  /\ \A R \in SUBSET S : Load(R, k) \in Nat /\ Load(R, k) <= Load(S, k)
         /\ \A l \in S : Load(S, k) = demand[l][k] + Load(S \ {l}, k)
         /\ \A l \in LEid \ S : Load(S \cup {l}, k) = demand[l][k] + Load(S, k)
<1> DEFINE f == [l \in LEid |-> demand[l][k]]
<1>1. \A l \in LEid : f[l] \in Nat /\ f[l] \in Int /\ f[l] = demand[l][k]
  OBVIOUS
<1> HIDE DEF f
<1>2. \A R \in SUBSET S : Total(f, R) \in Nat /\ Total(f, R) <= Total(f, S)
  <2> SUFFICES ASSUME NEW R \in SUBSET S PROVE Total(f, R) \in Nat /\ Total(f, R) <= Total(f, S)
    OBVIOUS
  <2>1. 0 <= Total(f, R) /\ Total(f, R) <= Total(f, S)
    BY <1>1, TotalSubset, Zenon
  <2>2. IsFiniteSet(R)
    BY FS_Subset, Zenon
  <2>3. Total(f, R) \in Int
    BY <1>1, <2>2, TotalRemove, Zenon
  <2> QED
    BY <2>1, <2>3
<1>3. \A l \in S : Total(f, S) = demand[l][k] + Total(f, S \ {l})
  BY <1>1, TotalRemove
<1>4. \A l \in LEid \ S : Total(f, S \cup {l}) = demand[l][k] + Total(f, S)
  BY <1>1, TotalAdd, Zenon
<1> QED
  BY <1>2, <1>3, <1>4, Zenon DEF f, Load

\* pe_removeLE releases what the LE was counted with: the clamp at zero in
\* resource_release does not hide anything.
LEMMA TakeOffUsage ==
  ASSUME Structure, FiniteLEs, NEW p \in PEid, NEW l \in LEid, pe_removeLE(p, l),
         UNCHANGED <<pes, demand>>
  PROVE  /\ \A q \in PEid : IsFiniteSet(hostedLE'[q])
         /\ Conserved => Conserved'
<1>1. /\ hostedLE \in [PEid -> SUBSET LEid] /\ demand \in [LEid -> [Res -> Nat]]
      /\ res \in [PEid -> SafeResource] /\ ToSet(pes) \subseteq PEid
  BY TypeFacts, CloudTypeSplit, Zenon DEF Structure, TypeOK, PlacementType, ListType
<1>2. CASE l \notin hostedLE[p]
  BY <1>2 DEF pe_removeLE, FiniteLEs, Conserved, Load
<1>3. CASE l \in hostedLE[p]
  <2>1. /\ res' = [res EXCEPT ![p] = resource_release(@, demand[l])]
        /\ hostedLE' = [hostedLE EXCEPT ![p] = @ \ {l}]
    BY <1>3, Zenon DEF pe_removeLE
  <2>2. \A q \in PEid : IsFiniteSet(hostedLE'[q])
    BY <1>1, <2>1, FS_RemoveElement, Zenon DEF FiniteLEs
  <2>3. ASSUME Conserved PROVE Conserved'
    <3> SUFFICES ASSUME NEW q \in ToSet(pes), NEW k \in Res
                 PROVE  res'[q].usage[k] = Load(hostedLE[q], k)'
      BY Zenon DEF Conserved
    <3>1. res[q].usage[k] = Load(hostedLE[q], k) /\ q \in PEid
      BY <1>1, <2>3, Zenon DEF Conserved
    <3>2. CASE q # p
      BY <1>1, <2>1, <3>1, <3>2, Zenon DEF Load
    <3>3. CASE q = p
      <4>1. hostedLE[p] \in SUBSET LEid /\ IsFiniteSet(hostedLE[p])
        BY <1>1, Zenon DEF FiniteLEs
      <4>2. /\ Load(hostedLE[p], k) = demand[l][k] + Load(hostedLE[p] \ {l}, k)
            /\ Load(hostedLE[p] \ {l}, k) \in Nat
        BY <1>1, <1>3, <4>1, LoadChange, Zenon
      <4>3. res'[p].usage[k] = IF res[p].usage[k] - demand[l][k] >= 0
                               THEN res[p].usage[k] - demand[l][k] ELSE 0
        BY <1>1, <2>1, Zenon DEF resource_release, NonNegative, SafeResource, Resource
      <4>4. Load(hostedLE[q], k)' = Load(hostedLE[p] \ {l}, k)
        BY <1>1, <2>1, <3>3, Zenon DEF Load
      <4>5. demand[l][k] \in Nat
        BY <1>1, Zenon
      <4> QED
        BY <3>1, <3>3, <4>2, <4>3, <4>4, <4>5
    <3> QED
      BY <3>2, <3>3, Zenon
  <2> QED
    BY <2>2, <2>3, Zenon
<1> QED
  BY <1>2, <1>3, Zenon

\* pe_placeLE counts the LE once.
LEMMA PutOnUsage ==
  ASSUME Structure, FiniteLEs, NEW p \in PEid, NEW l \in LEid, pe_placeLE(p, l),
         UNCHANGED <<pes, demand>>
  PROVE  /\ \A q \in PEid : IsFiniteSet(hostedLE'[q])
         /\ Conserved => Conserved'
<1>1. /\ hostedLE \in [PEid -> SUBSET LEid] /\ demand \in [LEid -> [Res -> Nat]]
      /\ res \in [PEid -> SafeResource] /\ ToSet(pes) \subseteq PEid
  BY TypeFacts, CloudTypeSplit, Zenon DEF Structure, TypeOK, PlacementType, ListType
<1>2. CASE l \in hostedLE[p]
  BY <1>2 DEF pe_placeLE, FiniteLEs, Conserved, Load
<1>3. CASE l \notin hostedLE[p]
  <2>1. /\ res' = [res EXCEPT ![p] = resource_use(@, demand[l])]
        /\ hostedLE' = [hostedLE EXCEPT ![p] = @ \cup {l}]
    BY <1>3, Zenon DEF pe_placeLE
  <2>2. \A q \in PEid : IsFiniteSet(hostedLE'[q])
    BY <1>1, <2>1, FS_AddElement, Zenon DEF FiniteLEs
  <2>3. ASSUME Conserved PROVE Conserved'
    <3> SUFFICES ASSUME NEW q \in ToSet(pes), NEW k \in Res
                 PROVE  res'[q].usage[k] = Load(hostedLE[q], k)'
      BY Zenon DEF Conserved
    <3>1. res[q].usage[k] = Load(hostedLE[q], k) /\ q \in PEid
      BY <1>1, <2>3, Zenon DEF Conserved
    <3>2. CASE q # p
      BY <1>1, <2>1, <3>1, <3>2, Zenon DEF Load
    <3>3. CASE q = p
      <4>1. hostedLE[p] \in SUBSET LEid /\ IsFiniteSet(hostedLE[p])
        BY <1>1, Zenon DEF FiniteLEs
      <4>2. /\ Load(hostedLE[p] \cup {l}, k) = demand[l][k] + Load(hostedLE[p], k)
            /\ Load(hostedLE[p], k) \in Nat
        BY <1>1, <1>3, <4>1, LoadChange, Zenon
      <4>3. res'[p].usage[k] = res[p].usage[k] + demand[l][k]
        BY <1>1, <2>1, Zenon DEF resource_use, SafeResource, Resource
      <4>4. Load(hostedLE[q], k)' = Load(hostedLE[p] \cup {l}, k)
        BY <1>1, <2>1, <3>3, Zenon DEF Load
      <4>5. demand[l][k] \in Nat
        BY <1>1, Zenon
      <4> QED
        BY <3>1, <3>3, <4>2, <4>3, <4>4, <4>5, SMTT(30)
    <3> QED
      BY <3>2, <3>3, Zenon
  <2> QED
    BY <2>2, <2>3, Zenon
<1> QED
  BY <1>2, <1>3, Zenon

\* A step that touches neither the LEs of a PE nor their demands nor usages.
LEMMA UsageUntouched ==
  ASSUME UsageInv, UNCHANGED <<pes, res, hostedLE, demand>>, IsFiniteSet(observedLEs')
  PROVE  UsageInv'
  BY Zenon DEF UsageInv, FiniteLEs, Conserved, Load

\* A new evaluator counts nothing.
LEMMA UsageInit == Init => UsageInv
<1> SUFFICES ASSUME Init PROVE UsageInv
  OBVIOUS
<1>1. ToSet(pes) = {} /\ observedLEs = {} /\ \A p \in PEid : hostedLE[p] = {}
  BY DEF Init, ToSet
<1> QED
  BY <1>1, FS_EmptySet, Zenon DEF UsageInv, FiniteLEs, Conserved

\* Removing a PE takes its LEs away with it.
LEMMA UsageDropPE ==
  ASSUME Structure, UsageInv, NEW p \in PEid, StopDropPE(p)
  PROVE  UsageInv'
<1>1. CASE p \notin pemap
  BY <1>1, UsageUntouched, Zenon DEF StopDropPE, cloudsystem_remove_PE, cloudVars, UsageInv, FiniteLEs
<1>2. CASE p \in pemap
  <2>1. /\ hostedLE \in [PEid -> SUBSET LEid] /\ ToSet(pes) \subseteq PEid
        /\ res \in [PEid -> SafeResource]
    BY TypeFacts, CloudTypeSplit, Zenon DEF Structure, TypeOK, PlacementType
  <2>2. /\ ToSet(pes') = ToSet(pes) \ {p} /\ hostedLE' = [hostedLE EXCEPT ![p] = {}]
        /\ res' = [res EXCEPT ![p] = NoResource] /\ demand' = demand /\ observedLEs' = observedLEs
    BY <1>2, RemovePE, Zenon DEF StopDropPE, cloudsystem_remove_PE, pe_clear, Structure, TypeOK
  <2>3. FiniteLEs'
    BY <2>1, <2>2, FS_EmptySet, Zenon DEF UsageInv, FiniteLEs
  <2>4. Conserved => Conserved'
    BY <2>1, <2>2, Zenon DEF Conserved, Load
  <2> QED
    BY <2>3, <2>4, Zenon DEF UsageInv
<1> QED
  BY <1>1, <1>2, Zenon

\* The steps inside stateupdater_stop keep the usages right.
LEMMA UsageStopStep ==
  ASSUME Structure, SInv, UsageInv, StopStep
  PROVE  UsageInv'
<1>1. FiniteLEs
  BY Zenon DEF UsageInv
<1>2. ASSUME NEW p \in PEid, StopDropPE(p) PROVE UsageInv'
  BY <1>2, UsageDropPE, Zenon
<1>3. ASSUME StopResetPEs \/ StopBeginPlacements PROVE UsageInv'
  BY <1>1, <1>3, UsageUntouched, Zenon
     DEF StopResetPEs, StopBeginPlacements, cloudVars, sessionVars, FiniteLEs
<1>4. ASSUME NEW l \in LEid, StopDropLE(l) PROVE UsageInv'
  <2>1. observedLEs' = observedLEs /\ UNCHANGED <<pes, demand>>
    BY <1>4, Zenon DEF StopDropLE
  <2>2. CASE host[l] = NULL
    BY <1>1, <1>4, <2>1, <2>2, UsageUntouched, Zenon DEF StopDropLE, FiniteLEs
  <2>3. CASE host[l] # NULL
    <3>1. host[l] \in PEid /\ pe_removeLE(host[l], l)
      BY <1>4, <2>3, TypeFacts, Zenon DEF StopDropLE
    <3> QED
      BY <1>1, <2>1, <3>1, TakeOffUsage, Zenon DEF UsageInv, FiniteLEs
  <2> QED
    BY <2>2, <2>3, Zenon
<1>5. ASSUME NEW l \in LEid, StopPlaceLE(l) PROVE UsageInv'
  <2>1. observedLEs' = observedLEs /\ UNCHANGED <<pes, demand>>
    BY <1>5, Zenon DEF StopPlaceLE, sessionVars
  <2>2. CASE newplacements[l] \notin pemap
    BY <1>1, <1>5, <2>1, <2>2, UsageUntouched, Zenon DEF StopPlaceLE, FiniteLEs
  <2>3. CASE newplacements[l] \in pemap
    <3>1. newplacements[l] \in PEid /\ pe_placeLE(newplacements[l], l)
      BY <1>5, <2>3, TypeFacts, Zenon DEF StopPlaceLE
    <3> QED
      BY <1>1, <2>1, <3>1, PutOnUsage, Zenon DEF UsageInv, FiniteLEs
  <2> QED
    BY <2>2, <2>3, Zenon
<1>6. ASSUME StopFinish PROVE UsageInv'
  <2>1. IsFiniteSet(observedLEs')
    BY <1>6, FS_EmptySet, Zenon DEF StopFinish, OpenSession
  <2> QED
    BY <1>6, <2>1, UsageUntouched, Zenon DEF StopFinish, cloudVars
<1> QED
  BY <1>2, <1>3, <1>4, <1>5, <1>6, Zenon DEF StopStep

\* Without usage observations, updatePE leaves the usage of a known PE alone,
\* and a new PE has no LEs and no usage.
LEMMA UsageUpdatePE ==
  ASSUME Structure, SInv, UsageInv,
         NEW p \in PEid, NEW c \in Capacities, NEW o \in Overflows, NEW u \in Usages,
         stateupdater_updatePE(p, c, o, u)
  PROVE  UsageInv'
<1>1. /\ hostedLE \in [PEid -> SUBSET LEid] /\ ToSet(pes) \subseteq PEid
      /\ res \in [PEid -> SafeResource]
  BY TypeFacts, CloudTypeSplit, Zenon DEF Structure, TypeOK, PlacementType
<1>2. demand' = demand /\ observedLEs' = observedLEs
  BY Zenon DEF stateupdater_updatePE
<1>3. CASE p \in pemap
  <2>1. UNCHANGED <<pes, hostedLE>>
    BY <1>3, Zenon DEF stateupdater_updatePE
  <2>2. ASSUME Usages = {NULL} PROVE \A q \in PEid : res'[q].usage = res[q].usage
    <3>1. u = NULL
      BY <2>2, Zenon
    <3>2. res' = res \/ res' = [res EXCEPT ![p] = resource_setcapacity(@, c)]
      BY <1>3, <3>1, Zenon DEF stateupdater_updatePE, pe_update
    <3>3. resource_setcapacity(res[p], c).usage = res[p].usage
      BY <1>1, Zenon DEF resource_setcapacity, SafeResource, Resource
    <3> QED
      BY <1>1, <3>2, <3>3, Zenon
  <2> QED
    BY <1>1, <1>2, <2>1, <2>2, Zenon DEF UsageInv, FiniteLEs, Conserved, Load
<1>4. CASE p \notin pemap
  <2>1. hostedLE[p] = {}
    BY <1>4, TypeFacts DEF SInv, HostConsistent
  <2>2. hostedLE' = hostedLE
    BY <1>1, <1>4, <2>1, ZenonT(30) DEF stateupdater_updatePE, cloudsystem_addPE
  <2>3. ToSet(pes') = ToSet(pes) \cup {p}
    BY <1>4, AddPE, ObservedResource, Zenon DEF stateupdater_updatePE, Structure, TypeOK
  <2>4. ASSUME Usages = {NULL}
        PROVE  /\ \A q \in PEid \ {p} : res'[q] = res[q]
               /\ res'[p].usage = Zero
    <3>1. u = NULL
      BY <2>4, Zenon
    <3> QED
      BY <1>1, <1>4, <3>1 DEF stateupdater_updatePE, cloudsystem_addPE, resource_create
  <2>5. ASSUME Usages = {NULL}, Conserved PROVE Conserved'
    <3> SUFFICES ASSUME NEW q \in ToSet(pes'), NEW k \in Res
                 PROVE  res'[q].usage[k] = Load(hostedLE[q], k)'
      BY Zenon DEF Conserved
    <3>1. CASE q = p
      <4>1. Load(hostedLE[q], k)' = 0
        BY <2>1, <2>2, <3>1, TotalEmpty, Zenon DEF Load
      <4> QED
        BY <2>4, <2>5, <3>1, <4>1, Zenon DEF Zero
    <3>2. CASE q # p
      <4>1. q \in ToSet(pes) /\ q \in PEid
        BY <1>1, <2>3, <3>2, Zenon
      <4> QED
        BY <1>2, <2>2, <2>4, <2>5, <3>2, <4>1, Zenon DEF Conserved, Load
    <3> QED
      BY <3>1, <3>2, Zenon
  <2> QED
    BY <1>2, <2>2, <2>5, Zenon DEF UsageInv, FiniteLEs
<1> QED
  BY <1>3, <1>4, Zenon

\* updateLE takes an LE that moved off its host; the demand it gives a new LE
\* is not counted anywhere yet.
LEMMA UsageUpdateLE ==
  ASSUME Structure, SInv, UsageInv, NEW l \in LEid, NEW h \in PEid, NEW d \in Demands,
         stateupdater_updateLE(l, h, d)
  PROVE  UsageInv'
<1>1. IsFiniteSet(observedLEs')
  BY FS_AddElement, Zenon DEF stateupdater_updateLE, UsageInv, FiniteLEs
<1>2. FiniteLEs
  BY Zenon DEF UsageInv
<1>3. CASE UpdateLESameHost(l, h)
  BY <1>1, <1>3, UsageUntouched, Zenon DEF UpdateLESameHost, cloudVars
<1>4. CASE UpdateLEMoved(l, h)
  <2>1. UNCHANGED <<pes, demand>>
    BY <1>4, Zenon DEF UpdateLEMoved
  <2>2. CASE host[l] = NULL
    BY <1>1, <1>4, <2>2, UsageUntouched, Zenon DEF UpdateLEMoved
  <2>3. CASE host[l] # NULL
    <3>1. host[l] \in PEid /\ pe_removeLE(host[l], l)
      BY <1>4, <2>3, TypeFacts, Zenon DEF UpdateLEMoved
    <3> QED
      BY <1>1, <1>2, <2>1, <3>1, TakeOffUsage, Zenon DEF UsageInv, FiniteLEs
  <2> QED
    BY <2>2, <2>3, Zenon
<1>5. CASE UpdateLENew(l, h, d)
  <2>1. /\ UNCHANGED <<pes, res, hostedLE>> /\ l \notin lemap /\ started
        /\ demand' = [demand EXCEPT ![l] = d]
    BY <1>5, Zenon DEF UpdateLENew, stateupdater_updateLE
  <2>2. /\ hostedLE \in [PEid -> SUBSET LEid] /\ demand \in [LEid -> [Res -> Nat]]
        /\ ToSet(pes) \subseteq PEid
    BY TypeFacts, CloudTypeSplit, Zenon DEF Structure, TypeOK, ListType
  <2>3. \A p \in PEid : l \notin hostedLE[p]
    <3>1. host[l] = NULL
      BY <2>1, Zenon DEF SInv, LEsOfSession
    <3> QED
      BY <3>1, TypeFacts, Zenon DEF SInv, HostConsistent
  <2>4. ASSUME NEW p \in PEid, NEW k \in Res PROVE Load(hostedLE[p], k)' = Load(hostedLE[p], k)
    <3> DEFINE f == [m \in LEid |-> demand[m][k]]
               g == [m \in LEid |-> demand'[m][k]]
               S == hostedLE[p]
    <3>1. \A m \in S : f[m] \in Int /\ g[m] = f[m]
      BY <2>1, <2>2, <2>3, SMTT(30)
    <3>2. IsFiniteSet(S)
      BY <1>2, Zenon DEF FiniteLEs
    <3>3. Load(hostedLE[p], k) = Total(f, S) /\ Load(hostedLE[p], k)' = Total(g, S)
      BY <2>1, Zenon DEF Load
    <3> HIDE DEF f, g, S
    <3> QED
      BY <3>1, <3>2, <3>3, TotalEqual, Zenon
  <2> QED
    BY <1>1, <2>1, <2>2, <2>4, Zenon DEF UsageInv, FiniteLEs, Conserved
<1> QED
  BY <1>3, <1>4, <1>5, Zenon DEF stateupdater_updateLE

\* Every step of the updater and the evaluator keeps the usages right.
LEMMA UsageNext == Structure /\ SInv /\ UsageInv /\ [Next]_vars => UsageInv'
<1> SUFFICES ASSUME Structure, SInv, UsageInv, [Next]_vars PROVE UsageInv'
  OBVIOUS
<1>1. ASSUME NEW g \in Generations, stateupdater_start(g) PROVE UsageInv'
  <2>1. UNCHANGED cloudVars /\ (observedLEs' = observedLEs \/ observedLEs' = {})
    BY <1>1, Zenon DEF stateupdater_start, StartStale, StartFresh, StartOverOpen, OpenSession, sessionVars
  <2> QED
    BY <2>1, UsageUntouched, FS_EmptySet, Zenon DEF cloudVars, UsageInv, FiniteLEs
<1>2. ASSUME stateupdater_stop PROVE UsageInv'
  BY <1>2, UsageUntouched, Zenon DEF stateupdater_stop, cloudVars, sessionVars, UsageInv, FiniteLEs
<1>3. ASSUME StopStep PROVE UsageInv'
  BY <1>3, UsageStopStep, Zenon
<1>4. ASSUME NEW p \in PEid, NEW c \in Capacities, NEW o \in Overflows, NEW u \in Usages,
             stateupdater_updatePE(p, c, o, u)
      PROVE  UsageInv'
  BY <1>4, UsageUpdatePE, Zenon
<1>5. ASSUME NEW l \in LEid, NEW h \in PEid, NEW d \in Demands, stateupdater_updateLE(l, h, d)
      PROVE  UsageInv'
  BY <1>5, UsageUpdateLE, Zenon
<1>6. CASE UNCHANGED vars
  BY <1>6, UsageUntouched, Zenon DEF vars, cloudVars, sessionVars, UsageInv, FiniteLEs
<1>7. ASSUME NEW d \in Demands, evaluator_eval(d) PROVE UsageInv'
  BY <1>6, <1>7, EvalStutters, Zenon DEF Structure
<1> QED
  BY <1>1, <1>2, <1>3, <1>4, <1>5, <1>6, <1>7, Zenon DEF Next

\* In every reachable state the LEs are finite and the usages are the sums of
\* the demands of the hosted LEs.
THEOREM UsageInvariant == Spec => []UsageInv
  BY UsageInit, UsageNext, StructureInvariant, SessionInvariant, PTL DEF Spec

\* Without usage observations the usage of every PE is exactly the demand of
\* the LEs it hosts, whatever sequence of sessions, removals, placements and
\* evaluations led there: pe_placeLE and pe_removeLE never count or release
\* an LE twice, and the clamp in resource_release never bites.
THEOREM UsageConservedCorrect == Spec => []UsageConserved
<1>1. UsageInv => UsageConserved
  BY Zenon DEF UsageInv, Conserved, UsageConserved
<1> QED
  BY <1>1, UsageInvariant, PTL

\* The promise of stateupdater.h: while stop() effects the placements, a PE
\* whose LEs will fit when it is done is not overloaded on the way.
THEOREM NoTransientOverflowCorrect == Spec => []NoTransientOverflow
<1>1. Structure /\ SInv /\ UsageInv => NoTransientOverflow
  <2> SUFFICES ASSUME Structure, SInv, UsageInv, phase = "place", Usages = {NULL},
                      NEW p \in ToSet(pes), NEW k \in Res,
                      Load({l \in LEid : Target(l) = p}, k) <= res[p].capacity[k]
               PROVE  res[p].usage[k] <= res[p].capacity[k]
    BY Zenon DEF NoTransientOverflow
  <2> DEFINE S == {l \in LEid : Target(l) = p}
  <2>1. /\ p \in PEid /\ p # NULL /\ hostedLE[p] \subseteq LEid
        /\ demand \in [LEid -> [Res -> Nat]]
        /\ res[p].capacity[k] \in Int
    BY TypeFacts, CloudTypeSplit, SMTT(30)
       DEF Structure, TypeOK, PlacementType, ListType, SafeResource, Resource, Vector
  <2>2. S \subseteq observedLEs /\ IsFiniteSet(S)
    <3>1. S \subseteq observedLEs
      BY <2>1, Zenon DEF Target
    <3> QED
      BY <3>1, FS_Subset, Zenon DEF UsageInv, FiniteLEs
  <2>3. hostedLE[p] \subseteq S
    <3> SUFFICES ASSUME NEW l \in hostedLE[p] PROVE Target(l) = p
      BY <2>1, Zenon
    <3>1. l \in LEid /\ host[l] = p /\ started
      BY <2>1, Zenon DEF SInv, HostConsistent, PEsOfSession
    <3>2. l \notin todo
      BY <2>1, <3>1, Zenon DEF SInv, LEsOfSession, Unplaced
    <3> QED
      BY <3>1, <3>2, Zenon DEF SInv, LEsOfSession
  <2>4. Load(hostedLE[p], k) \in Nat /\ Load(hostedLE[p], k) <= Load(S, k) /\ Load(S, k) \in Nat
    <3> HIDE DEF S
    <3>1. S \in SUBSET LEid
      BY Zenon DEF S
    <3> QED
      BY <2>1, <2>2, <2>3, <3>1, LoadChange, Zenon
  <2>5. res[p].usage[k] = Load(hostedLE[p], k)
    BY Zenon DEF UsageInv, Conserved
  <2> QED
    BY <2>1, <2>4, <2>5, SMTT(30)
<1> QED
  BY <1>1, StructureInvariant, SessionInvariant, UsageInvariant, PTL
=============================================================================
