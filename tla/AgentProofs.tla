----------------------------- MODULE AgentProofs ----------------------------
(***************************************************************************)
(* The agent implements the updater: whatever the handlers do, and however *)
(* their calls interleave, the library sees a behaviour of StateUpdater.   *)
(* So the theorems on the updater hold of it with any number of handlers.  *)
(* AgentInv is the inductive invariant of the handlers themselves; a       *)
(* request that is handled alone is answered exactly, whatever the         *)
(* requests before it left behind.                                         *)
(***************************************************************************)
EXTENDS PigeonAgent, SessionProofs

\* The generation numbers stay within the bound.
GenInv == genNum \in 0..MaxGen /\ tmp \in [Handler -> Nat]

\* The initial state of the agent (NewClient) satisfies GenInv.
LEMMA GenInvInit == AgentInit => GenInv
  BY AgentAssumption, SMTT(30) DEF AgentInit, GenInv

\* Every step of a request handler keeps GenInv.
LEMMA GenInvNext == GenInv /\ [AgentNext]_allVars => GenInv'
<1> SUFFICES ASSUME GenInv, [AgentNext]_allVars PROVE GenInv'
  BY Zenon
<1> USE DEF GenInv
<1>1. ASSUME NEW h \in Handler, NEW ns \in SUBSET PEid, Receive(h, ns) PROVE GenInv'
  BY <1>1, Zenon DEF Receive
<1>2. ASSUME NEW h \in Handler, HandlerStep(h) PROVE GenInv'
  <2>1. CASE ReadGenNum(h)
    BY <2>1, SMTT(30) DEF ReadGenNum
  <2>2. CASE WriteGenNum(h)
    BY <2>2, AgentAssumption, SMTT(30) DEF WriteGenNum, locals
  <2>3. CASE StateUpdateStart(h) \/ \E n \in PEid : StateUpdateNode(h, n)
    BY <2>3, Zenon DEF StateUpdateStart, StateUpdateNode
  <2>4. CASE StartReturns(h) \/ StateUpdateStop(h) \/ StopReturns(h) \/ NamesDone(h)
    BY <2>4, Zenon DEF StartReturns, StateUpdateStop, StopReturns, NamesDone, locals
  <2>5. CASE GetNumPEs(h) \/ GetPEname(h) \/ EvaluateAndAnswer(h)
    BY <2>5, Zenon DEF GetNumPEs, GetPEname, EvaluateAndAnswer
  <2> QED
    BY <1>2, <2>1, <2>2, <2>3, <2>4, <2>5, Zenon DEF HandlerStep
<1>3. CASE UpdaterStep \/ UNCHANGED allVars
  BY <1>3, Zenon DEF UpdaterStep, allVars, agentVars, locals
<1> QED
  BY <1>1, <1>2, <1>3, Zenon DEF AgentNext

\* Every step of the agent is a call into the updater, a step of a running
\* stop(), or does not touch the library.
LEMMA AgentStep == GenInv /\ [AgentNext]_allVars => [Next]_vars
<1> SUFFICES ASSUME GenInv, [AgentNext]_allVars PROVE Next \/ UNCHANGED vars
  BY Zenon
<1>1. ASSUME NEW h \in Handler, NEW ns \in SUBSET PEid, Receive(h, ns) PROVE UNCHANGED vars
  BY <1>1, Zenon DEF Receive
<1>2. ASSUME NEW h \in Handler, HandlerStep(h) PROVE Next \/ UNCHANGED vars
  <2>1. CASE ReadGenNum(h) \/ WriteGenNum(h) \/ StartReturns(h) \/ StopReturns(h)
    BY <2>1, Zenon DEF ReadGenNum, WriteGenNum, StartReturns, StopReturns
  <2>2. CASE GetNumPEs(h) \/ GetPEname(h) \/ NamesDone(h)
    BY <2>2, Zenon DEF GetNumPEs, GetPEname, NamesDone
  <2>3. CASE StateUpdateStart(h)
    <3>1. genNum \in Generations
      BY AgentAssumption, Zenon DEF GenInv
    <3> QED
      BY <2>3, <3>1, Zenon DEF StateUpdateStart, Next
  <2>4. CASE \E n \in PEid : StateUpdateNode(h, n)
    BY <2>4, Zenon DEF StateUpdateNode, Next
  <2>5. CASE StateUpdateStop(h)
    BY <2>5, Zenon DEF StateUpdateStop, Next
  <2>6. CASE EvaluateAndAnswer(h)
    BY <2>6, Zenon DEF EvaluateAndAnswer, Next
  <2> QED
    BY <1>2, <2>1, <2>2, <2>3, <2>4, <2>5, <2>6, Zenon DEF HandlerStep
<1>3. CASE UpdaterStep
  BY <1>3, Zenon DEF UpdaterStep, Next
<1>4. CASE UNCHANGED allVars
  BY <1>4, Zenon DEF allVars
<1> QED
  BY <1>1, <1>2, <1>3, <1>4, Zenon DEF AgentNext

\* The calls that any number of overlapping request handlers make, in any
\* order, are a behaviour of the updater.
THEOREM AgentImplementsUpdater == AgentSpec => Spec
<1>1. AgentInit => Init
  BY Zenon DEF AgentInit
<1> QED
  BY <1>1, GenInvInit, GenInvNext, AgentStep, PTL DEF AgentSpec, Spec

\* Overlapping requests cannot break the structure of the model: names, map
\* and positions agree whatever the handlers do.
THEOREM AgentKeepsStructure == AgentSpec => []ModelStructure
  BY AgentImplementsUpdater, ModelStructureCorrect, PTL

\* Nor can they make the report of a session wrong.
THEOREM AgentKeepsReport == AgentSpec => []ReportExact
  BY AgentImplementsUpdater, ReportExactCorrect, PTL

-----------------------------------------------------------------------------
(***************************************************************************)
(* What a request that is handled alone gets.  The invariant follows such  *)
(* a handler through its session: what it has observed, what stop() leaves *)
(* in the model, and what it has read of the model since.                  *)
(***************************************************************************)
HandlerType ==
  /\ pc \in [Handler -> Active \cup {"idle", "done"}]
  /\ nodes \in [Handler -> SUBSET PEid] /\ left \in [Handler -> SUBSET PEid]
  /\ alone \in [Handler -> BOOLEAN]
  /\ numNodes \in [Handler -> Nat] /\ nameList \in [Handler -> Seq(PEid \cup {NoName})]
  /\ DOMAIN answer = Handler /\ DOMAIN isStarted = Handler

\* A handler that is alone is the only one that has not answered, and stop()
\* runs only on behalf of a handler.
Exclusive ==
  /\ \A h, k \in Handler : alone[h] /\ pc[h] \in Active /\ pc[k] \in Active => k = h
  /\ phase # "ready" => \E h \in Handler : pc[h] \in {"starting", "stopping"}

\* The model and the handler h, alone and with a session of its own.
Handled(h) ==
  /\ pc[h] = "starting" => IF phase = "ready" THEN started /\ observedPEs = {} ELSE pending # NULL
  /\ pc[h] = "update" => started /\ left[h] \subseteq nodes[h] /\ observedPEs = nodes[h] \ left[h]
  /\ pc[h] = "stopping" => IF phase = "ready" THEN ToSet(pes) = nodes[h]
                           ELSE pending = NULL /\ observedPEs = nodes[h]
  /\ pc[h] \in {"count", "names", "eval"} => ToSet(pes) = nodes[h]
  /\ pc[h] = "names" => /\ numNodes[h] = Len(pes) /\ Len(nameList[h]) <= Len(pes)
                        /\ \A i \in 1..Len(nameList[h]) : nameList[h][i] = pes[i]
  /\ pc[h] = "eval" => nameList[h] = pes
  /\ pc[h] = "done" => Exact(h)

Served ==
  /\ \A h \in Handler : pc[h] \in {"read", "write", "start", "starting"} => left[h] = nodes[h]
  /\ \A h \in Handler : alone[h] /\ isStarted[h] => Handled(h)

\* As long as no two requests overlap, genNum only grows, so that every
\* start() returns true.
Sequential ==
  ~overlapped =>
    /\ gen <= genNum /\ (pending # NULL => pending <= genNum)
    /\ \A h \in Handler :
         /\ pc[h] # "idle" => alone[h]
         /\ pc[h] = "write" => tmp[h] = genNum
         /\ pc[h] = "start" => gen < genNum
         /\ pc[h] \notin {"idle", "read", "write", "start"} => isStarted[h]

AgentInv == HandlerType /\ Exclusive /\ Served /\ Sequential

\* The initial state of the agent (NewClient) satisfies the invariant.
LEMMA AgentInvInit == AgentInit => AgentInv
<1> SUFFICES ASSUME AgentInit PROVE AgentInv
  BY Zenon
<1>1. \A h \in Handler : pc[h] = "idle" /\ alone[h] = FALSE
  BY Zenon DEF AgentInit
<1>2. phase = "ready" /\ gen = -1 /\ genNum = 0 /\ pending = NULL
  BY Zenon DEF AgentInit, Init
<1>3. HandlerType
  BY SMTT(30) DEF AgentInit, HandlerType
<1>4. Exclusive /\ Served
  BY <1>1, <1>2, Zenon DEF Exclusive, Served
<1>5. Sequential
  BY <1>1, <1>2, SMTT(30) DEF Sequential
<1> QED
  BY <1>3, <1>4, <1>5, Zenon DEF AgentInv

\* What one step of a running stop() does that a handler can see.
LEMMA StopStepEffect ==
  ASSUME StopStep
  PROVE  \/ /\ phase # "ready" /\ phase' # "ready"
            /\ UNCHANGED <<pending, observedPEs, gen>>
         \/ /\ phase = "place" /\ phase' = "ready" /\ pending' = NULL /\ pes' = pes
            /\ IF pending = NULL THEN gen' = gen
               ELSE gen' = pending /\ started' /\ observedPEs' = {}
<1>1. ASSUME NEW p \in PEid, StopDropPE(p)
      PROVE  phase # "ready" /\ UNCHANGED <<phase, pending, observedPEs, gen>>
  BY <1>1, Zenon DEF StopDropPE
<1>2. ASSUME StopResetPEs \/ StopBeginPlacements
      PROVE  phase # "ready" /\ phase' # "ready" /\ UNCHANGED <<pending, observedPEs, gen>>
  BY <1>2, Zenon DEF StopResetPEs, StopBeginPlacements, sessionVars
<1>3. ASSUME NEW l \in LEid, StopDropLE(l) \/ StopPlaceLE(l)
      PROVE  phase # "ready" /\ UNCHANGED <<phase, pending, observedPEs, gen>>
  BY <1>3, Zenon DEF StopDropLE, StopPlaceLE, sessionVars
<1>4. ASSUME StopFinish
      PROVE  /\ phase = "place" /\ phase' = "ready" /\ pending' = NULL /\ pes' = pes
             /\ IF pending = NULL THEN gen' = gen
                ELSE gen' = pending /\ started' /\ observedPEs' = {}
  BY <1>4, Zenon DEF StopFinish, OpenSession, cloudVars
<1> QED
  BY <1>1, <1>2, <1>3, <1>4, Zenon DEF StopStep

\* What start() does, by its result.
LEMMA StartEffect ==
  ASSUME NEW g, stateupdater_start(g), TypeOK, g \in Generations
  PROVE  /\ phase = "ready"
         /\ IF g <= gen
            THEN phase' = "ready" /\ UNCHANGED <<gen, pending>>
            ELSE \/ phase' = "ready" /\ gen' = g /\ pending' = pending /\ started' /\ observedPEs' = {}
                 \/ phase' # "ready" /\ gen' = gen /\ pending' = g
<1>1. g \in Int /\ gen \in Int
  BY ConstantsAssumption, SMTT(30) DEF TypeOK, SessionType
<1>2. CASE StartStale(g)
  BY <1>1, <1>2, Zenon DEF StartStale, stopVars
<1>3. CASE StartFresh(g)
  BY <1>1, <1>3, SMTT(30) DEF StartFresh, OpenSession, stopVars
<1>4. CASE StartOverOpen(g)
  BY <1>1, <1>4, SMTT(30) DEF StartOverOpen, EnterStop, sessionVars
<1> QED
  BY <1>2, <1>3, <1>4, Zenon DEF stateupdater_start

\* The types of the locals of the handlers.
LEMMA HandlerTypeNext == TypeOK /\ HandlerType /\ [AgentNext]_allVars => HandlerType'
<1> SUFFICES ASSUME TypeOK, HandlerType, [AgentNext]_allVars PROVE HandlerType'
  BY Zenon
<1> USE DEF HandlerType
<1>1. ASSUME NEW h \in Handler, NEW ns \in SUBSET PEid, Receive(h, ns) PROVE HandlerType'
  <2>1. alone' \in [Handler -> BOOLEAN]
    BY <1>1, ZenonT(30) DEF Receive
  <2> QED
    BY <1>1, <2>1, Zenon DEF Receive, Active
<1>2. ASSUME NEW h \in Handler, HandlerStep(h) PROVE HandlerType'
  <2>1. CASE ReadGenNum(h) \/ WriteGenNum(h)
    BY <2>1, Zenon DEF ReadGenNum, WriteGenNum, Goto, Active
  <2>2. CASE StateUpdateStart(h)
    BY <2>2, Zenon DEF StateUpdateStart, Goto, Active
  <2>3. CASE StartReturns(h) \/ StateUpdateStop(h) \/ StopReturns(h) \/ NamesDone(h)
    BY <2>3, Zenon DEF StartReturns, StateUpdateStop, StopReturns, NamesDone, Goto, Active, locals
  <2>4. ASSUME NEW n \in PEid, StateUpdateNode(h, n) PROVE HandlerType'
    BY <2>4, Zenon DEF StateUpdateNode
  <2>5. CASE GetNumPEs(h)
    <3>1. Len(pes) \in Nat
      BY SMTT(30) DEF TypeOK, CloudType
    <3> QED
      BY <2>5, <3>1, SMTT(30) DEF GetNumPEs, Goto, Active
  <2>6. CASE GetPEname(h)
    <3> DEFINE i == Len(nameList[h]) + 1
               e == IF i <= Len(pes) THEN pes[i] ELSE NoName
    <3>1. e \in PEid \cup {NoName}
      BY SMTT(30) DEF TypeOK, CloudType
    <3>2. Append(nameList[h], e) \in Seq(PEid \cup {NoName})
      BY <3>1, SMTT(30)
    <3>3. nameList' = [nameList EXCEPT ![h] = Append(@, e)]
      BY <2>6, Zenon DEF GetPEname
    <3> HIDE DEF e
    <3> QED
      BY <2>6, <3>2, <3>3, SMTT(30) DEF GetPEname
  <2>7. CASE EvaluateAndAnswer(h)
    BY <2>7, SMTT(30) DEF EvaluateAndAnswer, Goto, Active
  <2> QED
    BY <1>2, <2>1, <2>2, <2>3, <2>4, <2>5, <2>6, <2>7, Zenon DEF HandlerStep
<1>3. CASE UpdaterStep \/ UNCHANGED allVars
  BY <1>3, Zenon DEF UpdaterStep, allVars, agentVars, locals
<1> QED
  BY <1>1, <1>2, <1>3, Zenon DEF AgentNext

\* How a step of handler h moves the control points and what it leaves alone.
LEMMA HandlerMoves ==
  ASSUME HandlerType, NEW h \in Handler, HandlerStep(h)
  PROVE  /\ pc[h] \in Active
         /\ pc'[h] \in Active \cup {"done"}
         /\ UNCHANGED <<nodes, alone, overlapped>>
         /\ \A k \in Handler \ {h} :
              pc'[k] = pc[k] /\ answer'[k] = answer[k] /\ left'[k] = left[k]
              /\ isStarted'[k] = isStarted[k]
<1> USE DEF HandlerType, Active
<1>1. CASE ReadGenNum(h) \/ WriteGenNum(h)
  BY <1>1, Zenon DEF ReadGenNum, WriteGenNum, Goto
<1>2. CASE StateUpdateStart(h)
  BY <1>2, Zenon DEF StateUpdateStart, Goto
<1>3. CASE StartReturns(h) \/ StateUpdateStop(h) \/ StopReturns(h) \/ NamesDone(h)
  BY <1>3, Zenon DEF StartReturns, StateUpdateStop, StopReturns, NamesDone, Goto, locals
<1>4. ASSUME NEW n \in PEid, StateUpdateNode(h, n)
      PROVE  /\ pc[h] = "update" /\ UNCHANGED <<pc, nodes, alone, overlapped, answer, isStarted>>
             /\ left' = [left EXCEPT ![h] = @ \ {n}]
  BY <1>4, Zenon DEF StateUpdateNode
<1>5. CASE GetNumPEs(h) \/ GetPEname(h)
  BY <1>5, Zenon DEF GetNumPEs, GetPEname, Goto
<1>6. CASE EvaluateAndAnswer(h)
  BY <1>6, Zenon DEF EvaluateAndAnswer, Goto
<1> QED
  BY <1>1, <1>2, <1>3, <1>4, <1>5, <1>6, Zenon DEF HandlerStep

\* Every step keeps a handler that is alone the only active one.
LEMMA ExclusiveNext ==
  TypeOK /\ GenInv /\ HandlerType /\ Exclusive /\ [AgentNext]_allVars => Exclusive'
<1> SUFFICES ASSUME TypeOK, GenInv, HandlerType, Exclusive, [AgentNext]_allVars PROVE Exclusive'
  BY Zenon
<1>1. ASSUME NEW h \in Handler, NEW ns \in SUBSET PEid, Receive(h, ns) PROVE Exclusive'
  <2>1. /\ phase' = phase /\ pc' = [pc EXCEPT ![h] = "read"] /\ pc[h] \notin Active
        /\ alone' = [k \in Handler |-> IF k = h THEN {j \in Handler \ {h} : pc[j] \in Active} = {}
                                       ELSE alone[k] /\ pc[k] \notin Active]
    BY <1>1, Zenon DEF Receive, vars, stopVars, Active
  <2>2. \A k \in Handler : alone'[k] /\ pc'[k] \in Active => k = h
    BY <2>1, Zenon DEF HandlerType
  <2>3. \A k \in Handler : alone'[h] /\ pc'[k] \in Active => k = h
    BY <2>1, Zenon DEF HandlerType
  <2>4. \A k \in Handler : pc[k] \in {"starting", "stopping"} => pc'[k] = pc[k]
    BY <2>1, Zenon DEF HandlerType, Active
  <2> QED
    BY <2>1, <2>2, <2>3, <2>4, Zenon DEF Exclusive
<1>2. ASSUME NEW h \in Handler, HandlerStep(h) PROVE Exclusive'
  <2>1. /\ pc[h] \in Active /\ alone' = alone
        /\ \A k \in Handler \ {h} : pc'[k] = pc[k]
    BY <1>2, HandlerMoves, Zenon
  <2>2. phase' # "ready" => \E k \in Handler : pc'[k] \in {"starting", "stopping"}
    <3>1. CASE StateUpdateStart(h) \/ StateUpdateStop(h)
      BY <3>1, Zenon DEF StateUpdateStart, StateUpdateStop, Goto, HandlerType
    <3>2. CASE StartReturns(h) \/ StopReturns(h)
      BY <3>2, Zenon DEF StartReturns, StopReturns, vars, stopVars
    <3>3. CASE phase' = phase /\ pc[h] \notin {"starting", "stopping"}
      BY <2>1, <3>3, Zenon DEF Exclusive
    <3>4. CASE ReadGenNum(h) \/ WriteGenNum(h) \/ NamesDone(h)
      BY <3>3, <3>4, Zenon DEF ReadGenNum, WriteGenNum, NamesDone, Goto, vars, stopVars
    <3>5. CASE GetNumPEs(h) \/ GetPEname(h)
      BY <3>3, <3>5, Zenon DEF GetNumPEs, GetPEname, Goto, vars, stopVars
    <3>6. CASE \E n \in PEid : StateUpdateNode(h, n)
      BY <3>3, <3>6, SMTT(30) DEF StateUpdateNode, stateupdater_updatePE, vars, stopVars
    <3>7. CASE EvaluateAndAnswer(h)
      BY <3>3, <3>7, Zenon DEF EvaluateAndAnswer, evaluator_eval, Goto, stopVars
    <3> QED
      BY <1>2, <3>1, <3>2, <3>4, <3>5, <3>6, <3>7, Zenon DEF HandlerStep
  <2> QED
    BY <2>1, <2>2, Zenon DEF Exclusive
<1>3. CASE UpdaterStep
  <2>1. phase # "ready" /\ UNCHANGED <<pc, alone>>
    BY <1>3, StopStepEffect, Zenon DEF UpdaterStep, agentVars, locals
  <2> QED
    BY <2>1, Zenon DEF Exclusive
<1>4. CASE UNCHANGED allVars
  BY <1>4, Zenon DEF allVars, agentVars, locals, vars, stopVars, Exclusive
<1> QED
  BY <1>1, <1>2, <1>3, <1>4, Zenon DEF AgentNext

\* Steps of handler h leave every other handler that is alone in peace.
LEMMA OthersServed ==
  ASSUME HandlerType, Exclusive, Served, NEW h \in Handler, HandlerStep(h),
         NEW k \in Handler \ {h}
  PROVE  /\ pc'[k] \in {"read", "write", "start", "starting"} => left'[k] = nodes'[k]
         /\ alone'[k] /\ isStarted'[k] => Handled(k)'
<1>1. /\ pc[h] \in Active /\ UNCHANGED <<nodes, alone>>
      /\ pc'[k] = pc[k] /\ answer'[k] = answer[k] /\ left'[k] = left[k] /\ isStarted'[k] = isStarted[k]
  BY HandlerMoves, Zenon
<1>2. ASSUME alone[k], isStarted[k] PROVE Handled(k)'
  <2>1. pc[k] \in {"idle", "done"}
    BY <1>1, <1>2, Zenon DEF Exclusive, HandlerType
  <2>2. pc[k] = "done" => Exact(k)
    BY <1>2, Zenon DEF Served, Handled
  <2> QED
    BY <1>1, <2>1, <2>2, Zenon DEF Handled, Exact
<1> QED
  BY <1>1, <1>2, Zenon DEF Served

\* The request of handler h, up to the end of its session.
LEMMA ServedSession ==
  ASSUME TypeOK, GenInv, HandlerType, Exclusive, Served, NEW h \in Handler,
         \/ ReadGenNum(h) \/ WriteGenNum(h) \/ StateUpdateStart(h) \/ StartReturns(h)
         \/ \E n \in PEid : StateUpdateNode(h, n)
         \/ StateUpdateStop(h) \/ StopReturns(h)
  PROVE  /\ pc'[h] \in {"read", "write", "start", "starting"} => left'[h] = nodes'[h]
         /\ alone'[h] /\ isStarted'[h] => Handled(h)'
<1> USE DEF HandlerType
<1>1. CASE ReadGenNum(h)
  BY <1>1, Zenon DEF ReadGenNum, Goto, Handled, Served
<1>2. CASE WriteGenNum(h)
  BY <1>2, Zenon DEF WriteGenNum, Goto, Handled, Served
<1>3. CASE StateUpdateStart(h)
  <2>1. /\ pc'[h] = "starting" /\ isStarted'[h] = (genNum > gen) /\ left'[h] = nodes'[h]
        /\ stateupdater_start(genNum)
    BY <1>3, Zenon DEF StateUpdateStart, Goto, Served
  <2>2. genNum \in Generations /\ genNum \in Int /\ gen \in Int /\ genNum # NULL
    <3>1. genNum \in Generations
      BY AgentAssumption, Zenon DEF GenInv
    <3>2. gen \in Generations \cup {-1}
      BY Zenon DEF TypeOK, SessionType
    <3>3. NULL \notin Generations /\ Generations \subseteq Int
      BY ConstantsAssumption, SMTT(30)
    <3> HIDE DEF HandlerType
    <3> QED
      BY <3>1, <3>2, <3>3, SMTT(30)
  <2>3. genNum > gen => \/ phase' = "ready" /\ started' /\ observedPEs' = {}
                        \/ phase' # "ready" /\ pending' # NULL
    <3>1. IF genNum <= gen
          THEN phase' = "ready" /\ UNCHANGED <<gen, pending>>
          ELSE \/ phase' = "ready" /\ gen' = genNum /\ pending' = pending /\ started' /\ observedPEs' = {}
               \/ phase' # "ready" /\ gen' = gen /\ pending' = genNum
      BY <2>1, <2>2, StartEffect, Zenon
    <3>2. genNum > gen => ~(genNum <= gen)
      BY <2>2, SMTT(30)
    <3> QED
      BY <2>2, <3>1, <3>2, Zenon
  <2> QED
    BY <2>1, <2>3, Zenon DEF Handled
<1>4. CASE StartReturns(h)
  <2>1. /\ pc[h] = "starting" /\ pc' = [pc EXCEPT ![h] = IF isStarted[h] THEN "update" ELSE "count"]
        /\ phase = "ready" /\ UNCHANGED <<vars, locals>>
    BY <1>4, Zenon DEF StartReturns, Goto
  <2>2. UNCHANGED <<started, observedPEs, left, nodes, alone, isStarted>>
    BY <2>1, Zenon DEF vars, sessionVars, locals
  <2>3. ASSUME alone[h], isStarted[h] PROVE Handled(h)'
    <3>1. pc'[h] = "update" /\ started /\ observedPEs = {} /\ left[h] = nodes[h]
      BY <2>1, <2>3, Zenon DEF Served, Handled
    <3> QED
      BY <2>2, <3>1, Zenon DEF Handled
  <2>4. pc'[h] \in {"update", "count"}
    BY <2>1, Zenon
  <2> QED
    BY <2>2, <2>3, <2>4, Zenon
<1>5. ASSUME NEW n \in PEid, StateUpdateNode(h, n)
      PROVE  /\ pc'[h] = "update"
             /\ alone'[h] /\ isStarted'[h] => Handled(h)'
  <2>1. /\ pc[h] = "update" /\ n \in left[h] /\ left' = [left EXCEPT ![h] = @ \ {n}]
        /\ UNCHANGED <<pc, nodes, alone, isStarted>>
    BY <1>5, Zenon DEF StateUpdateNode
  <2>2. ASSUME alone[h], isStarted[h] PROVE Handled(h)'
    <3>1. started /\ left[h] \subseteq nodes[h] /\ observedPEs = nodes[h] \ left[h]
      BY <2>1, <2>2, Zenon DEF Served, Handled
    <3>2. observedPEs' = observedPEs \cup {n} /\ started'
      BY <1>5, <3>1, Zenon DEF StateUpdateNode, stateupdater_updatePE
    <3> QED
      BY <2>1, <3>1, <3>2, Zenon DEF Handled
  <2> QED
    BY <2>1, <2>2, Zenon
<1>6. CASE StateUpdateStop(h)
  <2>1. /\ pc[h] = "update" /\ pc' = [pc EXCEPT ![h] = "stopping"] /\ left[h] = {}
        /\ UNCHANGED locals /\ IF started THEN stateupdater_stop ELSE UNCHANGED vars
    BY <1>6, Zenon DEF StateUpdateStop, Goto
  <2>2. ASSUME alone[h], isStarted[h] PROVE Handled(h)'
    <3>1. started /\ observedPEs = nodes[h]
      BY <2>1, <2>2, Zenon DEF Served, Handled
    <3>2. phase' # "ready" /\ pending' = NULL /\ observedPEs' = observedPEs
      BY <2>1, <3>1, ZenonT(30) DEF stateupdater_stop, EnterStop, sessionVars
    <3> QED
      BY <2>1, <3>1, <3>2, Zenon DEF Handled, locals
  <2> QED
    BY <2>1, <2>2, Zenon DEF locals
<1>7. CASE StopReturns(h)
  <2>1. /\ pc[h] = "stopping" /\ pc' = [pc EXCEPT ![h] = "count"] /\ phase = "ready"
        /\ UNCHANGED <<vars, locals>>
    BY <1>7, Zenon DEF StopReturns, Goto
  <2>2. ASSUME alone[h], isStarted[h] PROVE Handled(h)'
    <3>1. ToSet(pes) = nodes[h]
      BY <2>1, <2>2, Zenon DEF Served, Handled
    <3> QED
      BY <2>1, <3>1, Zenon DEF Handled, locals, vars, cloudVars
  <2> QED
    BY <2>1, <2>2, Zenon DEF locals
<1> QED
  BY <1>1, <1>2, <1>3, <1>4, <1>5, <1>6, <1>7, Zenon

\* The answer computed from the names of the model as it is: GetPodRanks finds
\* under each name the value of that node, and PriorityFunc has one entry for
\* each.
LEMMA AnswersExact ==
  ASSUME TypeOK, ModelStructure, NEW h \in Handler, ToSet(pes) = nodes[h]
  PROVE  Answers(h, ranks(pes)) = [panic |-> FALSE, blank |-> 0, ranks |-> [n \in nodes[h] |-> n]]
<1>1. pes \in Seq(PEid) /\ Injective(pes)
  BY Zenon DEF TypeOK, CloudType, ModelStructure, Injective
<1> DEFINE last(n) == CHOOSE i \in DOMAIN pes : pes[i] = n /\ \A j \in DOMAIN pes : pes[j] = n => j <= i
           value(i) == IF i <= Len(pes) THEN pes[i] ELSE Garbage
<1>2. ASSUME NEW n \in ToSet(pes) PROVE value(last(n)) = n
  <2>1. PICK i \in DOMAIN pes : pes[i] = n
    BY <1>1, Zenon DEF ToSet
  <2>2. i \in Int
    BY <1>1, <2>1, SMTT(30)
  <2>3. \A j \in DOMAIN pes : pes[j] = n => j <= i
    BY <1>1, <2>1, <2>2, SMTT(30) DEF Injective
  <2>4. last(n) \in DOMAIN pes /\ pes[last(n)] = n
    BY <2>1, <2>3, Zenon
  <2>5. last(n) <= Len(pes)
    BY <1>1, <2>4, SMTT(30)
  <2> QED
    BY <2>4, <2>5, Zenon
<1>3. ranks(pes) = [n \in ToSet(pes) |-> value(last(n))]
  BY Zenon DEF ranks
<1> HIDE DEF last, value
<1>4. ranks(pes) = [n \in nodes[h] |-> n]
  BY <1>2, <1>3, Zenon
<1>5. Cardinality(nodes[h]) \in Nat
  BY <1>1, SequenceIsFinite, FS_CardinalityType, Zenon
<1>6. DOMAIN ranks(pes) = nodes[h]
  BY <1>4, Zenon
<1> DEFINE r == ranks(pes)
<1>7. DOMAIN r = nodes[h] /\ r = [n \in nodes[h] |-> n]
  BY <1>4, <1>6, Zenon
<1> HIDE DEF r
<1>8. ~(Cardinality(DOMAIN r) > Cardinality(nodes[h])) /\ Cardinality(nodes[h]) - Cardinality(DOMAIN r) = 0
  BY <1>5, <1>7, SMTT(30)
<1>9. Answers(h, r) = [panic |-> FALSE, blank |-> 0, ranks |-> r]
  BY <1>8, Zenon DEF Answers
<1> QED
  BY <1>7, <1>9, Zenon DEF r

\* The rest of the request of handler h: what it reads after its session.
LEMMA ServedAnswer ==
  ASSUME Structure, HandlerType, Exclusive, Served, NEW h \in Handler,
         GetNumPEs(h) \/ GetPEname(h) \/ NamesDone(h) \/ EvaluateAndAnswer(h)
  PROVE  /\ pc'[h] \notin {"read", "write", "start", "starting"}
         /\ alone'[h] /\ isStarted'[h] => Handled(h)'
<1>1. pes \in Seq(PEid) /\ Len(pes) \in Nat
  BY SMTT(30) DEF Structure, TypeOK, CloudType
<1>2. CASE GetNumPEs(h)
  <2>1. /\ pc[h] = "count" /\ pc'[h] = "names" /\ numNodes'[h] = Len(pes) /\ nameList'[h] = <<>>
        /\ UNCHANGED <<nodes, alone, isStarted, pes>>
    BY <1>2, Zenon DEF GetNumPEs, Goto, HandlerType, vars, cloudVars
  <2>2. ASSUME alone[h], isStarted[h] PROVE Handled(h)'
    <3>1. ToSet(pes) = nodes[h]
      BY <2>1, <2>2, Zenon DEF Served, Handled
    <3>2. Len(nameList'[h]) <= Len(pes') /\ \A i \in 1..Len(nameList'[h]) : FALSE
      BY <1>1, <2>1
    <3> HIDE DEF HandlerType
    <3> QED
      BY <2>1, <3>1, <3>2, Zenon DEF Handled
  <2> QED
    BY <2>1, <2>2, Zenon
<1>3. CASE GetPEname(h)
  <2> DEFINE i == Len(nameList[h]) + 1
  <2>1. /\ pc[h] = "names" /\ pc' = pc /\ i <= numNodes[h]
        /\ nameList' = [nameList EXCEPT ![h] = Append(@, IF i <= Len(pes) THEN pes[i] ELSE NoName)]
        /\ UNCHANGED <<nodes, alone, isStarted, pes, numNodes>>
    BY <1>3, Zenon DEF GetPEname, vars, cloudVars
  <2>2. nameList[h] \in Seq(PEid \cup {NoName}) /\ DOMAIN nameList = Handler
    BY ZenonT(30) DEF HandlerType
  <2>3. ASSUME alone[h], isStarted[h] PROVE Handled(h)'
    <3>1. /\ ToSet(pes) = nodes[h] /\ numNodes[h] = Len(pes)
          /\ \A j \in 1..Len(nameList[h]) : nameList[h][j] = pes[j]
      BY <2>1, <2>3, ZenonT(30) DEF Served, Handled
    <3>2. nameList'[h] = Append(nameList[h], pes[i])
      BY <2>1, <2>2, <3>1, Zenon
    <3>3. pes[i] \in PEid \cup {NoName}
      BY <1>1, <2>1, <2>2, <3>1, SMTT(30)
    <3>4. Len(nameList'[h]) = i /\ \A j \in 1..i : nameList'[h][j] = pes[j]
      BY <2>2, <3>1, <3>2, <3>3, SMTT(30)
    <3> HIDE DEF i
    <3> QED
      BY <2>1, <3>1, <3>4, Zenon DEF Handled
  <2> QED
    BY <2>1, <2>3, Zenon
<1>4. CASE NamesDone(h)
  <2>1. /\ pc[h] = "names" /\ pc'[h] = "eval" /\ Len(nameList[h]) = numNodes[h]
        /\ UNCHANGED <<nodes, alone, isStarted, pes, nameList>>
    BY <1>4, Zenon DEF NamesDone, Goto, HandlerType, vars, cloudVars, locals
  <2>2. ASSUME alone[h], isStarted[h] PROVE Handled(h)'
    <3>1. /\ ToSet(pes) = nodes[h] /\ Len(nameList[h]) = Len(pes)
          /\ \A j \in 1..Len(nameList[h]) : nameList[h][j] = pes[j]
      BY <2>1, <2>2, ZenonT(30) DEF Served, Handled
    <3>2. nameList[h] \in Seq(PEid \cup {NoName}) /\ pes \in Seq(PEid \cup {NoName})
      BY <1>1, SMTT(30) DEF HandlerType
    <3>3. nameList[h] = pes
      BY <3>1, <3>2, SMTT(30)
    <3> QED
      BY <2>1, <3>1, <3>3, Zenon DEF Handled
  <2> QED
    BY <2>1, <2>2, Zenon
<1>5. CASE EvaluateAndAnswer(h)
  <2>1. /\ pc[h] = "eval" /\ pc'[h] = "done"
        /\ answer'[h] = Answers(h, ranks(nameList[h]))
        /\ UNCHANGED <<nodes, alone, isStarted>>
    BY <1>5, Zenon DEF EvaluateAndAnswer, Goto, HandlerType
  <2>2. ASSUME alone[h], isStarted[h] PROVE Handled(h)'
    <3>1. ToSet(pes) = nodes[h] /\ nameList[h] = pes
      BY <2>1, <2>2, ZenonT(30) DEF Served, Handled
    <3>2. Exact(h)'
      BY <2>1, <3>1, AnswersExact, Zenon DEF Exact, Structure
    <3> QED
      BY <2>1, <3>2, Zenon DEF Handled
  <2> QED
    BY <2>1, <2>2, Zenon
<1> QED
  BY <1>2, <1>3, <1>4, <1>5, Zenon

\* Every step, of any handler and of a running stop(), keeps what is known of
\* a handler that is alone.
LEMMA ServedNext ==
  Structure /\ PEsOfSession /\ GenInv /\ HandlerType /\ Exclusive /\ Served /\ [AgentNext]_allVars
    => Served'
<1> SUFFICES ASSUME Structure, PEsOfSession, GenInv, HandlerType, Exclusive, Served,
                    [AgentNext]_allVars
             PROVE  Served'
  BY Zenon
<1>1. ASSUME NEW h \in Handler, NEW ns \in SUBSET PEid, Receive(h, ns) PROVE Served'
  <2>1. /\ pc' = [pc EXCEPT ![h] = "read"] /\ nodes' = [nodes EXCEPT ![h] = ns]
        /\ left' = [left EXCEPT ![h] = ns] /\ answer' = [answer EXCEPT ![h] = <<>>]
        /\ isStarted' = isStarted
        /\ \A k \in Handler \ {h} : alone'[k] => alone[k] /\ pc[k] \notin Active
    BY <1>1, ZenonT(30) DEF Receive
  <2>2. Handled(h)'
    BY <2>1, Zenon DEF Handled, HandlerType
  <2>3. ASSUME NEW k \in Handler \ {h}, alone'[k], isStarted[k] PROVE Handled(k)'
    <3>1. pc'[k] = pc[k] /\ pc[k] \in {"idle", "done"} /\ alone[k]
          /\ answer'[k] = answer[k] /\ nodes'[k] = nodes[k]
      BY <2>1, <2>3, Zenon DEF HandlerType
    <3>2. pc[k] = "done" => Exact(k)
      BY <2>3, <3>1, Zenon DEF Served, Handled
    <3> QED
      BY <3>1, <3>2, ZenonT(30) DEF Handled, Exact
  <2>4. \A k \in Handler : pc'[k] \in {"read", "write", "start", "starting"} => left'[k] = nodes'[k]
    BY <2>1, Zenon DEF HandlerType, Served
  <2> QED
    BY <2>1, <2>2, <2>3, <2>4, Zenon DEF Served
<1>2. ASSUME NEW h \in Handler, HandlerStep(h) PROVE Served'
  <2> DEFINE Kept(k) == /\ pc'[k] \in {"read", "write", "start", "starting"} => left'[k] = nodes'[k]
                        /\ alone'[k] /\ isStarted'[k] => Handled(k)'
  <2>1. \A k \in Handler \ {h} : Kept(k)
    BY <1>2, OthersServed, Zenon
  <2>2. TypeOK
    BY Zenon DEF Structure
  <2>3. Kept(h)
    <3>1. CASE GetNumPEs(h) \/ GetPEname(h) \/ NamesDone(h) \/ EvaluateAndAnswer(h)
      BY <3>1, ServedAnswer, Zenon
    <3> QED
      BY <1>2, <2>2, <3>1, ServedSession, Zenon DEF HandlerStep
  <2>4. \A k \in Handler : Kept(k)
    BY <2>1, <2>3, Zenon
  <2> QED
    BY <2>4, Zenon DEF Served
<1>3. CASE UpdaterStep
  <2>1. UNCHANGED <<pc, nodes, left, isStarted, numNodes, nameList, answer, alone>> /\ StopStep
    BY <1>3, Zenon DEF UpdaterStep, agentVars, locals
  <2>2. PICK h \in Handler : phase # "ready" /\ pc[h] \in {"starting", "stopping"}
    BY <2>1, StopStepEffect, Zenon DEF Exclusive
  <2>3. phase = "place" => ToSet(pes) = observedPEs
    BY Zenon DEF PEsOfSession
  <2>4. \/ /\ phase' # "ready" /\ UNCHANGED <<pending, observedPEs>>
        \/ /\ phase = "place" /\ phase' = "ready" /\ pes' = pes
           /\ pending # NULL => started' /\ observedPEs' = {}
    BY <2>1, StopStepEffect, Zenon
  <2>5. ASSUME NEW k \in Handler, alone[k], isStarted[k] PROVE Handled(k)'
    <3>1. pc[k] \in {"starting", "stopping", "idle", "done"}
      BY <2>2, <2>5, Zenon DEF Exclusive, HandlerType, Active
    <3>2. Handled(k)
      BY <2>5, Zenon DEF Served
    <3>3. CASE pc[k] = "starting"
      BY <2>1, <2>2, <2>4, <3>2, <3>3, Zenon DEF Handled
    <3>4. CASE pc[k] = "stopping"
      BY <2>1, <2>2, <2>3, <2>4, <3>2, <3>4, Zenon DEF Handled
    <3>5. CASE pc[k] \in {"idle", "done"}
      BY <2>1, <3>2, <3>5, Zenon DEF Handled, Exact
    <3> QED
      BY <3>1, <3>3, <3>4, <3>5, Zenon
  <2> QED
    BY <2>1, <2>5, Zenon DEF Served
<1>4. CASE UNCHANGED allVars
  BY <1>4, Zenon DEF allVars, agentVars, locals, vars, cloudVars, sessionVars, stopVars, Served, Handled, Exact
<1> QED
  BY <1>1, <1>2, <1>3, <1>4, Zenon DEF AgentNext

\* A step of a handler leaves genNum and the generations of the updater alone,
\* except where genNum is incremented and where start() is called.
LEMMA GenerationsKept ==
  ASSUME HandlerType, NEW h \in Handler, HandlerStep(h),
         ~ReadGenNum(h), ~WriteGenNum(h), ~StateUpdateStart(h)
  PROVE  /\ UNCHANGED <<genNum, tmp, gen, isStarted>> /\ pending' \in {pending, NULL}
         /\ pc[h] \notin {"read", "write", "start"} /\ pc'[h] \notin {"read", "write", "start"}
<1> USE DEF HandlerType
<1>1. CASE StartReturns(h) \/ StopReturns(h) \/ NamesDone(h)
  BY <1>1, Zenon DEF StartReturns, StopReturns, NamesDone, Goto, locals, vars, sessionVars, stopVars
<1>2. CASE GetNumPEs(h) \/ GetPEname(h)
  BY <1>2, Zenon DEF GetNumPEs, GetPEname, Goto, vars, sessionVars, stopVars
<1>3. ASSUME NEW n \in PEid, StateUpdateNode(h, n)
      PROVE  UNCHANGED <<genNum, tmp, gen, isStarted, pending, pc>> /\ pc[h] = "update"
  BY <1>3, Zenon DEF StateUpdateNode, stateupdater_updatePE, vars, sessionVars, stopVars
<1>4. CASE StateUpdateStop(h)
  BY <1>4, Zenon DEF StateUpdateStop, stateupdater_stop, EnterStop, Goto, locals, vars, sessionVars, stopVars
<1>5. CASE EvaluateAndAnswer(h)
  BY <1>5, Zenon DEF EvaluateAndAnswer, evaluator_eval, Goto, sessionVars, stopVars
<1> QED
  BY <1>1, <1>2, <1>3, <1>4, <1>5, Zenon DEF HandlerStep

\* As long as requests do not overlap, genNum stays ahead of the generation of
\* the updater.
LEMMA SequentialNext ==
  TypeOK /\ GenInv /\ HandlerType /\ Exclusive /\ Sequential /\ [AgentNext]_allVars => Sequential'
<1> SUFFICES ASSUME TypeOK, GenInv, HandlerType, Exclusive, Sequential, [AgentNext]_allVars,
                    ~overlapped'
             PROVE  Sequential'
  BY Zenon DEF Sequential
<1> DEFINE Ahead(h) == /\ pc[h] # "idle" => alone[h]
                       /\ pc[h] = "write" => tmp[h] = genNum
                       /\ pc[h] = "start" => gen < genNum
                       /\ pc[h] \notin {"idle", "read", "write", "start"} => isStarted[h]
           Bound == gen <= genNum /\ (pending # NULL => pending <= genNum)
<1>1. /\ genNum \in Nat /\ genNum \in Generations /\ gen \in Int /\ NULL \notin Generations
      /\ pending # NULL => pending \in Int
      /\ DOMAIN tmp = Handler /\ \A h \in Handler : tmp[h] \in Nat
  <2>1. genNum \in Generations /\ DOMAIN tmp = Handler /\ \A h \in Handler : tmp[h] \in Nat
    BY AgentAssumption, Zenon DEF GenInv
  <2>2. gen \in Generations \cup {-1} /\ pending \in Generations \cup {NULL}
    BY Zenon DEF TypeOK, SessionType
  <2> QED
    BY <2>1, <2>2, ConstantsAssumption, SMTT(30)
<1>2. ASSUME NEW h \in Handler, NEW ns \in SUBSET PEid, Receive(h, ns) PROVE Sequential'
  <2>1. /\ pc' = [pc EXCEPT ![h] = "read"] /\ ~overlapped
        /\ {j \in Handler \ {h} : pc[j] \in Active} = {}
        /\ alone' = [k \in Handler |-> IF k = h THEN {j \in Handler \ {h} : pc[j] \in Active} = {}
                                       ELSE alone[k] /\ pc[k] \notin Active]
        /\ UNCHANGED <<genNum, tmp, isStarted, gen, pending>>
    BY <1>2, Zenon DEF Receive, vars, sessionVars, stopVars
  <2>2. alone'[h] /\ \A k \in Handler \ {h} : alone'[k] = alone[k]
    BY <2>1, ZenonT(30) DEF HandlerType
  <2>3. Bound' /\ \A k \in Handler : Ahead(k)'
    BY <2>1, <2>2, Zenon DEF Sequential, HandlerType
  <2> QED
    BY <2>3, Zenon DEF Sequential
<1>3. ASSUME NEW h \in Handler, HandlerStep(h) PROVE Sequential'
  <2>1. /\ pc[h] \in Active /\ UNCHANGED <<alone, overlapped>>
        /\ \A k \in Handler \ {h} : pc'[k] = pc[k] /\ isStarted'[k] = isStarted[k]
    BY <1>3, HandlerMoves, Zenon
  <2>2. Bound /\ \A k \in Handler : Ahead(k)
    BY <2>1, Zenon DEF Sequential
  <2>3. \A k \in Handler \ {h} : pc[k] \in {"idle", "done"}
    BY <2>1, <2>2, Zenon DEF Exclusive, HandlerType, Active
  <2>4. \A k \in Handler \ {h} : Ahead(k)'
    BY <2>1, <2>2, <2>3, Zenon
  <2>5. Bound' /\ Ahead(h)'
    <3>1. CASE ReadGenNum(h)
      BY <1>1, <2>1, <2>2, <3>1, Zenon DEF ReadGenNum, Goto, HandlerType, vars, sessionVars, stopVars
    <3>2. CASE WriteGenNum(h)
      <4>1. /\ pc[h] = "write" /\ pc'[h] = "start" /\ genNum' = tmp[h] + 1
            /\ UNCHANGED <<gen, pending, isStarted>>
        BY <3>2, Zenon DEF WriteGenNum, Goto, HandlerType, vars, sessionVars, stopVars
      <4> QED
        BY <1>1, <2>1, <2>2, <4>1, SMTT(30)
    <3>3. CASE StateUpdateStart(h)
      <4>1. /\ pc[h] = "start" /\ pc'[h] = "starting" /\ genNum' = genNum
            /\ isStarted'[h] = (genNum > gen) /\ stateupdater_start(genNum)
        BY <3>3, Zenon DEF StateUpdateStart, Goto, HandlerType
      <4>2. IF genNum <= gen
            THEN phase' = "ready" /\ UNCHANGED <<gen, pending>>
            ELSE \/ phase' = "ready" /\ gen' = genNum /\ pending' = pending /\ started' /\ observedPEs' = {}
                 \/ phase' # "ready" /\ gen' = gen /\ pending' = genNum
        BY <1>1, <4>1, StartEffect, Zenon
      <4>3. gen < genNum /\ ~(genNum <= gen) /\ (genNum > gen)
        BY <1>1, <2>2, <4>1, SMTT(30)
      <4>4. isStarted'[h]
        BY <4>1, <4>3, ZenonT(30)
      <4>5. Bound'
        BY <1>1, <2>2, <4>1, <4>2, <4>3, SMTT(30)
      <4> QED
        BY <2>1, <2>2, <4>1, <4>4, <4>5, Zenon DEF Active
    <3>4. CASE ~ReadGenNum(h) /\ ~WriteGenNum(h) /\ ~StateUpdateStart(h)
      <4>1. /\ UNCHANGED <<genNum, tmp, gen, isStarted>> /\ pending' \in {pending, NULL}
            /\ pc[h] \notin {"read", "write", "start"} /\ pc'[h] \notin {"read", "write", "start"}
        BY <1>3, <3>4, GenerationsKept, Zenon
      <4> QED
        BY <2>1, <2>2, <4>1, Zenon DEF Active
    <3> QED
      BY <3>1, <3>2, <3>3, <3>4, Zenon
  <2>6. \A k \in Handler : Ahead(k)'
    BY <2>4, <2>5, Zenon
  <2> QED
    BY <2>5, <2>6, Zenon DEF Sequential
<1>4. CASE UpdaterStep
  <2>1. UNCHANGED <<genNum, pc, tmp, isStarted, alone, overlapped>> /\ StopStep
    BY <1>4, Zenon DEF UpdaterStep, agentVars, locals
  <2>2. Bound /\ \A k \in Handler : Ahead(k)
    BY <2>1, Zenon DEF Sequential
  <2>3. PICK h \in Handler : pc[h] \in {"starting", "stopping"}
    BY <2>1, StopStepEffect, Zenon DEF Exclusive
  <2>4. \A k \in Handler : pc[k] # "start"
    BY <2>2, <2>3, Zenon DEF Exclusive, Active
  <2>5. /\ gen' = gen \/ (pending # NULL /\ gen' = pending)
        /\ pending' \in {pending, NULL}
    BY <2>1, StopStepEffect, Zenon
  <2>6. Bound' /\ \A k \in Handler : Ahead(k)'
    BY <2>1, <2>2, <2>4, <2>5, Zenon
  <2> QED
    BY <2>6, Zenon DEF Sequential
<1>5. CASE UNCHANGED allVars
  BY <1>5, Zenon DEF allVars, agentVars, locals, vars, sessionVars, stopVars, Sequential
<1> QED
  BY <1>2, <1>3, <1>4, <1>5, Zenon DEF AgentNext

\* Every step of the agent keeps its invariant.
LEMMA AgentInvNext ==
  Structure /\ SInv /\ GenInv /\ AgentInv /\ [AgentNext]_allVars => AgentInv'
<1> SUFFICES ASSUME Structure, SInv, GenInv, AgentInv, [AgentNext]_allVars PROVE AgentInv'
  BY Zenon
<1>1. TypeOK /\ PEsOfSession /\ HandlerType /\ Exclusive /\ Served /\ Sequential
  BY Zenon DEF Structure, SInv, AgentInv
<1>2. HandlerType'
  BY <1>1, HandlerTypeNext, Zenon DEF Structure
<1> QED
  BY <1>1, <1>2, ExclusiveNext, ServedNext, SequentialNext, Zenon DEF AgentInv

\* The invariant of the agent holds for any nodes and any number of handlers.
THEOREM AgentInvariant == AgentSpec => []AgentInv
  BY AgentInvInit, AgentInvNext, GenInvInit, GenInvNext, AgentImplementsUpdater,
     StructureInvariant, SessionInvariant, PTL DEF AgentSpec

\* A request that is handled alone and whose start() returns true is answered
\* exactly, whatever the requests before it have done to genNum, to the open
\* session and to the model: updateState() of agent.go repairs all of it.
THEOREM SelfHealingCorrect == AgentSpec => []SelfHealing
<1>1. AgentInv => SelfHealing
  BY Zenon DEF AgentInv, Served, Handled, SelfHealing
<1> QED
  BY <1>1, AgentInvariant, PTL

\* As long as requests have not overlapped, every one of them is answered
\* exactly: start() never returns false, and the values that GetPodRanks reads
\* are those of the nodes whose names it has read.
THEOREM ResponseExactCorrect == AgentSpec => []ResponseExact
<1>1. AgentInv => ResponseExact
  BY Zenon DEF AgentInv, Sequential, Served, Handled, ResponseExact
<1> QED
  BY <1>1, AgentInvariant, PTL
=============================================================================
