---------------------------- MODULE PigeonAgent -----------------------------
(***************************************************************************)
(* The pigeon priority function (pigeon/priority.go, agent.go, client.go)  *)
(* on top of the state updater of libpigeon.  Every prioritize request     *)
(* runs in a goroutine of its own (net/http) and drives one session of the *)
(* single updater: start, one updatePE per node of the request, stop; then *)
(* it reads the names of the nodes of the model, evaluates the pod on each *)
(* of them, and answers with one priority per name.  Nothing serialises    *)
(* the requests: the handlers share genNum, the updater and the model.     *)
(*                                                                         *)
(* Steps of two handlers interleave between calls into C, never inside     *)
(* one (the loops of stop() are steps, but no other call runs meanwhile).  *)
(* genNum++ is a read and a write, with any delay between them, and        *)
(* start() reads genNum once more.  The agent observes no pods, so LEid is *)
(* irrelevant here.  The objective value of a node is represented by the   *)
(* node it was computed for.                                               *)
(***************************************************************************)
EXTENDS StateUpdater

CONSTANTS
  Handler,      \* the request handlers
  MaxRequests,  \* bound on the requests of a behaviour
  MaxGen,       \* bound on genNum, never reached before MaxRequests is
  NoName,       \* the empty string: the name read for an index out of range
  Garbage       \* the value read beyond the end of the array of values

ASSUME AgentAssumption ==
  /\ MaxGen \in Nat /\ 0..MaxGen \subseteq Generations
  /\ NoName \notin PEid /\ Garbage \notin PEid

VARIABLES
  genNum,       \* Client.genNum
  requests,     \* the number of requests so far
  pc,           \* control point of each handler
  tmp,          \* genNum as the handler has read it, for genNum++
  nodes,        \* the nodes of the request
  left,         \* those not yet passed to StateUpdateNode
  isStarted,    \* what StateUpdateStart returned
  numNodes, nameList,   \* locals of GetPodRanks
  answer,       \* the priorities sent: name -> node whose value was used
  alone,        \* history: no other request was handled during this one
  overlapped    \* history: two requests have been handled at the same time

locals    == <<tmp, nodes, left, isStarted, numNodes, nameList, answer, alone, overlapped>>
agentVars == <<genNum, requests, pc, locals>>
allVars   == <<vars, agentVars>>

\* The control points at which the handler has not answered yet.
Active == {"read", "write", "start", "starting", "update", "stopping", "count", "names", "eval"}

AgentInit ==
  /\ Init
  /\ genNum = 0 /\ requests = 0
  /\ pc = [h \in Handler |-> "idle"]
  /\ tmp = [h \in Handler |-> 0]
  /\ nodes = [h \in Handler |-> {}]
  /\ left = [h \in Handler |-> {}]
  /\ isStarted = [h \in Handler |-> FALSE]
  /\ numNodes = [h \in Handler |-> 0]
  /\ nameList = [h \in Handler |-> <<>>]
  /\ answer = [h \in Handler |-> <<>>]
  /\ alone = [h \in Handler |-> FALSE]
  /\ overlapped = FALSE

Goto(h, from, to) == pc[h] = from /\ pc' = [pc EXCEPT ![h] = to]

\* A prioritize request for the nodes ns reaches the server.
Receive(h, ns) ==
  LET others == {k \in Handler \ {h} : pc[k] \in Active}
  IN  /\ pc[h] \in {"idle", "done"}
      /\ requests < MaxRequests
      /\ requests' = requests + 1
      /\ pc' = [pc EXCEPT ![h] = "read"]
      /\ nodes' = [nodes EXCEPT ![h] = ns]
      /\ left' = [left EXCEPT ![h] = ns]
      /\ answer' = [answer EXCEPT ![h] = <<>>]
      /\ alone' = [k \in Handler |-> IF k = h THEN others = {}
                                     ELSE alone[k] /\ pc[k] \notin Active]
      /\ overlapped' = (overlapped \/ others # {})
      /\ UNCHANGED <<vars, genNum, tmp, isStarted, numNodes, nameList>>

\* StateUpdateStart: client.genNum++ ...
ReadGenNum(h) ==
  /\ Goto(h, "read", "write")
  /\ tmp' = [tmp EXCEPT ![h] = genNum]
  /\ UNCHANGED <<vars, genNum, requests, nodes, left, isStarted, numNodes, nameList, answer, alone, overlapped>>

WriteGenNum(h) ==
  /\ Goto(h, "write", "start")
  /\ tmp[h] < MaxGen
  /\ genNum' = tmp[h] + 1
  /\ tmp' = [tmp EXCEPT ![h] = 0]
  /\ UNCHANGED <<vars, requests, nodes, left, isStarted, numNodes, nameList, answer, alone, overlapped>>

\* ... and C.stateupdater_start(client.updater, client.genNum).
StateUpdateStart(h) ==
  /\ Goto(h, "start", "starting")
  /\ isStarted' = [isStarted EXCEPT ![h] = genNum > gen]
  /\ stateupdater_start(genNum)
  /\ UNCHANGED <<genNum, requests, tmp, nodes, left, numNodes, nameList, answer, alone, overlapped>>

\* Faulty form: a handler to which start() returned false waits for another
\* session instead of giving up.
StartReturns_Waits(h) ==
  /\ phase = "ready"
  /\ isStarted[h]
  /\ Goto(h, "starting", "update")
  /\ UNCHANGED <<vars, genNum, requests, locals>>

\* start() returns; UpdateState gives up at once when it returned false.
StartReturns(h) ==
  /\ phase = "ready"
  /\ Goto(h, "starting", IF isStarted[h] THEN "update" ELSE "count")
  /\ UNCHANGED <<vars, genNum, requests, locals>>

\* One round of the loop of UpdateState.  updatePE ignores the call when no
\* session is open.
StateUpdateNode(h, n) ==
  /\ pc[h] = "update"
  /\ phase = "ready"
  /\ n \in left[h]
  /\ left' = [left EXCEPT ![h] = @ \ {n}]
  /\ IF started
     THEN \E c \in Capacities, o \in Overflows, u \in Usages : stateupdater_updatePE(n, c, o, u)
     ELSE UNCHANGED vars
  /\ UNCHANGED <<genNum, requests, pc, tmp, nodes, isStarted, numNodes, nameList, answer, alone, overlapped>>

\* Faulty form: the session is left open for the next start() to close.
StateUpdateStop_LeftOpen(h) ==
  /\ phase = "ready"
  /\ left[h] = {}
  /\ Goto(h, "update", "stopping")
  /\ UNCHANGED <<vars, genNum, requests, locals>>

\* stop() ignores the call when no session is open.
StateUpdateStop(h) ==
  /\ phase = "ready"
  /\ left[h] = {}
  /\ Goto(h, "update", "stopping")
  /\ IF started THEN stateupdater_stop ELSE UNCHANGED vars
  /\ UNCHANGED <<genNum, requests, locals>>

StopReturns(h) ==
  /\ phase = "ready"
  /\ Goto(h, "stopping", "count")
  /\ UNCHANGED <<vars, genNum, requests, locals>>

\* GetPodRanks: the number of nodes, then the name of each, ...
GetNumPEs(h) ==
  /\ phase = "ready"
  /\ Goto(h, "count", "names")
  /\ numNodes' = [numNodes EXCEPT ![h] = Len(pes)]
  /\ nameList' = [nameList EXCEPT ![h] = <<>>]
  /\ UNCHANGED <<vars, genNum, requests, tmp, nodes, left, isStarted, answer, alone, overlapped>>

GetPEname(h) ==
  LET i == Len(nameList[h]) + 1
  IN  /\ phase = "ready"
      /\ pc[h] = "names"
      /\ i <= numNodes[h]
      /\ nameList' = [nameList EXCEPT ![h] = Append(@, IF i <= Len(pes) THEN pes[i] ELSE NoName)]
      /\ UNCHANGED <<vars, genNum, requests, pc, tmp, nodes, left, isStarted, numNodes, answer, alone, overlapped>>

NamesDone(h) ==
  /\ Len(nameList[h]) = numNodes[h]
  /\ Goto(h, "names", "eval")
  /\ UNCHANGED <<vars, genNum, requests, locals>>

\* ... and the value of each, by position in the model as it is by then: the
\* rank map has one entry per name, the last one read under that name.
ranks(names) ==
  LET last(k) == CHOOSE i \in DOMAIN names : names[i] = k /\ \A j \in DOMAIN names : names[j] = k => j <= i
      value(i) == IF i <= Len(pes) THEN pes[i] ELSE Garbage
  IN  [k \in ToSet(names) |-> value(last(k))]

\* PriorityFunc makes one entry per node of the request and fills them from
\* the rank map: it panics when the map has more entries, and leaves blank
\* entries when it has fewer.
Answers(h, r) ==
  IF Cardinality(DOMAIN r) > Cardinality(nodes[h]) THEN [panic |-> TRUE, blank |-> 0, ranks |-> <<>>]
  ELSE [panic |-> FALSE, blank |-> Cardinality(nodes[h]) - Cardinality(DOMAIN r), ranks |-> r]

\* The locals of the handler end with it.
EvaluateAndAnswer(h) ==
  /\ Goto(h, "eval", "done")
  /\ \E d \in Demands : evaluator_eval(d)
  /\ answer' = [answer EXCEPT ![h] = Answers(h, ranks(nameList[h]))]
  /\ left' = [left EXCEPT ![h] = {}]
  /\ numNodes' = [numNodes EXCEPT ![h] = 0] /\ nameList' = [nameList EXCEPT ![h] = <<>>]
  /\ UNCHANGED <<genNum, requests, tmp, nodes, isStarted, alone, overlapped>>

HandlerStep(h) ==
  \/ ReadGenNum(h) \/ WriteGenNum(h)
  \/ StateUpdateStart(h) \/ StartReturns(h)
  \/ \E n \in PEid : StateUpdateNode(h, n)
  \/ StateUpdateStop(h) \/ StopReturns(h)
  \/ GetNumPEs(h) \/ GetPEname(h) \/ NamesDone(h)
  \/ EvaluateAndAnswer(h)

UpdaterStep == StopStep /\ UNCHANGED agentVars

AgentNext ==
  \/ \E h \in Handler, ns \in SUBSET PEid : Receive(h, ns)
  \/ \E h \in Handler : HandlerStep(h)
  \/ UpdaterStep

AgentSpec == AgentInit /\ [][AgentNext]_allVars

\* Goroutines are scheduled fairly and no call into C blocks.
FairAgentSpec ==
  AgentSpec /\ WF_allVars(UpdaterStep) /\ \A h \in Handler : WF_allVars(HandlerStep(h))

-----------------------------------------------------------------------------
(***************************************************************************)
(* Properties.                                                             *)
(***************************************************************************)

\* The answer of a handler is right: one entry per node of the request, each
\* with the value computed for that node, and no other entry.
Exact(h) == answer[h] = [panic |-> FALSE, blank |-> 0, ranks |-> [n \in nodes[h] |-> n]]

\* As long as requests have not overlapped, every answer is exact: the session
\* of the request has made the model equal to its nodes, whatever nodes the
\* earlier requests had, and names and values are read from that model.
ResponseExact == ~overlapped => \A h \in Handler : pc[h] = "done" => Exact(h)

\* However earlier requests have overlapped, and whatever session they left
\* open, abandoned or half applied: a request that is handled alone, and whose
\* start() returns true, gets an exact answer.
SelfHealing == \A h \in Handler : pc[h] = "done" /\ alone[h] /\ isStarted[h] => Exact(h)

\* Every request is answered.
Answered == \A h \in Handler : pc[h] = "read" ~> pc[h] = "done"

\* stateupdater.h, of start(): "returns false in case update is not necessary;
\* true otherwise": when start() returns false to a handler, the nodes of the
\* model are the nodes of its request.
FalseMeansUpToDate ==
  \A h \in Handler : pc[h] = "starting" /\ ~isStarted[h] => ToSet(pes) = nodes[h]
=============================================================================
