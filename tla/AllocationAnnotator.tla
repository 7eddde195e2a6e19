------------------------ MODULE AllocationAnnotator -------------------------
(***************************************************************************)
(* The allocation annotator (node-annotator/allocation/k8s-assessor.py)    *)
(* over a changing cluster: every round it lists the nodes, lists the      *)
(* pods, and annotates the nodes one by one with what their running pods   *)
(* request and what is left free.  The pigeon agent takes the usage of a   *)
(* node from these annotations (pigeon/adapter.go).                        *)
(***************************************************************************)
EXTENDS Sums

CONSTANTS
  Node, Pod, NULL,
  Capacity,         \* allocatable amount of the resource on a node
  Request,          \* what each pod requests, a function on Pod
  MaxFaults,        \* bound: requests to the API server that fail
  MaxNodeChanges    \* bound: nodes that join, leave or change readiness

ASSUME AllocationAssumption ==
  Capacity \in Nat /\ Request \in [Pod -> Nat] /\ {MaxFaults, MaxNodeChanges} \subseteq Nat

VARIABLES
  nodeState,    \* "absent", "notready" or "ready"
  annotation,   \* [free, requested] of each node, or NULL
  host, podPhase,                \* where each pod is bound, and its phase
  pc,           \* the annotator's next step: "nodes", "pods" or "annotate"
  nodeCap,      \* the nodes it goes through
  nodeAlloc,    \* what it found to be requested on each node
  faults, nodeChanges,           \* counters for the bounds
  past          \* history: what has been requested on each node so far

clusterVars == <<nodeState, host, podPhase, nodeChanges, past>>
annotatorVars == <<pc, nodeCap, nodeAlloc>>
vars == <<clusterVars, annotatorVars, annotation, faults>>

NodeStates == {"absent", "notready", "ready"}
Present == {n \in Node : nodeState[n] # "absent"}

TotalRequest(pods) == Total(Request, pods)

\* What the running pods of node n request.
Requested(n) == TotalRequest({p \in Pod : host[p] = n /\ podPhase[p] = "Running"})

Init ==
  /\ nodeState = [n \in Node |-> "ready"]
  /\ annotation = [n \in Node |-> NULL]
  /\ host = [p \in Pod |-> NULL] /\ podPhase = [p \in Pod |-> "Pending"]
  /\ pc = "nodes" /\ nodeCap = {} /\ nodeAlloc = [n \in Node |-> 0]
  /\ faults = 0 /\ nodeChanges = 0
  /\ past = [n \in Node |-> {Requested(n)}]

-----------------------------------------------------------------------------
(***************************************************************************)
(* The cluster.                                                            *)
(***************************************************************************)

\* What the nodes have had requested, after a step of the cluster.
RecordRequested == past' = [n \in Node |-> past[n] \cup {Requested(n)'}]

Bind(p, n) ==
  /\ host[p] = NULL /\ nodeState[n] = "ready"
  /\ host' = [host EXCEPT ![p] = n]
  /\ UNCHANGED <<nodeState, podPhase, nodeChanges, annotatorVars, annotation, faults>>
  /\ RecordRequested

Run(p) ==
  /\ host[p] # NULL /\ podPhase[p] = "Pending"
  /\ podPhase' = [podPhase EXCEPT ![p] = "Running"]
  /\ UNCHANGED <<nodeState, host, nodeChanges, annotatorVars, annotation, faults>>
  /\ RecordRequested

Finish(p) ==
  /\ podPhase[p] = "Running"
  /\ podPhase' = [podPhase EXCEPT ![p] = "Succeeded"]
  /\ UNCHANGED <<nodeState, host, nodeChanges, annotatorVars, annotation, faults>>
  /\ RecordRequested

\* A node joins, leaves with its annotations and its pods, or changes readiness.
ChangeNode(n, s) ==
  /\ nodeChanges < MaxNodeChanges /\ s # nodeState[n]
  /\ nodeChanges' = nodeChanges + 1
  /\ nodeState' = [nodeState EXCEPT ![n] = s]
  /\ annotation' = [annotation EXCEPT ![n] = IF s = "absent" THEN NULL ELSE @]
  /\ podPhase' = [p \in Pod |-> IF s = "absent" /\ host[p] = n THEN "Succeeded" ELSE podPhase[p]]
  /\ UNCHANGED <<host, annotatorVars, faults>>
  /\ RecordRequested

Cluster ==
  \/ \E p \in Pod : Run(p) \/ Finish(p) \/ \E n \in Node : Bind(p, n)
  \/ \E n \in Node, s \in NodeStates : ChangeNode(n, s)

-----------------------------------------------------------------------------
(***************************************************************************)
(* The annotator.                                                          *)
(***************************************************************************)

Fault == faults < MaxFaults /\ faults' = faults + 1
NoFault == UNCHANGED faults

\* The ready nodes; a failed request gives none.
get_node_capacity ==
  /\ pc = "nodes"
  /\ \/ NoFault /\ nodeCap' = {n \in Node : nodeState[n] = "ready"}
     \/ Fault /\ nodeCap' = {}
  /\ pc' = "pods"
  /\ UNCHANGED <<clusterVars, nodeAlloc, annotation>>

\* Faulty form: the pods that are bound but not yet running count as well.
get_node_allocation_Bound ==
  /\ pc = "pods"
  /\ NoFault
  /\ nodeAlloc' = [n \in Node |-> TotalRequest({p \in Pod : host[p] = n})]
  /\ pc' = "annotate"
  /\ UNCHANGED <<clusterVars, nodeCap, annotation>>

\* One list of all pods; a failed request is not caught and ends the process,
\* which its deployment starts again.
get_node_allocation ==
  /\ pc = "pods"
  /\ \/ NoFault /\ nodeAlloc' = [n \in Node |-> Requested(n)]
        /\ pc' = "annotate" /\ UNCHANGED nodeCap
     \/ Fault /\ nodeCap' = {} /\ pc' = "nodes" /\ UNCHANGED nodeAlloc
  /\ UNCHANGED <<clusterVars, annotation>>

\* Faulty form: a failed patch is tried again until it succeeds.
annotate_node_Retries(n) ==
  /\ pc = "annotate" /\ n \in nodeCap
  /\ IF n \in Present
     THEN /\ annotation' = [annotation EXCEPT ![n] =
               [free |-> Max({Capacity - nodeAlloc[n], 0}), requested |-> nodeAlloc[n]]]
          /\ nodeCap' = nodeCap \ {n}
     ELSE UNCHANGED <<annotation, nodeCap>>
  /\ UNCHANGED <<clusterVars, pc, nodeAlloc, faults>>

\* One pass of the loop of annotate_nodes(): a failed patch, as of a node that
\* has left, ends the loop.
annotate_node(n) ==
  /\ pc = "annotate" /\ n \in nodeCap
  /\ \/ /\ n \in Present
        /\ NoFault
        /\ annotation' = [annotation EXCEPT ![n] =
             [free |-> Max({Capacity - nodeAlloc[n], 0}), requested |-> nodeAlloc[n]]]
        /\ nodeCap' = nodeCap \ {n}
     \/ /\ IF n \in Present THEN Fault ELSE NoFault
        /\ nodeCap' = {}
        /\ UNCHANGED annotation
  /\ UNCHANGED <<clusterVars, pc, nodeAlloc>>

\* The loop has ended: sleep, then the next round.
NextRound ==
  /\ pc = "annotate" /\ nodeCap = {}
  /\ pc' = "nodes"
  /\ UNCHANGED <<clusterVars, nodeCap, nodeAlloc, annotation, faults>>

Annotator ==
  get_node_capacity \/ get_node_allocation \/ (\E n \in Node : annotate_node(n)) \/ NextRound

Next == Cluster \/ Annotator

Spec == Init /\ [][Next]_vars

\* The annotator's loop goes on; no request to the API server hangs.
FairSpec == Spec /\ WF_vars(Annotator)

-----------------------------------------------------------------------------
(***************************************************************************)
(* Properties.                                                             *)
(***************************************************************************)

\* "The amount of resources allocated on a node is the aggregation of requested
\* resources of all containers within all pods running on the node"
\* (pigeon/README.md): stale as it may be, a node's annotation is what was
\* requested on it at one moment, never a mixture of several.
AnnotationOnceTrue ==
  \A n \in Node : annotation[n] # NULL =>
    /\ annotation[n].requested \in past[n]
    /\ annotation[n].free = Max({Capacity - annotation[n].requested, 0})

\* Once pods and nodes stay as they are, every ready node is in the end
\* annotated with what is requested on it, whatever failed before.
AnnotationsCatchUp ==
  <>[](\A n \in Node : nodeState[n] = "ready" =>
         annotation[n] # NULL /\ annotation[n].requested = Requested(n))
=============================================================================
