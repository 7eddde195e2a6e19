-------------------------- MODULE AnnotatorProofs ---------------------------
(***************************************************************************)
(* The annotations of the allocation annotator, for every number of nodes  *)
(* and pods, every demand, and any number of failed requests and of nodes  *)
(* that come and go.                                                       *)
(***************************************************************************)
EXTENDS AllocationAnnotator, TLAPS

\* What the annotator holds between the list of the pods and the patch of a node
\* is also something once requested on the node, although pods have started and
\* finished since: AnnotationOnceTrue alone does not survive annotate_node.
AnnotatorInv ==
  /\ DOMAIN annotation = Node /\ DOMAIN past = Node /\ DOMAIN nodeAlloc = Node
  /\ \A n \in Node : Requested(n) \in past[n] /\ (pc = "annotate" => nodeAlloc[n] \in past[n])
  /\ AnnotationOnceTrue

\* Steps of the annotator leave what is requested on a node as it is.
LEMMA RequestedUnchanged ==
  ASSUME UNCHANGED <<host, podPhase>>, NEW n \in Node
  PROVE  Requested(n)' = Requested(n)
BY DEF Requested

\* A step of the cluster only adds to what has been requested on the nodes.
LEMMA ClusterKeepsInv ==
  ASSUME AnnotatorInv, RecordRequested, UNCHANGED <<pc, nodeAlloc>>, DOMAIN annotation' = Node,
         \A n \in Node : annotation'[n] \in {NULL, annotation[n]}
  PROVE  AnnotatorInv'
<1>1. DOMAIN past' = Node /\ \A n \in Node : past[n] \subseteq past'[n] /\ Requested(n)' \in past'[n]
  BY DEF RecordRequested
<1>2. DOMAIN nodeAlloc' = Node /\ \A n \in Node : pc' = "annotate" => nodeAlloc'[n] \in past'[n]
  BY <1>1 DEF AnnotatorInv
<1>3. AnnotationOnceTrue'
  BY <1>1 DEF AnnotatorInv, AnnotationOnceTrue
<1> QED BY <1>1, <1>2, <1>3 DEF AnnotatorInv

\* A step of the cluster keeps the invariant.
LEMMA ClusterStep ==
  ASSUME AnnotatorInv, Cluster
  PROVE  AnnotatorInv'
<1>1. ASSUME NEW p \in Pod, Run(p) \/ Finish(p) \/ \E n \in Node : Bind(p, n)
      PROVE  AnnotatorInv'
  <2>1. RecordRequested /\ UNCHANGED <<pc, nodeAlloc, annotation>>
    BY <1>1 DEF Run, Finish, Bind, annotatorVars
  <2> QED BY <2>1, ClusterKeepsInv DEF AnnotatorInv
<1>2. ASSUME NEW m \in Node, NEW s \in NodeStates, ChangeNode(m, s)
      PROVE  AnnotatorInv'
  <2>1. RecordRequested /\ UNCHANGED <<pc, nodeAlloc>>
    BY <1>2 DEF ChangeNode, annotatorVars
  <2>2. DOMAIN annotation' = Node /\ \A n \in Node : annotation'[n] \in {NULL, annotation[n]}
    BY <1>2 DEF ChangeNode, AnnotatorInv
  <2> QED BY <2>1, <2>2, ClusterKeepsInv
<1> QED BY <1>1, <1>2 DEF Cluster

\* So does a request of the annotator to the API server.
LEMMA AnnotatorStep ==
  ASSUME AnnotatorInv, Annotator
  PROVE  AnnotatorInv'
<1>1. UNCHANGED <<host, podPhase, past>>
  BY Zenon DEF Annotator, get_node_capacity, get_node_allocation, annotate_node, NextRound, clusterVars
<1>2. DOMAIN past' = Node /\ \A n \in Node : Requested(n)' \in past'[n]
  BY <1>1, RequestedUnchanged DEF AnnotatorInv
<1>3. CASE UNCHANGED <<annotation, nodeAlloc>> /\ pc' \in {pc, "nodes", "pods"}
  BY <1>1, <1>2, <1>3 DEF AnnotatorInv, AnnotationOnceTrue
<1>4. CASE UNCHANGED annotation /\ nodeAlloc' = [n \in Node |-> Requested(n)]
  BY <1>1, <1>2, <1>4 DEF AnnotatorInv, AnnotationOnceTrue
<1>5. ASSUME NEW m \in Node, pc = "annotate", UNCHANGED <<pc, nodeAlloc>>,
             annotation' = [annotation EXCEPT ![m] =
               [free |-> Max({Capacity - nodeAlloc[m], 0}), requested |-> nodeAlloc[m]]]
      PROVE  AnnotatorInv'
  <2>1. AnnotationOnceTrue'
    BY <1>1, <1>5, Zenon DEF AnnotatorInv, AnnotationOnceTrue
  <2> QED BY <1>1, <1>2, <1>5, <2>1 DEF AnnotatorInv
<1>6. CASE get_node_capacity \/ NextRound
  BY <1>3, <1>6 DEF get_node_capacity, NextRound
<1>7. CASE get_node_allocation
  BY <1>3, <1>4, <1>7 DEF get_node_allocation
<1>8. CASE \E n \in Node : annotate_node(n)
  BY <1>3, <1>5, <1>8 DEF annotate_node
<1> QED BY <1>6, <1>7, <1>8 DEF Annotator

\* AnnotatorInv is inductive.
THEOREM AnnotatorInvariant == Spec => []AnnotatorInv
<1>1. Init => AnnotatorInv
  <2> SUFFICES ASSUME Init PROVE AnnotatorInv
    OBVIOUS
  <2> QED BY DEF Init, AnnotatorInv, AnnotationOnceTrue
<1>2. AnnotatorInv /\ [Next]_vars => AnnotatorInv'
  <2> SUFFICES ASSUME AnnotatorInv, [Next]_vars PROVE AnnotatorInv'
    OBVIOUS
  <2>1. CASE UNCHANGED vars
    <3>1. UNCHANGED <<host, podPhase, past, pc, nodeAlloc, annotation>>
      BY <2>1 DEF vars, clusterVars, annotatorVars
    <3> QED BY <3>1, RequestedUnchanged DEF AnnotatorInv, AnnotationOnceTrue
  <2> QED BY <2>1, ClusterStep, AnnotatorStep DEF Next
<1> QED BY <1>1, <1>2, PTL DEF Spec

\* The annotation of a node is what was requested on it at one moment, never a
\* mixture of several: annotate_nodes() patches with one list of the pods.
THEOREM AnnotationOnceTrueHolds == Spec => []AnnotationOnceTrue
<1>1. AnnotatorInv => AnnotationOnceTrue
  BY DEF AnnotatorInv
<1> QED BY <1>1, AnnotatorInvariant, PTL
=============================================================================
