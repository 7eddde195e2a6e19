---------------------------- MODULE MCAnnotators ----------------------------
(***************************************************************************)
(* Small instances of the two node annotators for TLC.  They are processes *)
(* of their own that write different annotations, so a behaviour is one of *)
(* the annotator chosen in its initial state.  For the allocation, the     *)
(* requests of the pods are distinct powers of two, so that every set of   *)
(* pods has its own sum, and together exceed the capacity.                 *)
(***************************************************************************)
EXTENDS AllocationAnnotator, TLC

CONSTANTS n1, n2, n3, p1, p2    \* model values

VARIABLES
  part,
  noSeries, index, up, fresh, usageFaults    \* UsageAnnotator

Requests == p1 :> 2 @@ p2 :> 4

Usage == INSTANCE UsageAnnotator WITH Nodes <- <<n1, n2, n3>>, MaxFaults <- 3, faults <- usageFaults

usage == <<noSeries, index, up, fresh, usageFaults>>

MCInit ==
  \/ /\ part = "allocation" /\ Init
     /\ noSeries = {n1, n2, n3} /\ index = 0 /\ up = FALSE /\ fresh = {} /\ usageFaults = 0
  \/ /\ part = "usage" /\ Usage!Init
     /\ nodeState = [n \in Node |-> "absent"] /\ annotation = [n \in Node |-> NULL]
     /\ host = <<>> /\ podPhase = <<>> /\ pc = "nodes" /\ nodeCap = {} /\ nodeAlloc = <<>>
     /\ faults = 0 /\ nodeChanges = 0 /\ past = <<>>

MCNext ==
  \/ part = "allocation" /\ Next /\ UNCHANGED <<part, usage>>
  \/ part = "usage" /\ Usage!Next /\ UNCHANGED <<part, vars>>

MCSpec ==
  /\ MCInit /\ [][MCNext]_<<part, vars, usage>>
  /\ WF_<<part, vars, usage>>(part = "allocation" /\ Annotator /\ UNCHANGED <<part, usage>>)
  /\ WF_<<part, vars, usage>>(part = "usage" /\ Usage!Loop /\ UNCHANGED <<part, vars>>)

-----------------------------------------------------------------------------
\* k8s_analytics.py: every node before the first without data is annotated again
\* and again, in spite of failed requests and restarts.
NodesAnnotated == Usage!NodesAnnotated
=============================================================================
