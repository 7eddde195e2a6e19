--------------------------- MODULE UsageAnnotator ---------------------------
(***************************************************************************)
(* The usage annotator (node-annotator/usage/k8s_analytics.py, with        *)
(* prom_query.py): every round it lists the nodes and, in the order of the *)
(* list, queries Prometheus for each node and patches its annotations,     *)
(* from which the safe agent computes risk.  An exception that is not      *)
(* caught ends the process; its deployment starts it again.                *)
(***************************************************************************)
EXTENDS Integers, Sequences, SequencesExt

CONSTANTS
  Nodes,         \* the nodes, a sequence in the order of list_node()
  MaxFaults      \* bound: requests that fail

VARIABLES
  noSeries,  \* the nodes for which Prometheus has no memory series
  index,     \* the node of the round that is next, 0 before list_node()
  up,        \* whether the process runs
  fresh,     \* the nodes annotated since their annotations last grew old
  faults     \* counter for the bound

vars == <<noSeries, index, up, fresh, faults>>

Fault == faults < MaxFaults /\ faults' = faults + 1

Init ==
  /\ noSeries \in SUBSET ToSet(Nodes)
  /\ index = 0 /\ up = TRUE /\ fresh = {} /\ faults = 0

\* Faulty form: the round leaves out the first node.
ListNodes_SkipsFirst ==
  /\ up /\ index = 0
  /\ index' = 2
  /\ UNCHANGED <<up, fresh, faults>>

\* main(): a failed list_node() ends main(), and with it the process.
ListNodes ==
  /\ up /\ index = 0
  /\ \/ index' = 1 /\ UNCHANGED <<up, faults>>
     \/ Fault /\ up' = FALSE /\ UNCHANGED index
  /\ UNCHANGED fresh

Die == up' = FALSE /\ index' = 0 /\ UNCHANGED fresh

Advance == index' = index + 1 /\ UNCHANGED up

\* annotate_node(), after requested_memory().  fetch_data_range() returns the
\* four values the caller unpacks, but three when there are no entries and
\* none when the request fails: both raise an exception, as does float() of
\* the missing result of a scalar query.  A failed patch is only printed.
annotate_node(n) ==
  \/ n \notin noSeries /\ Advance /\ fresh' = fresh \cup {n} /\ UNCHANGED faults
  \/ n \notin noSeries /\ Fault /\ Advance /\ UNCHANGED fresh
  \/ n \notin noSeries /\ Fault /\ Die
  \/ n \in noSeries /\ Die /\ UNCHANGED faults

Annotate ==
  /\ up /\ index \in DOMAIN Nodes
  /\ annotate_node(Nodes[index])

\* sleep(freq), and the next round.
NextRound ==
  /\ up /\ index > Len(Nodes)
  /\ index' = 0
  /\ UNCHANGED <<up, fresh, faults>>

\* The deployment restarts the process.
Restart ==
  /\ ~up
  /\ up' = TRUE
  /\ UNCHANGED <<index, fresh, faults>>

Annotator == ListNodes \/ Annotate \/ NextRound \/ Restart

\* Time passes, and the annotations of a node are old.
GrowOld(n) ==
  /\ n \in fresh
  /\ fresh' = fresh \ {n}
  /\ UNCHANGED <<index, up, faults>>

Next ==
  /\ Annotator \/ \E n \in ToSet(Nodes) : GrowOld(n)
  /\ UNCHANGED noSeries

\* The loop goes on and the process is restarted; no request hangs.
Loop == Annotator /\ UNCHANGED noSeries

Spec == Init /\ [][Next]_vars /\ WF_vars(Loop)

-----------------------------------------------------------------------------
(***************************************************************************)
(* Properties.                                                             *)
(***************************************************************************)

\* "gathers node resource usage data (through Prometheus, for example) and
\* annotates the node with such information" (safe/README.md): in spite of
\* failed requests and restarts, a node that Prometheus has data for is annotated
\* again and again.  This does not reach the nodes behind one without data: the
\* process ends there in every round.
NodesAnnotated ==
  \A i \in DOMAIN Nodes :
    (\A j \in 1..i : Nodes[j] \notin noSeries) => []<>(Nodes[i] \in fresh)
=============================================================================
