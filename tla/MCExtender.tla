----------------------------- MODULE MCExtender -----------------------------
(***************************************************************************)
(* An instance of Extender.                                               *)
(***************************************************************************)
EXTENDS Extender

SomeCongestions == {NULL, -1, 3, 9}
LowestAndHighest == {0, MaxPriority}

\* Every registered route, and one that is not registered.
AllPaths == Predicates \cup Priorities \cup {"bind", "version", "preemption"}
=============================================================================
