--------------------------- MODULE MCStateUpdater ---------------------------
(***************************************************************************)
(* Small instances of StateUpdater for TLC.                                *)
(***************************************************************************)
EXTENDS StateUpdater

CONSTANTS n1, n2, p1, p2, cpu    \* model values

\* Bounds: the last generation number (a session per generation, and a stale
\* start for every earlier one), and the vectors of observations.
MaxGen == 2
MCGenerations == 0..MaxGen

Vectors(S) == {[k \in Res |-> v] : v \in S}
MCCapacity == Vectors({2})
MCNoUsage == {NULL}
MCNoOverflow == {[k \in Res |-> FALSE]}
MCDemands == Vectors({1, 2})

Symmetry == Permutations({n1, n2}) \cup Permutations({p1, p2})
=============================================================================
