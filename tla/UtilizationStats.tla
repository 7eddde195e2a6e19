-------------------------- MODULE UtilizationStats --------------------------
(***************************************************************************)
(* The statistics of the model's PEs (system/cloudsystem.c): the average   *)
(* utilization of each resource, and the averages over time of the sorted  *)
(* utilizations that cloudsystem_printutilizationmatrix accumulates.       *)
(***************************************************************************)
EXTENDS Matrices

CONSTANTS
  Utilization,    \* utilizations of a resource of a PE
  NumRes,         \* resources
  MaxPEs,         \* bound: PEs of the model
  MaxPrints       \* bound: calls of cloudsystem_printutilizationmatrix

VARIABLES
  util,           \* resource_getutilization of each PE
  orderedutil,    \* cs->orderedutil, or NULL
  orderedcount,   \* cs->orderedcount
  history         \* history: the utilizations at each print that had PEs

vars == <<util, orderedutil, orderedcount, history>>

Init ==
  /\ util = <<>>
  /\ orderedutil = NULL /\ orderedcount = 0
  /\ history = <<>>

cloudsystem_getnumPEs == Len(util)
cloudsystem_getnumresources == IF util = <<>> THEN 0 ELSE Len(util[1])

\* Nodes join, leave or are observed anew, in one session of the updater.
Observe ==
  /\ util' \in UNION {[1..n -> [1..NumRes -> Utilization]] : n \in 0..MaxPEs}
  /\ UNCHANGED <<orderedutil, orderedcount, history>>

\* qsort with mathhelper_floatcomp.
Sorted(a) == SortSeq(a, LAMBDA e, f : e < f)

\* Faulty form: the rows are added as they are.
Snapshot_Unsorted(u) == [j \in 1..NumRes |-> [i \in DOMAIN u |-> u[i][j]]]

\* The utilizations of the PEs, a sorted row for each resource.
Snapshot(u) == [j \in 1..NumRes |-> Sorted([i \in DOMAIN u |-> u[i][j]])]

cloudsystem_printutilizationmatrix ==
  /\ Len(history) < MaxPrints
  /\ \/ cloudsystem_getnumPEs = 0 /\ UNCHANGED <<orderedutil, orderedcount, history>>
     \/ /\ cloudsystem_getnumPEs > 0
        /\ LET zeros == Matrix(cloudsystem_getnumresources, cloudsystem_getnumPEs, LAMBDA i, j : 0)
               sum   == IF orderedutil = NULL THEN zeros ELSE orderedutil
           IN  orderedutil' = matrix_add(sum, Snapshot(util))
        /\ orderedcount' = IF orderedutil = NULL THEN 1 ELSE orderedcount + 1
        /\ history' = Append(history, util)
  /\ UNCHANGED util

Next == Observe \/ cloudsystem_printutilizationmatrix

-----------------------------------------------------------------------------
\* The sum over the PEs that cloudsystem_getutilization divides by their number.
cloudsystem_getutilization(u) == [j \in 1..NumRes |-> array_sum([i \in DOMAIN u |-> u[i][j]])]

\* While the number of PEs is the one of the first print, the accumulated sums
\* are those of orderedcount prints: each row ascends, since the averages of
\* sorted rows are sorted, and its average over the PEs is the average over the
\* prints of what cloudsystem_getutilization gives.
OrderedAveragesExact ==
  (orderedutil # NULL /\ \A t \in DOMAIN history : Len(history[t]) = Len(history[1])) =>
    /\ orderedcount = Len(history)
    /\ \A j \in 1..NumRes :
         /\ array_sum(orderedutil[j]) =
              array_sum([t \in DOMAIN history |-> cloudsystem_getutilization(history[t])[j]])
         /\ \A i \in 1..(Len(orderedutil[j]) - 1) : orderedutil[j][i] <= orderedutil[j][i + 1]
         /\ orderedutil[j][1] = array_sum([t \in DOMAIN history |-> Min({history[t][i][j] : i \in DOMAIN history[t]})])
=============================================================================
