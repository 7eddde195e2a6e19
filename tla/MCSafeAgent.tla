---------------------------- MODULE MCSafeAgent -----------------------------
(***************************************************************************)
(* Small instances of SafeAgent for TLC.                                   *)
(***************************************************************************)
EXTENDS SafeAgent

CONSTANTS n1, n2    \* model values

Stat(mean, std, forecast) == [mean |-> mean, std |-> std, forecast |-> forecast]

\* Annotations on a node of capacity 10: none; a steady load below and above
\* the safe utilization; more free than allocatable; variable loads, one with
\* a forecast; one too variable for a beta distribution.
SomeStats ==
  {NULL, Stat(8, NULL, NULL), Stat(1, 0, NULL), Stat(13, 2, NULL),
   Stat(5, 2, NULL), Stat(6, 3, 1), Stat(2, 6, NULL)}

OnePod == {[cpu    |-> [containers |-> <<1, 1>>, initContainers |-> <<1>>],
            memory |-> [containers |-> <<1>>, initContainers |-> <<2>>]]}

SomeProbabilities == {0, 85, 100, NaN}

NodeSymmetry == Permutations({n1, n2})
=============================================================================
