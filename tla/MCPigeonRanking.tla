-------------------------- MODULE MCPigeonRanking ---------------------------
(***************************************************************************)
(* An instance of PigeonRanking: three nodes and two resources.            *)
(***************************************************************************)
EXTENDS PigeonRanking

CONSTANTS n1, n2, n3

Files == {NULL, "LOAD_BALANCE", "CONSOLIDATE"}
Envs == {NULL, "LOAD_BALANCE", "CONSOLIDATE"}

\* Equal nodes, and a node without the prime resource.
SomeCapacities ==
  {[n \in Node |-> <<2, 2>>], [n \in Node |-> IF n = n1 THEN <<0, 2>> ELSE <<2, 2>>]}
SomeUsages == {<<0, 0>>, <<1, 0>>, <<1, 1>>}
SomeDemands == {<<1, 1>>, <<2, 1>>, <<1, 2>>}
=============================================================================
