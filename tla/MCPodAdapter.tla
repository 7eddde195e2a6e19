---------------------------- MODULE MCPodAdapter ----------------------------
(***************************************************************************)
(* Instances of PodAdapter; with Kilo = 2, a megabyte is 4 bytes.          *)
(***************************************************************************)
EXTENDS PodAdapter

Quantity(c, m, p, g, s) == [cpu |-> c, memory |-> m, pods |-> p, gpu |-> g, storage |-> s]

\* CPU, memory and pods around the limits of the node.
SomeAllocatables == {Quantity(3, m, 2, 0, 0) : m \in {15, 16, 19, 21}}
SomeAllocations == {NULL} \cup {Quantity(c, m, p, 0, 0) : c \in 0..3, m \in 0..13, p \in 0..2}
SomeRequests == {Quantity(c, m, 0, 0, 0) : c \in 0..2, m \in 0..13}
=============================================================================
