---------------------------- MODULE MCPigeonAgent ---------------------------
(***************************************************************************)
(* Small instances of PigeonAgent for TLC.                                 *)
(***************************************************************************)
EXTENDS PigeonAgent

CONSTANTS n1, n2, h1, h2, cpu    \* model values

MCGenerations == 0..MaxGen
MCVectors == {[k \in Res |-> 1]}
MCUsages == {[k \in Res |-> -1]}
MCOverflows == {[k \in Res |-> FALSE]}
=============================================================================
