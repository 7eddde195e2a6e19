-------------------------- MODULE MCRewardMonitor ---------------------------
(***************************************************************************)
(* Small instances of RewardMonitor for TLC.  The two times lie more than  *)
(* MTTF apart.                                                             *)
(***************************************************************************)
EXTENDS RewardMonitor

CONSTANTS n1, n2, t1    \* model values

TwoTimes == {5, 1210}
OneNode == {{n1}}
Clusters == {{n1}, {n1, n2}}
=============================================================================
