-------------------------- MODULE MCPriorityQueue --------------------------
(* PriorityQueue with two short queues and a long one, a paint with no goal  *)
(* and a paint with a 50% goal, as configure parses them from GOAL.        *)
EXTENDS PriorityQueue

(* GOAL "0,0,1,50".                                                        *)
MCGoal == <<0, 0, 1, 50>>
=============================================================================
