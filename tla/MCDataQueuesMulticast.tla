----------------------- MODULE MCDataQueuesMulticast -----------------------
(***************************************************************************)
(* DataQueuesMulticast for TLC: one multicast flow f1 whose packets go to  *)
(* two next hops m1 and m2, each with its own sub-queue.                   *)
(***************************************************************************)
EXTENDS DataQueuesMulticast

CONSTANTS f1, m1, m2

MCFlows == {f1}
MCNeighbors == {m1, m2}

(* WEIGHTS "f1,m1,1,m2,2": the second next hop counts double.              *)
MCWeight == [s \in MCFlows \X MCNeighbors |-> IF s[2] = m1 THEN 1 ELSE 2]
=============================================================================
