--------------------------- MODULE MCBPMetricFlood ---------------------------
(***************************************************************************)
(* BPMetricFlood on a four-node mesh: a source nS, a destination nD and  *)
(* two relays nA and nB that hear each other and the source; only nB      *)
(* hears nD.  nS has two loop-free paths to nD, and each relay receives   *)
(* the flood along two paths.  The nA -> nB link is measured worse than   *)
(* nB -> nA.                                                               *)
(***************************************************************************)
EXTENDS BPMetricFlood

CONSTANTS nS, nA, nB, nD

MCNodes == {nS, nA, nB, nD}

MCEdges == {{nS, nA}, {nS, nB}, {nA, nB}, {nB, nD}}

MCMetric == [l \in DirLinks |-> IF l = <<nA, nB>> THEN 2 ELSE 1]

MCQueryPairs == {<<nS, nD>>}
=============================================================================
