---------------------------- MODULE MCBPDataPath ----------------------------
(***************************************************************************)
(* The data path on the mesh of MCBPMetricFlood: source nS, relays nA and  *)
(* nB, destination nD; the link nA -> nB has metric 2 and every other      *)
(* link metric 1, so that forward and reverse metrics differ.              *)
(***************************************************************************)
EXTENDS BPDataPath

CONSTANTS nS, nA, nB, nD

MCNodes == {nS, nA, nB, nD}

MCEdges == {{nS, nA}, {nS, nB}, {nA, nB}, {nB, nD}}

MCMetric == [l \in {l \in MCNodes \X MCNodes : {l[1], l[2]} \in MCEdges} |->
               IF l = <<nA, nB>> THEN 2 ELSE 1]
=============================================================================
