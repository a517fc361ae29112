---------------------------- MODULE MCDataQueues ----------------------------
(***************************************************************************)
(* DataQueues instantiated for TLC: a node with two neighbors n1, n2 and   *)
(* two flows, one to a remote destination d routed via n1 and one to the   *)
(* neighbor n2 itself.                                                     *)
(***************************************************************************)
EXTENDS DataQueues

CONSTANTS n1, n2, d,
  VideoKeyword,     \* VIDEO
  BWShaper          \* BWSHAPER

(* The configuration string: every element given, CAPACITY 2, PERIOD 100, *)
(* dmax 1, V and BLThr left out.                                           *)
MCKeywords ==
  [DefaultKeywords EXCEPT !.ip = TRUE, !.eth = TRUE, !.bpdata = TRUE,
     !.lt = TRUE, !.arp = TRUE, !.capacity = 2, !.period = 100, !.dmax = 1,
     !.video = VideoKeyword, !.bwshaper = BWShaper]

MCConfig == Configure(MCKeywords)

ASSUME MCConfig.ok

MCCapacity == MCConfig.capacity
MCDmax == MCConfig.dmax
MCV == MCConfig.V
MCBLThr == MCConfig.blthr
MCEnhanced == MCConfig.enhanced
MCVideo == MCConfig.video
MCRateActive == MCConfig.rateActive

MCNeighbors == {n1, n2}
MCFlows == {d, n2}

(* get_link_metric(_ip, n): both neighbors are links.                      *)
MCLinkMetric == [n \in MCNeighbors |-> IF n = n1 THEN 1000 ELSE 500]

(* d is three links away, n2 one link away.                                *)
MCMyDistance == [f \in MCFlows |-> IF f = d THEN 3000 ELSE 500]

MCNextHop == [f \in MCFlows |-> IF f = d THEN n1 ELSE n2]
=============================================================================
