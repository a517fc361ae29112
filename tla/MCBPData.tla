------------------------------ MODULE MCBPData ------------------------------
(***************************************************************************)
(* The probe exchange of BPStat into one receiver's BPData, for TLC, with  *)
(* two history variables: `pinned` records the distance the last `info`    *)
(* write pinned for each entry and `reported` the backlog last carried by  *)
(* a received probe or a write.  Neither is read by the actions.           *)
(***************************************************************************)
EXTENDS BPStat

CONSTANT Unpinned   \* no distance pinned for the entry

VARIABLES pinned, reported

mcvars == <<known, nfb, fq, metricFromMe, air, faults, pinned, reported>>

MCInit ==
  /\ SInit
  /\ pinned = [n \in Neighbors |-> [f \in Flows |-> Unpinned]]
  /\ reported = [n \in Neighbors |-> [f \in Flows |-> NoInfo]]

MCReceive(s) ==
  /\ Receive(s)
  /\ reported' = [reported EXCEPT ![s] =
                    [f \in Flows |-> IF f \in DOMAIN Head(air[s])
                                     THEN Head(air[s])[f][1] ELSE @[f]]]
  /\ UNCHANGED pinned

MCSendProbe(s) == SendProbe(s) /\ UNCHANGED <<pinned, reported>>

MCPin(n, f, b, d) ==
  /\ Pin(n, f, b, d)
  /\ pinned' = [pinned EXCEPT ![n][f] = d]
  /\ reported' = [reported EXCEPT ![n][f] = b]

MCNext ==
  \/ \E s \in Neighbors : MCReceive(s)
  \/ \E n \in Neighbors, f \in Flows, b \in Backlogs, d \in Distances :
        MCPin(n, f, b, d)
  \/ \E s \in Neighbors : MCSendProbe(s)
  \/ /\ \/ \E s \in Neighbors : LoseProbe(s)
        \/ \E s \in Neighbors, f \in Flows, b \in Backlogs : QueueChange(s, f, b)
        \/ \E s \in Neighbors, f \in Flows, m \in HostMetrics : RouteChange(s, f, m)
     /\ UNCHANGED <<pinned, reported>>

MCSpec ==
  /\ MCInit /\ [][MCNext]_mcvars
  /\ \A s \in Neighbors : WF_mcvars(MCSendProbe(s)) /\ WF_mcvars(MCReceive(s))

MCTypeOK ==
  /\ STypeOK
  /\ pinned \in [Neighbors -> [Flows -> Distances \cup {Unpinned}]]
  /\ reported \in [Neighbors -> [Flows -> Backlogs \cup {NoInfo}]]

(* Latest report wins: the backlog of every entry is the one carried by    *)
(* the last probe received or `info` write for it, whether or not the      *)
(* entry's distance is pinned (BPStat::simple_action,                      *)
(* BPData::write_handler).                                                 *)
LatestBacklogKept ==
  \A n \in Neighbors, f \in Flows :
    nfb[n][f] # NoInfo => nfb[n][f].backlog = reported[n][f]

(* An administratively pinned distance (`info` write, static_distance)    *)
(* is never overwritten by probe data: only the backlog field changes.     *)
PinnedDistanceKept ==
  \A n \in Neighbors, f \in Flows :
    pinned[n][f] # Unpinned => nfb[n][f].distance = pinned[n][f]
=============================================================================
