-------------------------------- MODULE BPStat --------------------------------
(***************************************************************************)
(* The probe exchange of BPStat (src/bp/bpstat.cc) from the senders to one *)
(* receiver.  Each neighbor s runs the timer of BPStat, whose send_probe   *)
(* reports, for every flow of its DataQueues, the queue size and its       *)
(* LinkTable distance to the flow's destination; the probe crosses a       *)
(* radio link that may lose it, and the receiver's simple_action writes it *)
(* into its BPData (ReceiveProbe of the BPData module).                     *)
(*                                                                         *)
(* The sender's DataQueues and LinkTable are the environment: fq[s][f] is  *)
(* the size of s's queue of f, NoQueue while _FQ has no such key (queues   *)
(* are created by push or add_flow and never removed); metricFromMe[s][f]  *)
(* is get_host_metric_from_me(f._dst), 0 when s knows no route.  The       *)
(* aggregate metric the probe also carries is written into _NM, whose      *)
(* value BPData leaves out.  Sender and receiver share ENHANCED.           *)
(***************************************************************************)
EXTENDS BPData, Sequences

CONSTANTS
  HostMetrics,  \* values of get_host_metric_from_me (0: no route)
  NoQueue,      \* no queue for the flow in the sender's _FQ
  MaxInFlight,  \* bound on the probes of one sender in the air
  MaxFaults,    \* bound on lost probes and `info` writes
  Width         \* bits of uint32_t (32; TLC integers stop at 2^31)

(* ~0 of a uint32_t: the distance send_probe reports for an unrouted flow. *)
Unreachable == 2^Width - 1

ASSUME Width \in 1..30 /\ 0 \in HostMetrics /\ \A m \in HostMetrics : m \in 0..Unreachable - 1

VARIABLES
  fq,            \* fq[s][f]: the size of s's queue of f, or NoQueue
  metricFromMe,  \* metricFromMe[s][f]: s's LinkTable distance to f._dst
  air,           \* air[s]: the probes of s on the link, oldest first
  faults         \* history: probes lost and `info` writes so far

svars == <<known, nfb, fq, metricFromMe, air, faults>>

SInit ==
  /\ BPInit
  /\ fq = [s \in Neighbors |-> [f \in Flows |-> NoQueue]]
  /\ metricFromMe \in [Neighbors -> [Flows -> HostMetrics]]
  /\ air = [s \in Neighbors |-> <<>>]
  /\ faults = 0

(* Mutant of ProbeDistance: the unrouted distance sent as 0.               *)
ProbeDistanceZero(s, f) ==
  IF Enhanced THEN metricFromMe[s][f] ELSE 0

(* The distance send_probe reports for f: without ENHANCED none (0);      *)
(* with it the LinkTable distance, or ~0 when that is 0 (no route).       *)
ProbeDistance(s, f) ==
  IF ~Enhanced THEN 0
  ELSE IF metricFromMe[s][f] = 0 THEN Unreachable ELSE metricFromMe[s][f]

(* The flow batches of s's probe: one per key of its _FQ.                  *)
Probe(s) ==
  [f \in {g \in Flows : fq[s][g] # NoQueue} |-> <<fq[s][f], ProbeDistance(s, f)>>]

(* run_timer: send_probe broadcasts the probe (a failed Packet::make,      *)
(* which sends nothing, is a lost probe).                                  *)
SendProbe(s) ==
  /\ Len(air[s]) < MaxInFlight
  /\ air' = [air EXCEPT ![s] = Append(@, Probe(s))]
  /\ UNCHANGED <<known, nfb, fq, metricFromMe, faults>>

(* simple_action of the receiver on the oldest probe of s.                 *)
Receive(s) ==
  /\ air[s] # <<>>
  /\ ReceiveProbe(s, Head(air[s]))
  /\ air' = [air EXCEPT ![s] = Tail(@)]
  /\ UNCHANGED <<fq, metricFromMe, faults>>

(* The oldest probe of s is lost on the link.                              *)
LoseProbe(s) ==
  /\ air[s] # <<>>
  /\ faults < MaxFaults
  /\ air' = [air EXCEPT ![s] = Tail(@)]
  /\ faults' = faults + 1
  /\ UNCHANGED <<known, nfb, fq, metricFromMe>>

(* An `info` write at the receiver.                                        *)
Pin(n, f, b, d) ==
  /\ faults < MaxFaults
  /\ WriteInfo(n, f, b, d)
  /\ faults' = faults + 1
  /\ UNCHANGED <<fq, metricFromMe, air>>

(* Environment: s's DataQueues changes the size of its queue of f.        *)
QueueChange(s, f, b) ==
  /\ fq' = [fq EXCEPT ![s][f] = b]
  /\ UNCHANGED <<known, nfb, metricFromMe, air, faults>>

(* Environment: s's LinkTable changes its distance to f._dst.             *)
RouteChange(s, f, m) ==
  /\ metricFromMe' = [metricFromMe EXCEPT ![s][f] = m]
  /\ UNCHANGED <<known, nfb, fq, air, faults>>

SNext ==
  \/ \E s \in Neighbors : SendProbe(s) \/ Receive(s) \/ LoseProbe(s)
  \/ \E n \in Neighbors, f \in Flows, b \in Backlogs, d \in Distances : Pin(n, f, b, d)
  \/ \E s \in Neighbors, f \in Flows, b \in Backlogs : QueueChange(s, f, b)
  \/ \E s \in Neighbors, f \in Flows, m \in HostMetrics : RouteChange(s, f, m)

(* The timer of BPStat is rescheduled on every run, and a probe on the     *)
(* link is received unless it is lost.                                     *)
SSpec ==
  /\ SInit /\ [][SNext]_svars
  /\ \A s \in Neighbors : WF_svars(SendProbe(s)) /\ WF_svars(Receive(s))
-----------------------------------------------------------------------------
STypeOK ==
  /\ BPTypeOK
  /\ fq \in [Neighbors -> [Flows -> Backlogs \cup {NoQueue}]]
  /\ metricFromMe \in [Neighbors -> [Flows -> HostMetrics]]
  /\ \A s \in Neighbors : Len(air[s]) <= MaxInFlight
  /\ faults \in 0..MaxFaults

(* A lost route reaches the neighbors: while a sender keeps a queue for f *)
(* and knows no route to f's destination, the receiver's entry for it     *)
(* eventually carries the unreachable distance ~0, so that                 *)
(* get_best_neighbor, which requires my_distance > the neighbor's,        *)
(* stops seeing the sender as closer (send_probe's ~0 rule and             *)
(* simple_action).  An entry pinned by the info handler is exempt: the     *)
(* spec keeps a pinned distance against every probe, so holding it is not *)
(* a failure to propagate.                                                 *)
RouteLossPropagates ==
  Enhanced =>
    \A s \in Neighbors, f \in Flows :
      (fq[s][f] # NoQueue /\ metricFromMe[s][f] = 0) ~>
        (\/ metricFromMe[s][f] # 0
         \/ nfb[s][f] # NoInfo /\ nfb[s][f].distance = Unreachable
         \/ nfb[s][f] # NoInfo /\ nfb[s][f].static)
=============================================================================
