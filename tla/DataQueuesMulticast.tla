------------------------- MODULE DataQueuesMulticast -------------------------
(***************************************************************************)
(* The multicast scheduler DataQueuesMulticast                              *)
(* (src/bp/dataqueuesmulticast.cc), which reuses push() and pull() of       *)
(* DataQueues but overrides get_related_queue, next_pull_queue and          *)
(* do_periodically, with the DataQueueMulticast flow queues of              *)
(* src/bp/dataqueue.hh.                                                    *)
(*                                                                         *)
(* A flow queue (DataQueueMulticast) holds one DataQueue per next-hop MAC  *)
(* observed for the flow; a sub-queue is identified by <<flow, neighbor>>. *)
(* Under PLAIN every packet maps to the flow IPAddress() and the neighbor  *)
(* EtherAddress(): one queue, AnyFlow and AnyNeighbor here.  The MMU       *)
(* virtual queue (float Z, exp, log) only changes the size() reported in   *)
(* probes and is not modelled; Policy is "MMT" or "PLAIN".                 *)
(*                                                                         *)
(* Actions: Push0 / Push1 (push on port 0 / 1), Tick (run_timer),          *)
(* PullServe / PullEmpty (pull), Probe (BPStat::simple_action).            *)
(***************************************************************************)
EXTENDS Integers, FiniteSets

CONSTANTS
  Flows,        \* destination IPs of the packets (dst_ip_anno)
  Neighbors,    \* next-hop MACs of the packets (i_addr1 / ether_dhost)
  Policy,       \* _policy: "MMT" or "PLAIN"
  Capacity,     \* _capacity
  Dmax,         \* _dmax
  V,            \* _V (configure sets it to _capacity when 0)
  Theta,        \* _theta (0 unless configured; only MMU sets it)
  Weight,       \* [Flows \X Neighbors -> Nat]: _weights of "flow + mac"
  Rates,        \* values of the rate annotation of a pushed packet
  Video,        \* _video
  RateActive,   \* _rate_active (BWSHAPER given)
  Backlogs, Distances, Enhanced,  \* what probes carry (BPData)
  MaxArrivals,  \* bound on the packets pushed on port 0
  AnyFlow,      \* IPAddress(): the one flow of PLAIN
  AnyNeighbor,  \* EtherAddress(): the one next hop of PLAIN
  NoQueue,      \* _pull_q == NULL
  NoInfo        \* an absent HostBPInfo

ASSUME /\ Policy \in {"MMT", "PLAIN"}
       /\ Capacity \in Nat \ {0} /\ Dmax \in Nat /\ V \in Nat /\ Theta \in Nat
       /\ Weight \in [Flows \X Neighbors -> Nat]
       /\ Rates \subseteq -128..127 /\ MaxArrivals \in Nat

VARIABLES
  known, nfb,     \* BPData
  created,        \* flows with a DataQueueMulticast in _FQ
  dest,           \* dest[f]: its _dest_queue flag
  subs,           \* sub-queues <<f, n>> created in the flows' _EQ
  sq,             \* sq[s]: the DataQueue of sub-queue s
  pullQ,          \* _pull_q: a sub-queue or NoQueue
  guard,          \* _guard_packet
  lockPull,       \* _lock_pull
  sleepiness,     \* _sleepiness
  awake,          \* the signal of _empty_note
  arrivals,       \* packets pushed on port 0 so far
  decided,        \* history: ids queued in _pull_q at the last decision
  sentSinceTick,  \* history: ids pulled since the last decision
  decidedDiff,    \* history: _metric (max_diff) of the last decision
  overflowed      \* history: sub-queues that dropped a packet on push

vars == <<known, nfb, created, dest, subs, sq, pullQ, guard, lockPull,
          sleepiness, awake, arrivals, decided, sentSinceTick, decidedDiff,
          overflowed>>

INSTANCE DataQueue

BP == INSTANCE BPData WITH Neighbors <- Neighbors, Flows <- Flows

SLEEPINESS_TRIGGER == 9

NULL == 0
StalePacket == MaxArrivals + 1

FlowKeys == IF Policy = "PLAIN" THEN {AnyFlow} ELSE Flows
NeighborKeys == IF Policy = "PLAIN" THEN {AnyNeighbor} ELSE Neighbors
SubQueues == FlowKeys \X NeighborKeys

Packets == [id : 1..MaxArrivals, cls : Classes, rate : Rates]

MinOf(a, b) == IF a < b THEN a ELSE b

Ids(q) == {p.id : p \in Content(q)}

-----------------------------------------------------------------------------
(* Mutant of InitDrops: sub-queues start with no drops, as the unicast   *)
(* get_related_queue creates its queues.                                   *)
InitDropsZero == 0

(* The drops a new sub-queue starts with (DataQueueMulticast::get_queue):  *)
(* _V under MMT, _V * _theta otherwise.                                    *)
InitDrops == IF Policy = "MMT" THEN V ELSE V * Theta

(* The decay threshold of the aging loop.                                  *)
DecayThreshold == IF Policy = "MMT" THEN V ELSE V * Theta

(* The rate of a sub-queue: the annotation of its front packet, 1 when it *)
(* is empty or the annotation is 0.                                        *)
RateOf(q) ==
  IF Size(q) = 0 \/ Front(q).rate = 0 THEN 1 ELSE Front(q).rate

(* neig_backlog: the neighbor's reported backlog for the flow, 0 if none. *)
NeighborBacklog(s) ==
  IF nfb[s[2]][s[1]] = NoInfo THEN 0 ELSE nfb[s[2]][s[1]].backlog

(* diff of next_pull_queue under MMT.                                      *)
Diff(s) == (Weight[s] * Size(sq[s]) - NeighborBacklog(s)) * RateOf(sq[s])

(* The <<queue, max_diff>> next_pull_queue may return.  PLAIN returns the *)
(* first sub-queue of the iteration, NULL when there is none.  MMT starts *)
(* from max_diff = -1 and takes a larger diff, or an equal one on          *)
(* rand()%2: any sub-queue of the largest diff wins, and when that diff   *)
(* is -1 every one of them may also be passed over.                        *)
Decisions ==
  IF Policy = "PLAIN"
  THEN IF subs = {} THEN {<<NoQueue, -1>>} ELSE {<<s, -1>> : s \in subs}
  ELSE LET top == IF subs = {} THEN -1
                  ELSE CHOOSE m \in {Diff(s) : s \in subs} :
                         \A s \in subs : Diff(s) <= m
       IN  IF top < -1 THEN {<<NoQueue, -1>>}
           ELSE {<<s, top>> : s \in {t \in subs : Diff(t) = top}}
                  \cup (IF top = -1 THEN {<<NoQueue, -1>>} ELSE {})

(* One pass of the multicast aging loop over a sub-queue.                  *)
MAge(q) ==
  LET qSize  == Size(q)
      qDrops == q.drops
      added  == IF qSize > qDrops THEN MinOf(qSize, Dmax) ELSE 0
      removed == IF qDrops > DecayThreshold THEN MinOf(qDrops, Dmax) ELSE 0
  IN  RemoveDrops(PopFrontN(AddDrops(q, added), added), removed)

(* The values max_q->back() can give _guard_packet: _Q.back(), or, when   *)
(* only _QI/_QP hold packets, whatever the empty deque's slot holds: an    *)
(* uninitialised value or the last packet popped from _Q (NULL or a stale  *)
(* pointer).  Without a buffer (NoBuffer) the call crashes the element;    *)
(* the model follows no run past that point.                               *)
GuardChoices(q) ==
  IF Size(q) = 0 THEN {NULL}
  ELSE IF HasBack(q) THEN {Back(q).id}
  ELSE IF NoBuffer(q, Capacity) THEN {}
  ELSE {NULL, StalePacket}

-----------------------------------------------------------------------------
Init ==
  /\ BP!BPInit
  /\ created = {}
  /\ dest = [f \in FlowKeys |-> FALSE]
  /\ subs = {}
  /\ sq = [s \in SubQueues |-> NewQueue(InitDrops)]
  /\ pullQ = NoQueue
  /\ guard = NULL
  /\ lockPull = FALSE
  /\ sleepiness = 0
  /\ awake = TRUE
  /\ arrivals = 0
  /\ decided = {}
  /\ sentSinceTick = {}
  /\ decidedDiff = -1
  /\ overflowed = {}

(* get_related_multicast_queue: the flow queue is created on first use,   *)
(* with the dest_queue flag of that first use.                             *)
FlowQueueCreated(f, isDest) ==
  /\ created' = created \cup {f}
  /\ dest' = IF f \in created THEN dest ELSE [dest EXCEPT ![f] = isDest]

(* Mutant of Push0: the capacity test dropped.                            *)
Push0IgnoringCapacity(f, n, c, r) ==
  LET s == <<IF Policy = "PLAIN" THEN AnyFlow ELSE f,
             IF Policy = "PLAIN" THEN AnyNeighbor ELSE n>>
      p == [id |-> arrivals + 1, cls |-> c, rate |-> r]
  IN  /\ arrivals < MaxArrivals
      /\ FlowQueueCreated(s[1], FALSE)
      /\ subs' = subs \cup {s}
      /\ arrivals' = arrivals + 1
      /\ sq' = [sq EXCEPT ![s] = PushBack(@, p)]
      /\ awake' = TRUE
      /\ UNCHANGED <<known, nfb, pullQ, guard, lockPull, sleepiness, decided,
                     sentSinceTick, decidedDiff, overflowed>>

(* push(0, p): get_related_queue (flow queue, then the next hop's          *)
(* sub-queue), then the enqueue of DataQueues::push.                       *)
Push0(f, n, c, r) ==
  LET s == <<IF Policy = "PLAIN" THEN AnyFlow ELSE f,
             IF Policy = "PLAIN" THEN AnyNeighbor ELSE n>>
      p == [id |-> arrivals + 1, cls |-> c, rate |-> r]
      q == sq[s]
  IN  /\ arrivals < MaxArrivals
      /\ FlowQueueCreated(s[1], FALSE)
      /\ subs' = subs \cup {s}
      /\ arrivals' = arrivals + 1
      /\ IF Size(q) # Capacity
         THEN /\ sq' = [sq EXCEPT ![s] =
                          IF Size(q) + 1 > q.hw
                          THEN SetHighwater(PushBack(q, p), Size(q) + 1)
                          ELSE PushBack(q, p)]
              /\ awake' = TRUE
              /\ UNCHANGED overflowed
         ELSE /\ sq' = [sq EXCEPT ![s] = AddDrops(q, 1)]
              /\ overflowed' = overflowed \cup {s}
              /\ UNCHANGED awake
      /\ UNCHANGED <<known, nfb, pullQ, guard, lockPull, sleepiness, decided,
                     sentSinceTick, decidedDiff>>

(* push(1, p): a packet for this node creates its flow's queue as a        *)
(* destination queue, then passes to output 1.                             *)
Push1(f) ==
  /\ FlowQueueCreated(IF Policy = "PLAIN" THEN AnyFlow ELSE f, TRUE)
  /\ UNCHANGED <<known, nfb, subs, sq, pullQ, guard, lockPull, sleepiness,
                 awake, arrivals, decided, sentSinceTick, decidedDiff, overflowed>>

(* Mutant of Tick: _lock_pull left false when there is no guard.          *)
TickNoLockWithoutGuard ==
  \E d \in Decisions :
    LET aged == IF Policy = "PLAIN" THEN sq
                ELSE [s \in SubQueues |-> IF s \in subs THEN MAge(sq[s]) ELSE sq[s]]
        sel  == IF d[1] = NoQueue THEN NewQueue(0) ELSE aged[d[1]]
    IN  /\ sq' = aged
        /\ \E g \in GuardChoices(sel) :
             /\ guard' = g
             /\ lockPull' = FALSE
        /\ pullQ' = d[1]
        /\ decidedDiff' = d[2]
        /\ decided' = Ids(sel)
        /\ sentSinceTick' = {}
        /\ UNCHANGED <<known, nfb, created, dest, subs, sleepiness, awake, arrivals, overflowed>>

(* run_timer: DataQueuesMulticast::do_periodically chooses a sub-queue,   *)
(* ages every sub-queue unless the policy is PLAIN, then sets the guard   *)
(* and the lock as DataQueues does.                                        *)
Tick ==
  \E d \in Decisions :
    LET aged == IF Policy = "PLAIN" THEN sq
                ELSE [s \in SubQueues |-> IF s \in subs THEN MAge(sq[s]) ELSE sq[s]]
        sel  == IF d[1] = NoQueue THEN NewQueue(0) ELSE aged[d[1]]
    IN  /\ sq' = aged
        /\ \E g \in GuardChoices(sel) :
             /\ guard' = g
             /\ lockPull' = (g = NULL)
        /\ pullQ' = d[1]
        /\ decidedDiff' = d[2]
        /\ decided' = Ids(sel)
        /\ sentSinceTick' = {}
        /\ UNCHANGED <<known, nfb, created, dest, subs, sleepiness, awake, arrivals, overflowed>>

(* DataQueues::pull with _routing == MULTICAST: no next-hop test.          *)
Servable ==
  /\ pullQ # NoQueue
  /\ Size(sq[pullQ]) > 0
  /\ ~lockPull

PullServe ==
  LET p == Front(sq[pullQ])
  IN  /\ awake
      /\ Servable
      /\ sq' = [sq EXCEPT ![pullQ] = PopFront(@)]
      /\ sleepiness' = 0
      /\ lockPull' = (lockPull \/ p.id = guard)
      /\ sentSinceTick' = sentSinceTick \cup {p.id}
      /\ UNCHANGED <<known, nfb, created, dest, subs, pullQ, guard, awake,
                     arrivals, decided, decidedDiff, overflowed>>

PullEmpty ==
  /\ awake
  /\ ~Servable \/ RateActive
  /\ IF sleepiness >= SLEEPINESS_TRIGGER
     THEN /\ awake' = FALSE
          /\ UNCHANGED sleepiness
     ELSE /\ sleepiness' = sleepiness + 1
          /\ UNCHANGED awake
  /\ UNCHANGED <<known, nfb, created, dest, subs, sq, pullQ, guard, lockPull,
                 arrivals, decided, sentSinceTick, decidedDiff, overflowed>>

Probe(n, batch) ==
  /\ BP!ReceiveProbe(n, batch)
  /\ UNCHANGED <<created, dest, subs, sq, pullQ, guard, lockPull, sleepiness,
                 awake, arrivals, decided, sentSinceTick, decidedDiff, overflowed>>

Next ==
  \/ \E f \in Flows, n \in Neighbors, c \in (IF Video THEN Classes ELSE {"D"}),
        r \in Rates : Push0(f, n, c, r)
  \/ \E f \in Flows : Push1(f)
  \/ Tick
  \/ PullServe \/ PullEmpty
  \/ \E n \in Neighbors, batch \in BP!Batches : Probe(n, batch)

Spec == Init /\ [][Next]_vars /\ WF_vars(Tick) /\ WF_vars(PullServe \/ PullEmpty)

-----------------------------------------------------------------------------
TypeOK ==
  /\ BP!BPTypeOK
  /\ created \subseteq FlowKeys /\ dest \in [FlowKeys -> BOOLEAN]
  /\ subs \subseteq SubQueues /\ {s[1] : s \in subs} \subseteq created
  /\ \A s \in SubQueues : /\ Size(sq[s]) <= Capacity
                          /\ Content(sq[s]) \subseteq Packets
  /\ pullQ \in subs \cup {NoQueue}
  /\ guard \in 0..MaxArrivals + 1
  /\ sleepiness \in 0..SLEEPINESS_TRIGGER
  /\ arrivals \in 0..MaxArrivals

(* As in the unicast scheduler: between two ticks pull serves only         *)
(* packets queued in the chosen sub-queue at the decision.                 *)
ServedOnlyDecided == sentSinceTick \subseteq decided

(* The spec of MMT: the sub-queue served is one of the largest             *)
(* non-negative diff; next_pull_queue starts from max_diff = -1.           *)
SelectedDiffNonNegative == pullQ # NoQueue => decidedDiff >= 0

(* A sub-queue starts with _V drops, so while its size stays within _V     *)
(* the aging loop of do_periodically discards none of its packets: a      *)
(* packet leaves a sub-queue through aging only after that sub-queue has  *)
(* dropped a packet on push.                                               *)
AgingOnlyAfterOverflow ==
  [][Tick => \A s \in subs : Ids(sq[s]) \ Ids(sq'[s]) # {} => s \in overflowed]_vars
=============================================================================
