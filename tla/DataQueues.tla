----------------------------- MODULE DataQueues -----------------------------
(***************************************************************************)
(* The unicast backpressure scheduler DataQueues (src/bp/dataqueues.cc),   *)
(* with its neighbor backlog table BPData and the downstream element that  *)
(* pulls from it.                                                          *)
(*                                                                         *)
(* Click runs push, pull and the timer one at a time on one thread, so     *)
(* every handler is one atomic step:                                       *)
(*   Push      push() on port 0 (ports 1 and 2 only pass the packet on);  *)
(*   AddFlow   the add_flow write handler;                                 *)
(*   Tick      run_timer(): do_periodically() and the rate update;         *)
(*   PullServe / PullEmpty  pull() by the downstream element, which pulls  *)
(*             only while the empty notifier _empty_note is awake;         *)
(*   Probe     a neighbor's probe received by BPStat into BPData.          *)
(* The link table is fixed: LinkMetric, MyDistance and NextHop are what    *)
(* get_link_metric, get_route_metric(best_route) and shortest[1] return.   *)
(***************************************************************************)
EXTENDS Naturals, Sequences, FiniteSets

CONSTANTS
  Flows,        \* flow destinations (IPAddress of Flow)
  Neighbors,    \* nodes whose probes reach this node
  Capacity,     \* _capacity
  Dmax,         \* _dmax
  V,            \* _V (configure sets it to _capacity when 0)
  BLThr,        \* _backlog_threshold
  Enhanced,     \* _enhanced
  Video,        \* _video
  RateActive,   \* _rate_active (BWSHAPER given)
  LinkMetric,   \* [Neighbors -> Nat]: get_link_metric(_ip, n), 0 = no link
  MyDistance,   \* [Flows -> Nat]: metric of best_route(dst), 0 = no valid route
  NextHop,      \* [Flows -> Neighbors \cup {NoNeighbor}]: shortest[1]
  Backlogs,     \* backlogs a probe can report
  Distances,    \* distances a probe can report
  Width,        \* width of uint32_t
  MaxDiffDistance, \* the literal 999999
  MaxArrivals,  \* bound on the packets pushed on port 0
  NoFlow,       \* _pull_q == NULL
  NoNeighbor,   \* IPAddress(0)
  NoInfo        \* an absent HostBPInfo

ASSUME /\ Capacity \in Nat \ {0} /\ Dmax \in Nat /\ V \in Nat /\ BLThr \in Nat
       /\ {Enhanced, Video, RateActive} \subseteq BOOLEAN
       /\ LinkMetric \in [Neighbors -> Nat]
       /\ MyDistance \in [Flows -> Nat]
       /\ NextHop \in [Flows -> Neighbors \cup {NoNeighbor}]
       /\ MaxArrivals \in Nat

(***************************************************************************)
(* configure(): the keywords as given, an element or address keyword as   *)
(* whether it names a nonzero address or an element of the right class.   *)
(* DefaultKeywords holds what configure assumes for a keyword left out.   *)
(***************************************************************************)
DefaultKeywords ==
  [ip |-> FALSE, eth |-> FALSE, bpdata |-> FALSE, lt |-> FALSE,
   arp |-> FALSE, capacity |-> 0, period |-> 0, video |-> FALSE,
   maclayer |-> "wifiqos", bwshaper |-> 0, enhanced |-> TRUE,
   dmax |-> 0, V |-> 0, blthr |-> 0]

MacLayers == {"wifiqos", "wifi", "ether"}

(* The settings configure derives from keywords k under unicast routing,  *)
(* or ok = FALSE where it returns an error: V defaults to CAPACITY, and   *)
(* the rate shaper is active exactly when BWSHAPER is nonzero.             *)
Configure(k) ==
  IF \/ ~(k.ip /\ k.eth /\ k.bpdata /\ k.lt /\ k.arp)
     \/ k.capacity = 0
     \/ k.period = 0
     \/ k.maclayer \notin MacLayers
  THEN [ok |-> FALSE]
  ELSE [ok |-> TRUE, capacity |-> k.capacity, dmax |-> k.dmax,
        V |-> IF k.V = 0 THEN k.capacity ELSE k.V, blthr |-> k.blthr,
        enhanced |-> k.enhanced, video |-> k.video,
        rateActive |-> k.bwshaper # 0]

VARIABLES
  known, nfb,     \* BPData: neighbors with a table, their HostBPInfo entries
  created,        \* flows with a queue in _FQ
  dq,             \* dq[f]: the DataQueue of f (NewQueue(0) until created)
  pullQ,          \* _pull_q
  pullNeig,       \* _pull_neig
  guard,          \* _guard_packet: a packet id, NULL, or a stale pointer
  lockPull,       \* _lock_pull
  sleepiness,     \* _sleepiness
  awake,          \* the signal of _empty_note
  arrivals,       \* packets pushed on port 0 so far (the next packet's id)
  decided,        \* ids queued in the selected queue at the last decision
  sentSinceTick   \* ids pulled since the last decision

vars == <<known, nfb, created, dq, pullQ, pullNeig, guard, lockPull,
          sleepiness, awake, arrivals, decided, sentSinceTick>>

INSTANCE DataQueue

BP == INSTANCE BPData

Score == INSTANCE BPScore

SLEEPINESS_TRIGGER == 9

NULL == 0                    \* no guard packet
StalePacket == MaxArrivals + 1  \* a pointer to no queued packet

Packets == [id : 1..MaxArrivals, cls : Classes]

MinOf(a, b) == IF a < b THEN a ELSE b

MaxOf(S) == CHOOSE m \in S : \A x \in S : x <= m

Ids(q) == {p.id : p \in Content(q)}

-----------------------------------------------------------------------------
(* get_backlog(f): the size of f's queue, 0 when it has none.              *)
MyBacklog(f) == IF f \in created THEN Size(dq[f]) ELSE 0

(* bp_metric of neighbor n for flow f in get_best_neighbor.                *)
NeighborScore(f, n) ==
  Score!NeighborMetric(MyBacklog(f), MyDistance[f], nfb[n][f], NoInfo,
                       LinkMetric[n], n = NextHop[f], n = f, BLThr)

(* *metric of get_best_neighbor(f): 0 without backlog or route, else the   *)
(* largest bp_metric of the neighbors BPData iterates over.                *)
FlowScore(f) ==
  IF MyBacklog(f) = 0 \/ MyDistance[f] = 0 THEN 0
  ELSE MaxOf({0} \cup {NeighborScore(f, n) : n \in known})

(* The neighbors get_best_neighbor(f) may return: the first of the best in *)
(* the (unknown) iteration order of _NFB, or IPAddress(0).                 *)
BestNeighbors(f) ==
  IF FlowScore(f) = 0 THEN {NoNeighbor}
  ELSE {n \in known : NeighborScore(f, n) = FlowScore(f)}

(* The <<flow, neighbor>> next_pull_queue may return: a flow of maximal    *)
(* nonzero score (rand()%2 lets any of the tied ones win), or NULL and the *)
(* default IPAddress when every score is 0.                                *)
Decisions ==
  LET top == MaxOf({0} \cup {FlowScore(f) : f \in created})
  IN  IF top = 0 THEN {<<NoFlow, NoNeighbor>>}
      ELSE UNION {{<<f, n>> : n \in BestNeighbors(f)} :
                    f \in {g \in created : FlowScore(g) = top}}

(* Mutant of Age: the aged packets taken from the back of the default     *)
(* deque, as pop_back() would.                                             *)
AgeFromBack(q) ==
  LET qSize  == Size(q)
      qDrops == q.drops
      added  == IF qSize > qDrops THEN MinOf(qSize, Dmax) ELSE 0
      removed == IF qDrops > V THEN MinOf(qDrops, Dmax) ELSE 0
      aged == [AddDrops(q, added) EXCEPT !.q = SubSeq(@, 1, Len(@) - added)]
  IN  RemoveDrops(aged, removed)

(* One pass of the aging loop of do_periodically over a queue.             *)
Age(q) ==
  LET qSize  == Size(q)
      qDrops == q.drops
      added  == IF qSize > qDrops THEN MinOf(qSize, Dmax) ELSE 0
      removed == IF qDrops > V THEN MinOf(qDrops, Dmax) ELSE 0
  IN  RemoveDrops(PopFrontN(AddDrops(q, added), added), removed)

(* The values max_q->back() can give _guard_packet: _Q.back(), or, when   *)
(* only _QI/_QP hold packets, whatever the empty deque's slot holds: an    *)
(* uninitialised value or the last packet popped from _Q (NULL or a stale  *)
(* pointer).  Without a buffer (NoBuffer) the call crashes the element;    *)
(* the model follows no run past that point.                               *)
GuardChoices(q) ==
  IF Size(q) = 0 THEN {NULL}
  ELSE IF HasBack(q) THEN {Back(q).id}
  ELSE IF NoBuffer(q, Capacity) THEN {}
  ELSE {NULL, StalePacket}

-----------------------------------------------------------------------------
Init ==
  /\ BP!BPInit
  /\ created = {}
  /\ dq = [f \in Flows |-> NewQueue(0)]
  /\ pullQ = NoFlow
  /\ pullNeig = NoNeighbor
  /\ guard = NULL
  /\ lockPull = FALSE
  /\ sleepiness = 0
  /\ awake = TRUE
  /\ arrivals = 0
  /\ decided = {}
  /\ sentSinceTick = {}

(* Mutant of Push: the capacity test dropped.                             *)
PushIgnoringCapacity(f, c) ==
  LET p == [id |-> arrivals + 1, cls |-> c]
      q == dq[f]
  IN  /\ arrivals < MaxArrivals
      /\ created' = created \cup {f}
      /\ arrivals' = arrivals + 1
      /\ dq' = [dq EXCEPT ![f] =
                  IF Size(q) + 1 > q.hw
                  THEN SetHighwater(PushBack(q, p), Size(q) + 1)
                  ELSE PushBack(q, p)]
      /\ awake' = TRUE
      /\ UNCHANGED <<known, nfb, pullQ, pullNeig, guard, lockPull, sleepiness,
                     decided, sentSinceTick>>

(* push(0, p): get_related_queue creates the flow's queue; a full queue    *)
(* drops p and counts it, otherwise p is appended, the highwater mark      *)
(* raised and the notifier woken.                                          *)
Push(f, c) ==
  LET p == [id |-> arrivals + 1, cls |-> c]
      q == dq[f]
  IN  /\ arrivals < MaxArrivals
      /\ created' = created \cup {f}
      /\ arrivals' = arrivals + 1
      /\ IF Size(q) # Capacity
         THEN /\ dq' = [dq EXCEPT ![f] =
                          IF Size(q) + 1 > q.hw
                          THEN SetHighwater(PushBack(q, p), Size(q) + 1)
                          ELSE PushBack(q, p)]
              /\ awake' = TRUE
         ELSE /\ dq' = [dq EXCEPT ![f] = AddDrops(q, 1)]
              /\ UNCHANGED awake
      /\ UNCHANGED <<known, nfb, pullQ, pullNeig, guard, lockPull, sleepiness,
                     decided, sentSinceTick>>

(* write handler add_flow: add_queue creates the queue if absent.          *)
AddFlow(f) ==
  /\ f \notin created
  /\ created' = created \cup {f}
  /\ UNCHANGED <<known, nfb, dq, pullQ, pullNeig, guard, lockPull, sleepiness,
                 awake, arrivals, decided, sentSinceTick>>

(* Mutant of Tick: the guard taken from the chosen queue before it is     *)
(* aged, as if the guard assignment preceded the aging loop.               *)
TickGuardBeforeAging ==
  \E d \in Decisions :
    LET aged == [f \in Flows |-> IF f \in created THEN Age(dq[f]) ELSE dq[f]]
        pre  == IF d[1] = NoFlow THEN NewQueue(0) ELSE dq[d[1]]
        sel  == IF d[1] = NoFlow THEN NewQueue(0) ELSE aged[d[1]]
    IN  /\ dq' = aged
        /\ \E g \in GuardChoices(pre) :
             /\ guard' = g
             /\ lockPull' = (g = NULL)
        /\ pullQ' = d[1]
        /\ pullNeig' = d[2]
        /\ decided' = Ids(sel)
        /\ sentSinceTick' = {}
        /\ UNCHANGED <<known, nfb, created, sleepiness, awake, arrivals>>

(* run_timer: do_periodically() chooses the next <<queue, neighbor>>, ages *)
(* every queue, then takes the back of the chosen queue as the guard and   *)
(* locks pull when there is none.  The rate update that follows changes    *)
(* only the GapRate, whose tokens PullEmpty chooses freely.                *)
Tick ==
  \E d \in Decisions :
    LET aged == [f \in Flows |-> IF f \in created THEN Age(dq[f]) ELSE dq[f]]
        sel  == IF d[1] = NoFlow THEN NewQueue(0) ELSE aged[d[1]]
    IN  /\ dq' = aged
        /\ \E g \in GuardChoices(sel) :
             /\ guard' = g
             /\ lockPull' = (g = NULL)
        /\ pullQ' = d[1]
        /\ pullNeig' = d[2]
        /\ decided' = Ids(sel)
        /\ sentSinceTick' = {}
        /\ UNCHANGED <<known, nfb, created, sleepiness, awake, arrivals>>

(* Mutant of Servable: pull() without the _lock_pull test.                 *)
ServableIgnoringLock ==
  /\ pullQ # NoFlow
  /\ Size(dq[pullQ]) > 0
  /\ pullNeig # NoNeighbor

(* The conditions under which pull() returns a packet, rate aside.         *)
Servable ==
  /\ pullQ # NoFlow
  /\ Size(dq[pullQ]) > 0
  /\ pullNeig # NoNeighbor
  /\ ~lockPull

(* pull() that returns a packet: pop the front, reset the sleepiness, lock *)
(* once the guard is served.  The next hop and MAC stamped on the packet   *)
(* are the decision's pullNeig.                                            *)
PullServe ==
  LET p == Front(dq[pullQ])
  IN  /\ awake
      /\ Servable
      /\ dq' = [dq EXCEPT ![pullQ] = PopFront(@)]
      /\ sleepiness' = 0
      /\ lockPull' = (lockPull \/ p.id = guard)
      /\ sentSinceTick' = sentSinceTick \cup {p.id}
      /\ UNCHANGED <<known, nfb, created, pullQ, pullNeig, guard, awake,
                     arrivals, decided>>

(* pull() that returns NULL, also when the rate shaper has no token: after *)
(* SLEEPINESS_TRIGGER of them in a row the notifier goes to sleep.         *)
PullEmpty ==
  /\ awake
  /\ ~Servable \/ RateActive
  /\ IF sleepiness >= SLEEPINESS_TRIGGER
     THEN /\ awake' = FALSE
          /\ UNCHANGED sleepiness
     ELSE /\ sleepiness' = sleepiness + 1
          /\ UNCHANGED awake
  /\ UNCHANGED <<known, nfb, created, dq, pullQ, pullNeig, guard, lockPull,
                 arrivals, decided, sentSinceTick>>

(* A probe from neighbor n, applied to BPData by BPStat::simple_action.    *)
Probe(n, batch) ==
  /\ BP!ReceiveProbe(n, batch)
  /\ UNCHANGED <<created, dq, pullQ, pullNeig, guard, lockPull, sleepiness,
                 awake, arrivals, decided, sentSinceTick>>

Pull == PullServe \/ PullEmpty

Next ==
  \/ \E f \in Flows, c \in (IF Video THEN Classes ELSE {"D"}) : Push(f, c)
  \/ \E f \in Flows : AddFlow(f)
  \/ Tick
  \/ Pull
  \/ \E n \in Neighbors, batch \in BP!Batches : Probe(n, batch)

(* The timer fires every PERIOD and the downstream element keeps pulling   *)
(* while the notifier is awake; arrivals and probes come from outside.     *)
Spec == Init /\ [][Next]_vars /\ WF_vars(Tick) /\ WF_vars(Pull)

-----------------------------------------------------------------------------
TypeOK ==
  /\ BP!BPTypeOK
  /\ created \subseteq Flows
  /\ \A f \in Flows : /\ Size(dq[f]) <= Capacity
                      /\ Content(dq[f]) \subseteq Packets
                      /\ dq[f].drops \in Nat /\ dq[f].hw \in 0..Capacity
  /\ pullQ \in created \cup {NoFlow}
  /\ pullNeig \in Neighbors \cup {NoNeighbor}
  /\ guard \in 0..MaxArrivals + 1
  /\ lockPull \in BOOLEAN
  /\ sleepiness \in 0..SLEEPINESS_TRIGGER
  /\ awake \in BOOLEAN
  /\ arrivals \in 0..MaxArrivals
  /\ decided \subseteq 1..MaxArrivals /\ sentSinceTick \subseteq 1..MaxArrivals

(* The guard of _lock_pull: every packet pull() hands out between two      *)
(* ticks was already queued in the chosen queue when the tick chose it; a  *)
(* packet that arrives later waits for the next decision.                  *)
ServedOnlyDecided == sentSinceTick \subseteq decided

(* While pull is unlocked the guard packet is still queued in _pull_q, so  *)
(* serving it will lock pull again: the guard can leave the queue only     *)
(* through pull, never through aging, a drop or a stale pointer.           *)
GuardHeld == (pullQ # NoFlow /\ ~lockPull) => guard \in Ids(dq[pullQ])

(* Demand-side wake-up: whenever the decided queue holds a packet pull()   *)
(* would release, the downstream consumer is awake to pull it.  Only       *)
(* push() calls _empty_note.wake(); run_timer's decision does not.          *)
ServableWakesConsumer == Servable => awake

-----------------------------------------------------------------------------
(* Refinement of BPScheduler (default class only, VIDEO off): the queues   *)
(* are the _Q deques, the selected flow is _pull_q, and the budget is the  *)
(* position of the guard packet in _pull_q while pull is unlocked.         *)
GuardPosition ==
  IF pullQ = NoFlow \/ lockPull THEN 0
  ELSE LET q == dq[pullQ].q
       IN  IF \E i \in DOMAIN q : q[i].id = guard
           THEN CHOOSE i \in DOMAIN q : q[i].id = guard
           ELSE 0

Sched == INSTANCE BPScheduler
           WITH queue <- [f \in Flows |-> dq[f].q], sel <- pullQ,
                budget <- GuardPosition, Items <- Packets, NoSel <- NoFlow

(* DataQueues implements the abstract scheduler: with the guard packet and *)
(* _lock_pull, pull serves only the selected flow, oldest first, and no    *)
(* more than the packets queued in it when run_timer selected it; push,    *)
(* aging and probes are steps the abstract scheduler allows.               *)
SchedulerRefined == Sched!SSpec
=============================================================================
