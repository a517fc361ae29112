# TLA+ models of the backpressure scheduling elements

This directory holds TLA+ models of the Click elements in `src/bp/`. They
implement backpressure routing and scheduling. Each model is checked with TLC.
This file covers what each model describes, how it maps to the code, what the
runs show, and what is still to be done.

## 1. The system

The parts, and how they interact:

| Part | Source | Role |
|---|---|---|
| BPData | `bpdata.{hh,cc}` | The neighbor table `_NFB: neighbor -> (flow -> HostBPInfo{backlog, distance, static})` and the neighbor metric `_NM`. Its `info` write handler pins a distance (`static_distance`). |
| BPStat | `bpstat.cc` | Sends a probe with this node's backlogs each period (`send_probe`). Writes each received probe into BPData (`simple_action`). |
| DataQueue | `dataqueue.hh` | The per-flow FIFO. In video mode it has three deques `_QI`, `_QP`, `_Q`, served in the order I > P > default. It also holds drops and the highwater mark. |
| DataQueues | `dataqueues.{hh,cc}` | The unicast scheduler. Its handlers are below this table. |
| DataQueuesMulticast | `dataqueuesmulticast.cc`, `dataqueue.hh` | Per-neighbor sub-queues, and the policies MMT, MMU and PLAIN. |
| BPQuerier, BPForwarder | `bpquerier.cc`, `bpforwarder.cc` | The data path. At the source, BPQuerier encapsulates a packet with the route `<<me, 0>>`. DataQueues' `pull` writes the chosen neighbor into the empty slot. At each hop, BPForwarder checks the next hop, learns the link metrics the header carries, and writes the metrics of the link it came over (`set_link`). BPQuerier then appends an empty slot (`add_link`). BPQuerier also decides when to send a route query. |
| BPMetricFlood | `bpmetricflood.cc` | Floods route queries and the link metrics they carry into the LinkTables. |
| PriorityQueue, WifiQoSEncap, *2OML, CheckIPAddrColors | `others/`, `bp/`, `models/` | Auxiliary elements: a paint-indexed queue, header encapsulation, telemetry and a classifier. |

The DataQueues handlers:
- `push` on port 0 enqueues a packet, or drops it when the queue is full, and wakes the empty notifier.
- `run_timer`, through `do_periodically`:
  - chooses the best `<<flow, neighbor>>` with `next_pull_queue` and `get_best_neighbor`;
  - ages every queue;
  - takes the back of the chosen queue as the *guard* packet.
- `pull` serves the chosen queue until the guard is served. After `SLEEPINESS_TRIGGER` (9) empty pulls it puts the consumer to sleep.

Click runs all the handlers of a router on one thread. Push, pull, the timer and
a probe's `simple_action` therefore never overlap. What can vary is the order in
which they happen. Each handler is modelled as one atomic action, and the model
checker explores every order.

## 2. Modules

| Module | Models | Kind |
|---|---|---|
| `DataQueue` | `DataQueue` of `dataqueue.hh`, as operators on a record `[q, qi, qp, drops, hw]` | operators (no variables) |
| `BPScore` | the score of `get_best_neighbor` in wrapping `uint32_t` arithmetic (`MulU` by recursive doubling) | pure operators |
| `BPData` | `_NFB` as variables `known`, `nfb`; actions `ReceiveProbe` (BPStat::simple_action) and `WriteInfo` (the `info` handler) | component |
| `DataQueues` | the unicast scheduler, composing `DataQueue`, `BPData` (`BP!`) and `BPScore` (`Score!`) | component |
| `MCDataQueues` | a node with neighbors `n1`, `n2` and flows to `d` (via `n1`) and to `n2` | MC |
| `BPStat` | the probe exchange: `run_timer`/`send_probe` of each neighbor, a lossy FIFO link per neighbor, and `simple_action` into the receiver's BPData | component (senders and one receiver) |
| `MCBPData` | BPStat with one neighbor and two flows, plus two history variables, `pinned` and `reported` | MC |
| `MCBPScore` | the score over a fixed set of inputs, compared with a saturating reference | pure-algorithm check |
| `DataQueuesMulticast` | `DataQueuesMulticast` under MMT and PLAIN: sub-queues `sq[<<flow, next hop>>]`, `next_pull_queue`'s weighted difference, the multicast aging loop, and the inherited `pull` | component |
| `MCDataQueuesMulticast` | one flow `f1` with next hops `m1` (weight 1) and `m2` (weight 2) | MC |
| `PriorityQueue` | the `PriorityQueue` element: short and long FIFOs, paint goals, round-robin pull | component |
| `MCPriorityQueue` | two paints, one with no goal | MC |
| `BPMetricFlood` | the route-query flood of `bpmetricflood.cc` on a fixed mesh: per-node `_seen`, LinkTable and `_seq`, broadcasts in the air, the per-query timer | component (several nodes) |
| `MCBPMetricFlood` | four nodes: source `nS`, relays `nA`, `nB`, destination `nD`; an asymmetric `nA`-`nB` link | MC |
| `BPDataPath` | BPQuerier, BPForwarder and the header stamping of `DataQueues::pull`, on a fixed mesh: per-node LinkTable, ARPTable, `_queries` entry and queue, frames on the air | component (several nodes) |
| `MCBPDataPath` | the mesh of `MCBPMetricFlood`, source `nS`, destination `nD` | MC |
| `BPScheduler` | the abstract scheduler: per-flow FIFOs, a decision that may drop a prefix of any queue and grants the selected flow a budget, service of at most that budget | abstract spec |

How the `DataQueues` state and actions correspond to the code:
- **State.**
  - `created` holds the keys of `_FQ`, and `dq[f]` is f's queue.
  - `pullQ`, `pullNeig`, `guard` and `lockPull` are `_pull_q`, `_pull_neig`, `_guard_packet` and `_lock_pull`.
  - `sleepiness` is `_sleepiness`. `awake` is the signal of `_empty_note`.
  - Packets are records `[id, cls]`.
  - `decided` and `sentSinceTick` are history variables. They record the ids queued at the last decision and the ids pulled since then.
- **Actions.**
  - `Push` is `push` on port 0, including `get_related_queue`.
  - `AddFlow` is the `add_flow` handler.
  - `Tick` is all of `run_timer`: the decision, the aging loop, and the guard and lock.
  - `PullServe` and `PullEmpty` are the two outcomes of `pull`.
  - `Probe` is `simple_action`.
- **Nondeterminism.**
  - The iteration order of the HashMaps, and `rand()%2` on ties, make any of the tied flows or neighbors a possible decision (`Decisions`, `BestNeighbors`).
  - The rate shaper is a token that may or may not be there.
  - `back()` on an empty `_Q` (video mode) returns either NULL or a stale pointer (`GuardChoices`), but only once `_Q` has a buffer. With CAPACITY below 3 the constructor's `_Q.reserve(cap/3)` allocates none, so until a default-class packet has been pushed the call dereferences a null array and crashes; the model follows no run past that point (`NoBuffer`, and the `qused` field of a queue).
- **Constants.** The LinkTable is fixed: `LinkMetric`, `MyDistance` and `NextHop`. The settings `Capacity`, `Dmax`, `V`, `BLThr`, `Enhanced`, `Video` and `RateActive` are what `Configure` derives from a configuration string. `Configure` holds `configure`'s defaults (`DefaultKeywords`), its error returns, the MACLAYER choice, `V` defaulting to CAPACITY, and `_rate_active` set exactly when BWSHAPER is nonzero. An address or element keyword is modelled as whether it was given with a nonzero value of the right class.

How the `DataQueuesMulticast` state and actions correspond to the code:
- `sq[<<f, n>>]` is the `DataQueue` that `DataQueueMulticast::get_queue(n)` of flow `f` holds; `subs` are the sub-queues created so far, `created` and `dest` the flow queues of `_FQ` and their `_dest_queue` flag. Under PLAIN every packet maps to the one key `<<AnyFlow, AnyNeighbor>>` (`IPAddress()`, `EtherAddress()`).
- `Push0` is `push` on port 0 through `get_related_queue`; `Push1` is port 1, which only creates a destination flow queue. `Tick` is `do_periodically` (decision, aging unless PLAIN, guard). `PullServe`, `PullEmpty`, `Probe` are the inherited handlers; `pull` in MULTICAST mode has no next-hop test.
- Packets carry the rate annotation `WIFI_EXTRA_ANNO(p)->rate` from a small set; `Weight` is the `WEIGHTS` table.
- History variables: `decidedDiff` is `_metric` (the selected `max_diff`), `overflowed` the sub-queues that have dropped a packet at capacity.

How `BPStat` corresponds to the code. The receiver's table is BPData's
`known`/`nfb`. Each neighbor s is a sender:
- **State.** `fq[s][f]` is the size of s's queue of f, or `NoQueue` while s's `_FQ` has no key f. `metricFromMe[s][f]` is s's `get_host_metric_from_me(f._dst)`, where 0 means no route. `air[s]` holds s's probes on the link, oldest first. `faults` is a history variable.
- **Actions.**
  - `SendProbe` is `run_timer`. `Probe` is the batch list of `send_probe`: one batch per key of `_FQ`, with the queue size and `ProbeDistance`. The distance is 0 without ENHANCED, and ~0 (`Unreachable`, `2^Width - 1`) when the LinkTable gives 0.
  - `Receive` is the receiver's `simple_action` on the oldest probe of s.
  - `Pin` is the `info` write handler.
  - `LoseProbe` is the link losing a probe. A failed `Packet::make` looks the same.
  - `QueueChange` and `RouteChange` are the sender's DataQueues and LinkTable, as environment actions.
- **Left out.** The aggregate metric the probe also carries, which goes into `_NM`. The timer's ±10% jitter. The byte layout. Sender and receiver are assumed to share ENHANCED and LAYER.

How `BPDataPath` corresponds to the code:
- **State.**
  - A header is `[id, nodes, next, fwd, rev]`. `nodes[i]` is `link_node(i-1)`; `Zero` is `IPAddress(0)`. `fwd[i]` and `rev[i]` are the metrics of link `i-1`.
  - `table[n]` is n's LinkTable. Initially a node knows its own links.
  - `arp[n]` holds the neighbors n's ARPTable has an address for.
  - `queries[n]` is `_queries[Dst]`, reduced to the three tests `push` makes on it:
    - `routed`: `_best_metric` and `_p` are non-zero;
    - `expired`: `_last_switch + TIME_BEFORE_SWITCH < now`;
    - `waitOver`: `_last_query + 5 s < now`.
  - `queue[n]` stands for n's DataQueues, with the scheduler's choice of packet and neighbor left free.
  - `sent`, `delivered`, `queried` and `writes` are history variables.
- **Actions.**
  - `SourcePush` is `BPQuerier::push` on port 0, with `encap`.
  - `Pull` is the stamping part of `DataQueues::pull`, including the broadcast when ARP has no address.
  - `Forward` is `BPForwarder::push` on port 0, and on the forwarding branch also `BPQuerier::push` on port 1 and `add_link`.
  - `QueryHandler` and `Reset` are the `query` and `reset` write handlers.
  - `QueryWait` and `SwitchExpire` let 5 s or 10 s elapse. Userlevel `Timestamp::now()` is wall-clock time, so a new entry's zero timestamps are long past.
- **Left out.** `Learn` ignores the random-link fields: `encap` zeroes them and no element here sets them. The IP header annotation, checksums and byte layout are left out. The query goes out of port 1 and is recorded, not flooded.

How `PriorityQueue` corresponds to the code: `Q[i]` is `_Q_table[i]`, `pullQ` is `_pull_q` as an index (NUMBER is one past the end), and the other variables keep their member names. `Push`, `Feedback`, `Tick` and `Pull` are `push` on ports 0 and 1, `run_timer` and `pull`. `Target` is the queue-choosing loop of `push`; `ServedQueue` and `NextPullQ` the two loops of `pull`. `waited` is a history variable. `GoalTable` is `configure`'s parsing of `GOAL`: the string is taken as its comma-separated fields, each as the number `atoi` gives it; `GoalCursor` is one `find_left` with `index = index_nxt + 1`, which wraps to the first field after the last, and `ParseGoals` is the `do ... while`, storing each goal in the `uint8_t` table. `paintGoal` is `_paint_goal`, set by `PQInit` to `GoalTable(Goal)`; `MCPriorityQueue` configures GOAL `"0,0,1,50"`.

How `BPMetricFlood` corresponds to the code. The model is a whole mesh: `Nodes`
and `Edges` are the radio topology, and every node runs the element.
- **State.**
  - `seen[n]` is n's `_seen`, entries `[src, dst, seq, path, pending]`. `pending` is "`_p` set and not `_forwarded`".
  - `table[n]` is n's LinkTable as a map from directed link to metric, 0 for unknown. Initially a node knows the metrics of its own links, as its LinkStat probes would give them.
  - `seqNo[n]` is `_seq`.
  - `msgs` holds one record per receiver of each broadcast in the air.
  - `delivered`, `started` and `faults` are history variables.
- **Actions.**
  - `StartFlood` is `push` on port 1 (`start_flood`).
  - `ProcessFlood` is `push` on port 0 (`process_flood`). It learns links first (`LearnLinks`, where the reverse metric is read with `get_link_fwd` as in the code), then applies the loop check (`Rejected`), then records the entry, dropping the oldest at 100 (`Record`).
  - `ForwardQuery(n, k)` is the timer of entry k firing: `forward_query_hook`, then `forward_query` with `valid_route`.
  - `Clear` is the `clear` write handler.
  - `Lose` is the radio losing a copy.
- **Left out.** `_neighbors` is written but only read by `get_random_neighbor`, which nothing calls. The ARP insert and the debug handlers are also left out.

### Refinement

`DataQueues` refines `BPScheduler` (`SchedulerRefined == Sched!SSpec`) under
the mapping `queue <- dq[f].q`, `sel <- pullQ`, and `budget <- GuardPosition`,
the position of the guard packet in `_pull_q` while pull is unlocked (0 when
locked). Aging is a decision that drops a prefix; a push to a full queue is an
arrival that is not appended; probes, `add_flow` and empty pulls are stutters.
The abstract decision may drop any prefix, so a serve that empties the
selected queue can also be read as a decision that drops its last packet; the
refinement therefore pins down the order and the origin of what is served and
dropped more than the count. The mapping covers the default class only (VIDEO off): in video mode the guard
comes from `_Q` while `_QI` is served first, which is the `dataqueues_video`
finding.

Fairness:
- `WF_vars(Tick)`: the timer reschedules itself unconditionally.
- `WF_vars(Pull)`: the downstream element keeps pulling while the notifier is active.
- Push and Probe are inputs from outside and get no fairness.
- `PriorityQueue` assumes `WF(Pull)` for the same reason; no property of it is temporal, so the fairness only documents the intent.
- `BPStat` assumes `WF(SendProbe(s))`, since `run_timer` reschedules itself unconditionally, and `WF(Receive(s))`, since a probe on the link is received unless it is lost. Losses and `info` writes share the bound `MaxFaults` and are not fair, so they cannot go on forever.
- `BPMetricFlood` assumes weak fairness of reception (a copy in the air is eventually received or lost) and of each node's timers (`click_random(1, 1750)` ms after `process_flood`). Starting a flood, losing a copy and `clear` are not fair.

## 3. Runs

| Run | Expect | What it shows |
|---|---|---|
| `dataqueues` (`MCDataQueues.cfg`) | pass | `TypeOK`. `ServedOnlyDecided`: between two ticks pull serves only packets that were queued at the decision. `GuardHeld`: while pull is unlocked, the guard is still in the chosen queue. `SchedulerRefined`: DataQueues implements BPScheduler. 190k distinct states, about 1 minute. |
| `bpdata` (`MCBPData.cfg`) | pass | Probes built by `send_probe` cross a lossy link. `LatestBacklogKept`: every entry holds the last reported backlog, pinned or not. `RouteLossPropagates`: while a sender keeps a queue for f and has no route, the receiver's entry eventually carries ~0 or is pinned, whatever probes are lost. A pinned entry counts as an outcome because the spec keeps a pinned distance against probes; the property therefore holds whether or not the code's `static` reset (the `bpdata_pinned` finding) is fixed. Without the ~0 rule the entry would carry 0, and `get_best_neighbor`'s test `my_distance > neighbor_distance` would make the unrouted neighbor look closest. 160k states, 30 s. |
| `dataqueues_asleep` | violation | `ServableWakesConsumer`: ten empty pulls before any decision put the consumer to sleep. A probe then makes `n2` a candidate and the tick selects it. The queued packet is now servable, but nothing wakes the consumer. |
| `dataqueues_video` | violation | `ServedOnlyDecided`: two default-class packets are pushed and a tick makes the last of them the guard (`_Q.back()`); an I frame pushed after the decision is then served first, because `pop_front` takes `_QI` before `_Q`. No stale pointer is involved. |
| `bpdata_pinned` | violation | `PinnedDistanceKept`: pinned, then probe, then probe. The second probe overwrites the pinned distance, because the first re-inserted it with `static = false`. |
| `multicast` (`MCDataQueuesMulticast.cfg`) | pass | MMT. `TypeOK`; `ServedOnlyDecided`; `AgingOnlyAfterOverflow`: the aging loop kills packets only in a sub-queue that has overflowed, because sub-queues start with `V` drops. 248k states, about 1 minute. |
| `multicast_diff` | violation | `SelectedDiffNonNegative`: a push to `m2`, a probe reporting backlog 3, then a tick selects `<<f1, m2>>` with difference `2*1-3 = -1`. This is the shortest trace, which TLC reports with one worker; with two workers it may report a longer one that ends in the same selection. |
| `priorityqueue` (`MCPriorityQueue.cfg`) | pass | `PQTypeOK`. `BucketCountsLongQueue`: the per-paint counter that push raises and pull lowers equals the paint's packets in the long queue. `GoalListParsed`: `_paint_goal` after configure is what the configured GOAL "0,0,1,50" means, and for every GOAL list of up to 2 whole pairs over the numbers {0, 1, 50}, the parsed table gives each paint the goal of its last pair and every other paint 0. `RoundRobinBounded`: a non-empty queue waits for at most NUMBER-1 packets from the other queues. 157k states, about 80 s (the GOAL lists are re-checked in every state). |
| `priorityqueue_nogoal` | violation | `NoGoalAchieved`: with `SAMPLES 1`, one unsampled report and a tick make the sampled sum 0; every ratio is NaN and the paint with no goal is marked behind its goal. |
| `metricflood` (`MCBPMetricFlood.cfg`) | pass | `SeenPathsSimple`: every path a node records in `_seen` is loop-free, follows radio links, starts at the source and ends at the node. `AllPathsDiscovered`: a flood with no lost copy and no `clear` reaches its destination along every loop-free path, under every order of receptions and timers. The run allows one loss or `clear`. 22.7k states, about 20 s. |
| `datapath` (`MCBPDataPath.cfg`) | pass | Checks four invariants. `DPTypeOK`. `HeadersConsistent`: a queued packet's route is the walk it made from the source, ending at its holder, with an empty next slot. `LinkTablesTrue`: no LinkTable ever holds a wrong metric, although metrics travel from node to node in headers over an asymmetric link. `ReversePathKnown`: on delivery, the destination knows every link of the packet's route in both directions. The run includes loops and the ARP broadcast fallback. 23k states, about 50 s. |
| `bpscore_wrap` | violation | `ScoreSaturates`: backlog 50, distance 3000, link metric 100, CAPACITY 100. `(495000+3000)*9999 ≈ 4.98e9` is more than `2^32`, so the 32-bit score wraps. |

Each property of a passing run has a mutant in `PROJECT.json`. A mutant is a
plausible code change that TLC must catch:
- a push without the capacity test;
- a pull without the `_lock_pull` test;
- the guard taken before aging;
- a probe that skips static entries;
- a `send_probe` that reports an unrouted flow with distance 0 instead of ~0;
- aging that drops from the back of the queue (refinement);
- a multicast push without the capacity test, a multicast tick that leaves pull unlocked without a guard, and sub-queues created with no drops;
- a `process_flood` without the loop check, and one with the SRCR duplicate check that the code has commented out;
- a `set_link` that writes the forward metric in both directions, and one that writes no reverse metric; an `add_link` that does not advance `next`; an ARP insert of the wrong slot;
- a PriorityQueue push that ignores the short queues' capacity, a pull that tests the last queue instead of one past it for the paint counter, a pull that leaves `_pull_q` on the served queue, and a GOAL loop that reads only the first pair.

### Bounds

`MCDataQueues`:
- 2 flows and 2 neighbors. This is enough for a decision between flows and between neighbors of one flow, including a downhill neighbor against the shortest-path default.
- Capacity 2, so a full queue drops packets.
- `dmax` 1 and `V` left out, so `Configure` sets `V` to the capacity 2 and aging both adds and removes drops. The cfgs give only the VIDEO and BWSHAPER keywords; `MCDataQueues` passes the configuration string through `Configure`, the defaults and checks of `DataQueues::configure`, and takes every setting from its result.
- At most 4 packets. That is more than the capacity, so there is aging, a drop at capacity, and a push after the decision.
- One backlog value (1) and one distance (1500) in probes, which makes `d`'s neighbor `n1` downhill.
- No depth bound is set; the complete state graph has depth 27, deep enough for the ten-pull sleep.

The video runs use 3 packets, enough for a packet of each class.

`MCPriorityQueue`: NUMBER 3, PROPORTION 2 and CAPACITY 4 give two short queues of 1 and a long queue of 2, so both the short-queue overflow into the long queue and drops happen. Paint 0 has no goal and paint 1 a goal of 50%. SAMPLES 1 exercises both branches of the sampling counter. Up to 5 pushes and 4 reports.

`MCDataQueuesMulticast`: one flow and two next hops with different weights, capacity 2, `dmax` 2, `V` 2, rates `{0, 2}` (0 stands for "no rate", which the code reads as 1), a neighbor backlog of 3 and at most 3 packets: enough to overflow a sub-queue, to age it, and to reach a difference of -1. The listed runs use MMT. With `Policy = "PLAIN"` in the same cfg, `TypeOK` and `ServedOnlyDecided` also hold (21k states); that variant is not a listed run.

`MCBPMetricFlood`: four nodes and four links (`nS`-`nA`, `nS`-`nB`, `nA`-`nB`, `nB`-`nD`). The source has two loop-free paths to the destination, and each relay receives the flood along two paths, so a relay must keep and forward two copies of one query. One flood, at most one fault, and the code's `_seen` limit of 100. A fifth link (`nA`-`nD`) or a second flood multiplies the state space more than tenfold.

`MCBPData`: one neighbor with two flows, so that a probe carries several batches. Backlogs `{1, 2}`, LinkTable distances `{0, 10}`, pinned distances `{10, 20}`. One probe in flight. Up to two faults in total, lost probes and `info` writes together, which is enough for a pin followed by a loss. `Width` 30, as for BPScore. Two neighbors, or two probes in flight, give more than a million states. The neighbors' tables are independent, so a second neighbor adds only interleavings.

`MCBPDataPath`: the same mesh as `MCBPMetricFlood`, with one packet and routes of at most 4 slots. That allows the path `nS-nA-nB-nD` and loops back to an earlier node; on a loop the ARP entry learned on the way out makes the next pull unicast. Two packets or 5 slots take more than 2 minutes. The `query` and `reset` handlers are written at most once.

`BPScore` is checked at the real constants (999999, uint32 values up to 2^30). The inputs are chosen so that the product also overflows at 32 bits.

## 4. Findings

All six findings are in `PROJECT.json`:
- **Tick does not wake a sleeping consumer.** This is a gap in the spec's wake rule.
- **Video-mode guard is wrong.** It is taken from the wrong deque, and reading it from an empty deque is undefined. This is a code bug.
- **Pinned distance lasts one probe.** This is a code bug.
- **Score wraps instead of saturating.** This is a code bug.
- **Multicast selects a difference of -1.** `max_diff` starts at -1 with the comment "accepts only non-negative differences", but ties win on `rand()%2`. This diverges from the spec and the comment.
- **PriorityQueue marks every paint behind its goal** when bytes have been reported but none sampled (0/0 is NaN). This is a code bug.

## 5. Plan

Modules are added in this order:
1. **Core (done):** DataQueue, BPScore, BPData, DataQueues.
2. **Sleepiness history (retired).** The spec says `_sleepiness` resets on any push, but `push` only wakes the notifier. This is now a hazard with a note, not a run. `push` leaves the counter at 9, so the woken consumer sleeps again after its next empty pull; the next push wakes it again.
3. **Video capacity shares**, the `C/3` of the spec.
4. **`DataQueuesMulticast` for MMT and PLAIN (done).** MMU is not modelled (see below).
5. **Two-node composition.** The probe exchange is done (`BPStat`, with a lossy FIFO link). Still to do: two `DataQueues` instances fed by it; BPForwarder's hop is done (`BPDataPath`). This would check that backpressure moves packets downhill and that stale probes do not create loops.
6. **PriorityQueue (done).**
7. **An abstract scheduler (done).** `BPScheduler`, refined by `DataQueues`.
8. **BPMetricFlood (done). BPQuerier and BPForwarder (done, `BPDataPath`).** Connecting the query output to the flood would make one routing model, but the two state spaces multiply.

## 6. Not modelled

These parts are left out, with the reason for each:
- **Pure I/O, telemetry or header formatting:** WifiQoSEncap, RXStats2OML, Receiver2OML, CheckIPAddrColors, SNMP BER, the OML blocks and the header stamping of `pull`.
- **BPQueryResponder**, which has only a header in this repository. The scheduler models take the LinkTable as a constant. The routing models model only the LinkTable operations they call: overwriting updates, and `valid_route`/`best_route` as reachability.
- **Video aging order.** The aging loop drops with `pop_front`, which takes I frames first; `drop_front` is never called. An earlier run showed this. Its run was retired to make room for `datapath`, and it is kept as a hazard with a note.
- **Click packet internals.** These include the use of `p_in` after `push(20)` in `add_link`, and the unbounded growth of the route.
- **LinkTable's sequence-number rule.** BPMetricFlood's table overwrites on every update. The reverse-metric slip at `bpmetricflood.cc:285` is therefore modelled, but not claimed as a finding: whether LinkTable keeps the wrong value depends on sequence numbers outside this repository.
- **The crash in the `info` handler** when the entry does not exist yet.
- **The byte offset of the video classification.** The model takes the class as given.
- **MMU.** Its virtual queue `_Z` and the sub-queue `size()` under MMU are float expressions (`exp`, `log`) of `epsilon`, `vmax`, `zeta`, `theta` and `a`; TLC has no reals.
- **`DataQueueMulticast::drops()`**, which sums sizes, is read only by OML telemetry.
