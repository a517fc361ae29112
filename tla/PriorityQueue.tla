--------------------------- MODULE PriorityQueue ---------------------------
(***************************************************************************)
(* The PriorityQueue element (src/others/priorityqueue.cc): NUMBER FIFOs,  *)
(* the first NUMBER-1 "short" ones of capacity _capacity_short and a last *)
(* "long" one with the rest of CAPACITY.  A packet whose paint has not     *)
(* reached its throughput goal takes the first short queue with room;     *)
(* every other packet takes the long queue.  pull serves the queues round  *)
(* robin from _pull_q.  Port 1 receives transmission feedback that counts *)
(* bytes per paint, and run_timer recomputes which paints have reached     *)
(* their goal from a sampled share of those bytes.                         *)
(***************************************************************************)
EXTENDS Naturals, Sequences, FiniteSetsExt, Functions

CONSTANTS
  QueuesNumber,     \* NUMBER
  Proportion,       \* PROPORTION
  Capacity,         \* CAPACITY
  Paints,           \* the paint annotations packets carry
  Goal,             \* GOAL: the fields of the string, <<>> when not given
  SamplesSkipped,   \* SAMPLES
  PayloadLengths,   \* p->length() minus the ether, IP and UDP headers
  SampleInit,       \* values _paint_samples_bytes may hold before any write
  MaxArrivals,      \* bound on packets pushed on port 0
  MaxFeedback,      \* bound on packets received on port 1
  GoalTokens,       \* the numbers a GOAL list may hold
  MaxGoalPairs      \* bound on the paint,goal pairs of a GOAL list

VARIABLES
  Q,                \* _Q_table: queue index -> packets, oldest first
  pullQ,            \* _pull_q as an index; QueuesNumber is one past the end
  drops,            \* _drops
  highwater,        \* _highwater
  paintBytes,       \* _paint_bytes
  samplesBytes,     \* _paint_samples_bytes
  samplesCounter,   \* _samples_counter
  achieved,         \* _paint_achieved
  bucket,           \* _paint_packets_bucket
  arrivals,         \* packets pushed on port 0 so far (the packet ids)
  feedbacks,        \* packets received on port 1 so far
  paintGoal,        \* _paint_goal: paint -> percentage
  waited            \* history: successful pulls from other queues while a queue waits

pqvars == <<Q, pullQ, drops, highwater, paintBytes, samplesBytes,
            samplesCounter, achieved, bucket, arrivals, feedbacks, paintGoal,
            waited>>

Queues == 0..QueuesNumber - 1
LongQueue == QueuesNumber - 1
ShortQueues == 0..QueuesNumber - 2

CapacityShort == Capacity \div (QueuesNumber - 1 + Proportion)
CapacityLong == Capacity - (QueuesNumber - 1) * CapacityShort
CapacityOf(i) == IF i = LongQueue THEN CapacityLong ELSE CapacityShort

Packets == [id : 1..MaxArrivals, paint : Paints]

(***************************************************************************)
(* configure's GOAL string "p1,g1,p2,g2,..." is taken as the sequence of   *)
(* its comma-separated fields, each as the value atoi gives it; <<>> is    *)
(* the default "no_goal".                                                  *)
(***************************************************************************)

(* find_left(",", index) then index = index_nxt + 1: the field after field *)
(* k, or the first field again when k is the last (index_nxt = -1 makes    *)
(* index 0).                                                               *)
GoalCursor(t, k) == IF k = Len(t) THEN 1 ELSE k + 1

(* Mutant of ParseGoals: only the first pair is read (an if for the       *)
(* do ... while).                                                          *)
ParseGoalsOnce(t, k, g) == [g EXCEPT ![t[k]] = t[GoalCursor(t, k)] % 256]

(* One pass of the do ... while from field k: the paint is field k, the    *)
(* goal the next field, stored in the uint8_t _paint_goal; the loop ends   *)
(* when the goal's find_left found no comma.                               *)
RECURSIVE ParseGoals(_, _, _)
ParseGoals(t, k, g) ==
  LET kg == GoalCursor(t, k)
      g2 == [g EXCEPT ![t[k]] = t[kg] % 256]
  IN  IF kg = Len(t) THEN g2 ELSE ParseGoals(t, GoalCursor(t, kg), g2)

(* _paint_goal after configure: zeroed, then the GOAL list's pairs.       *)
GoalTable(t) ==
  LET zero == [v \in Paints \cup Range(t) |-> 0]
  IN  IF t = <<>> THEN zero ELSE ParseGoals(t, 1, zero)

(* The packets of paint p in queue i.                                      *)
CountPaint(i, p) == Cardinality({k \in DOMAIN Q[i] : Q[i][k].paint = p})

PQInit ==
  /\ Q = [i \in Queues |-> <<>>]
  /\ pullQ = 0
  /\ drops = 0
  /\ highwater = [i \in Queues |-> 0]
  /\ paintBytes = [p \in Paints |-> 0]
  /\ samplesBytes \in [Paints -> SampleInit]
  /\ samplesCounter = SamplesSkipped
  /\ achieved = [p \in Paints |-> TRUE]
  /\ bucket = [p \in Paints |-> 0]
  /\ arrivals = 0
  /\ feedbacks = 0
  /\ paintGoal = GoalTable(Goal)
  /\ waited = [i \in Queues |-> 0]

(* Mutant of Target: the short queues' capacity test dropped.             *)
TargetIgnoringShortCapacity(p) ==
  IF ~achieved[p] /\ QueuesNumber > 1 THEN 0
  ELSE IF Len(Q[LongQueue]) # CapacityLong THEN LongQueue
  ELSE QueuesNumber

(* The queue push puts a packet of paint p in, or LongQueue + 1 for a     *)
(* drop: the first short queue with room when p is behind its goal, else  *)
(* the long queue when it has room.                                        *)
Target(p) ==
  LET shortRoom == {i \in ShortQueues : Len(Q[i]) # CapacityShort}
  IN  IF ~achieved[p] /\ shortRoom # {} THEN Min(shortRoom)
      ELSE IF Len(Q[LongQueue]) # CapacityLong THEN LongQueue
      ELSE QueuesNumber

(* push on port 0: enqueue at Target, raising the queue's highwater when  *)
(* the size before the push equals it and counting the paint when the     *)
(* packet goes to the long queue; a packet with no room is a drop.        *)
Push(p) ==
  LET t == Target(p)
      pkt == [id |-> arrivals + 1, paint |-> p]
  IN  /\ arrivals < MaxArrivals
      /\ arrivals' = arrivals + 1
      /\ IF t = QueuesNumber
         THEN /\ drops' = drops + 1
              /\ UNCHANGED <<Q, highwater, bucket>>
         ELSE /\ Q' = [Q EXCEPT ![t] = Append(@, pkt)]
              /\ highwater' = [highwater EXCEPT ![t] =
                                 IF Len(Q[t]) = @ THEN @ + 1 ELSE @]
              /\ bucket' = IF t = LongQueue
                           THEN [bucket EXCEPT ![p] = @ + 1] ELSE bucket
              /\ UNCHANGED drops
      /\ UNCHANGED <<pullQ, paintBytes, samplesBytes, samplesCounter,
                     achieved, feedbacks, paintGoal, waited>>

(* push on port 1: a transmission report.  Unless it failed, its payload  *)
(* is counted for its paint, and every (SAMPLES+1)-th one is also counted *)
(* in the samples.                                                         *)
Feedback(p, len, failed) ==
  /\ feedbacks < MaxFeedback
  /\ feedbacks' = feedbacks + 1
  /\ IF failed
     THEN UNCHANGED <<paintBytes, samplesBytes, samplesCounter>>
     ELSE /\ paintBytes' = [paintBytes EXCEPT ![p] = @ + len]
          /\ IF samplesCounter = 0
             THEN /\ samplesBytes' = [samplesBytes EXCEPT ![p] = @ + len]
                  /\ samplesCounter' = SamplesSkipped
             ELSE /\ samplesCounter' = samplesCounter - 1
                  /\ UNCHANGED samplesBytes
  /\ UNCHANGED <<Q, pullQ, drops, highwater, achieved, bucket, arrivals,
                 paintGoal, waited>>

(* Whether paint p has reached its goal: samples*100.0/sum >= goal.  With *)
(* no sampled bytes the double division is 0/0, a NaN, and the comparison *)
(* is false for every paint.                                               *)
Achieved(p) ==
  LET sampleSum == SumFunction(samplesBytes)
  IN  sampleSum # 0 /\ samplesBytes[p] * 100 >= paintGoal[p] * sampleSum

(* run_timer: once any byte has been reported, recompute _paint_achieved. *)
Tick ==
  /\ achieved' = IF SumFunction(paintBytes) # 0
                 THEN [p \in Paints |-> Achieved(p)] ELSE achieved
  /\ UNCHANGED <<Q, pullQ, drops, highwater, paintBytes, samplesBytes,
                 samplesCounter, bucket, arrivals, feedbacks, paintGoal,
                 waited>>

(* The queue pull serves: the first non-empty one from _pull_q to the     *)
(* end, else the first non-empty one before _pull_q.                       *)
ServedQueue ==
  LET nonEmpty == {i \in Queues : Q[i] # <<>>}
      ahead == {i \in nonEmpty : i >= pullQ}
  IN  IF ahead # {} THEN Min(ahead) ELSE Min(nonEmpty)

(* Mutant of NextPullQ: _pull_q left on the served queue.                  *)
NextPullQStaying(j) == j

(* _pull_q after serving queue j: the loop has moved q one past it.       *)
NextPullQ(j) == j + 1

(* Mutant of ServedFromLong: compared with the last queue instead of one *)
(* past it.                                                                *)
ServedFromLongOffByOne(j) == NextPullQ(j) = QueuesNumber - 1

(* pull found its packet in the long queue: q ended one past the table.   *)
ServedFromLong(j) == NextPullQ(j) = QueuesNumber

(* pull with a packet queued: pop the front of ServedQueue, move _pull_q  *)
(* past it, and uncount the paint when it was the long queue.  A pull     *)
(* with every queue empty returns NULL and changes nothing.                *)
Pull ==
  /\ \E i \in Queues : Q[i] # <<>>
  /\ LET j == ServedQueue
         pkt == Head(Q[j])
     IN  /\ Q' = [Q EXCEPT ![j] = Tail(@)]
         /\ pullQ' = NextPullQ(j)
         /\ bucket' = IF ServedFromLong(j)
                      THEN [bucket EXCEPT ![pkt.paint] = @ - 1] ELSE bucket
         /\ waited' = [i \in Queues |->
                         IF i # j /\ Q[i] # <<>> THEN waited[i] + 1 ELSE 0]
  /\ UNCHANGED <<drops, highwater, paintBytes, samplesBytes, samplesCounter,
                 achieved, arrivals, feedbacks, paintGoal>>

PQNext ==
  \/ \E p \in Paints : Push(p)
  \/ \E p \in Paints, len \in PayloadLengths, failed \in BOOLEAN :
       Feedback(p, len, failed)
  \/ Tick
  \/ Pull

PQSpec == PQInit /\ [][PQNext]_pqvars /\ WF_pqvars(Pull)

-----------------------------------------------------------------------------
PQTypeOK ==
  /\ Q \in [Queues -> Seq(Packets)]
  /\ \A i \in Queues : Len(Q[i]) <= CapacityOf(i)
  /\ pullQ \in 0..QueuesNumber
  /\ achieved \in [Paints -> BOOLEAN]
  /\ paintGoal \in [Paints \cup Range(Goal) -> 0..255]

(* _paint_packets_bucket[p], which push raises for the long queue and     *)
(* pull lowers when the served queue was the last, is the number of        *)
(* paint-p packets in the long queue, across every order of pushes and     *)
(* pulls and every position of _pull_q.                                    *)
BucketCountsLongQueue ==
  \A p \in Paints : bucket[p] = CountPaint(LongQueue, p)

(* pull's rotation of _pull_q is fair: a non-empty queue waits for at most *)
(* NUMBER-1 packets from other queues before one of its own is served.     *)
RoundRobinBounded ==
  \A i \in Queues : waited[i] <= QueuesNumber - 1

(* A paint with no goal (0%) is always achieved, so run_timer never sends *)
(* its packets to the short queues.                                        *)
NoGoalAchieved ==
  \A p \in Paints : paintGoal[p] = 0 => achieved[p]

(* The GOAL lists of whole pairs: paints and goals alternate.             *)
GoalLists ==
  UNION {[1..2 * n -> GoalTokens] : n \in 0..MaxGoalPairs}

(* The table GOAL means: each listed paint has the goal after its last    *)
(* occurrence in a paint position, every other paint 0.                    *)
GoalsMeant(t) ==
  [v \in Paints \cup Range(t) |->
     LET at == {i \in DOMAIN t : i % 2 = 1 /\ t[i] = v}
     IN  IF at = {} THEN 0 ELSE t[Max(at) + 1]]

(* configure's do ... while over the GOAL string, with its two find_left  *)
(* calls per pass and the wrap of index to 0 at the last field, leaves in  *)
(* _paint_goal, which run_timer reads for the whole run, exactly the       *)
(* paint -> goal table the configured GOAL means; and it does so for every *)
(* GOAL list of whole pairs.                                               *)
GoalListParsed ==
  /\ paintGoal = GoalsMeant(Goal)
  /\ \A t \in GoalLists : GoalTable(t) = GoalsMeant(t)
=============================================================================
