------------------------------ MODULE BPScore ------------------------------
(***************************************************************************)
(* The backpressure score of DataQueues::get_best_neighbor                 *)
(* (src/bp/dataqueues.cc), in the unsigned arithmetic the code uses.       *)
(*                                                                         *)
(* Every operand of the score is a uint32_t and every product is computed  *)
(* in 32 bits before it is widened to the uint64_t `temp`; the test        *)
(* `temp >> 32 ? ~0 : temp` is therefore always false and the score wraps  *)
(* modulo 2^32 instead of saturating.  Width is the width of uint32_t (32  *)
(* in the code); TLC integers stop at 2^31, so the models check it at 30   *)
(* or below, with MaxDiffDistance (the code's literal 999999) scaled with  *)
(* it where the width is smaller.                                          *)
(***************************************************************************)
EXTENDS Naturals

CONSTANTS
  Width,            \* bits of the unsigned integers (uint32_t: 32)
  MaxDiffDistance,  \* the literal 999999 of get_best_neighbor
  Capacity,         \* _capacity (CAPACITY)
  Enhanced          \* _enhanced (ENHANCED)

ASSUME Width \in 1..30 /\ MaxDiffDistance \in Nat \ {0} /\ Capacity \in Nat
ASSUME Enhanced \in BOOLEAN

Modulus == 2^Width

(* ~0 of an unsigned integer.                                              *)
MaxU == Modulus - 1

AddU(a, b) == (a + b) % Modulus

SubU(a, b) == (a - b) % Modulus

(* a * b modulo 2^Width, by doubling, so that no intermediate value leaves *)
(* 0..2^31-1 for Width <= 30.                                              *)
RECURSIVE MulU(_, _)
MulU(a, b) ==
  IF b = 0 THEN 0
  ELSE (((2 * MulU(a % Modulus, b \div 2)) % Modulus) + ((b % 2) * (a % Modulus))) % Modulus

(* max_diff_backlog, backlog_factor and distance_factor (lines 215-220).   *)
MaxDiffBacklog == AddU(Capacity, 1)

BacklogFactor ==
  IF Enhanced /\ MaxDiffBacklog < MaxDiffDistance
  THEN MaxDiffDistance \div MaxDiffBacklog ELSE 1

DistanceFactor ==
  CASE ~Enhanced -> 0
    [] MaxDiffBacklog > MaxDiffDistance -> MaxDiffBacklog \div MaxDiffDistance
    [] OTHER -> 1

(* The downhill test of line 236: my_backlog > neig_backlog + threshold    *)
(* (the sum wraps) and my_distance > neig_distance.                        *)
Downhill(myBacklog, myDistance, nBacklog, nDistance, threshold) ==
  /\ myBacklog > AddU(nBacklog, threshold)
  /\ myDistance > nDistance

(* bp_metric of a downhill neighbor (lines 237-243): every product wraps.  *)
Metric(myBacklog, myDistance, nBacklog, nDistance, ett) ==
  LET diffBacklog  == MulU(SubU(myBacklog, nBacklog), BacklogFactor)
      diffDistance == MulU(SubU(myDistance, nDistance), DistanceFactor)
  IN  MulU(AddU(diffBacklog, diffDistance), MaxDiffDistance \div ett)

(* bp_metric of one neighbor (lines 231-248).  info is the neighbor's      *)
(* report for the flow, or noInfo when it has none; ett is the link metric *)
(* from this node to it (0: not a link, the neighbor is skipped);          *)
(* onShortest says it is shortest[1], isDst that it is the destination.    *)
NeighborMetric(myBacklog, myDistance, info, noInfo, ett, onShortest, isDst, threshold) ==
  CASE ett = 0 -> 0
    [] info # noInfo ->
         IF Downhill(myBacklog, myDistance, info.backlog, info.distance, threshold)
         THEN Metric(myBacklog, myDistance, info.backlog, info.distance, ett)
         ELSE 0
    [] onShortest -> IF isDst THEN MaxU ELSE 1
    [] OTHER -> 0
=============================================================================
