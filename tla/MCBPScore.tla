----------------------------- MODULE MCBPScore -----------------------------
(***************************************************************************)
(* The score of get_best_neighbor over a bounded set of inputs, compared   *)
(* with the score as it is meant to be computed: every product widened to  *)
(* 64 bits and clamped to ~0 when it does not fit (spec, "score ... *)
(* saturated to the maximum representable value on overflow").  The input  *)
(* is chosen once and never changes.                                       *)
(***************************************************************************)
EXTENDS BPScore

CONSTANTS MyBacklogs, NeighborBacklogs, MyDistances, NeighborDistances, Etts

VARIABLE in

(* a * b clamped to ~0, without forming a product beyond MaxU.             *)
SatMul(a, b) == IF b # 0 /\ a > MaxU \div b THEN MaxU ELSE a * b

SatAdd(a, b) == IF a + b > MaxU THEN MaxU ELSE a + b

(* The saturating reference score of a downhill neighbor.                  *)
SaturatedMetric(myBacklog, myDistance, nBacklog, nDistance, ett) ==
  SatMul(SatAdd(SatMul(myBacklog - nBacklog, BacklogFactor),
                SatMul(myDistance - nDistance, DistanceFactor)),
         MaxDiffDistance \div ett)

Inputs == [myBacklog : MyBacklogs, nBacklog : NeighborBacklogs,
           myDistance : MyDistances, nDistance : NeighborDistances, ett : Etts]

ScoreInit == in \in {i \in Inputs : Downhill(i.myBacklog, i.myDistance,
                                             i.nBacklog, i.nDistance, 0)}

ScoreSpec == ScoreInit /\ [][UNCHANGED in]_in

(* The score of a downhill neighbor saturates instead of wrapping, so a    *)
(* larger backlog or distance difference never yields a smaller score.     *)
ScoreSaturates ==
  Metric(in.myBacklog, in.myDistance, in.nBacklog, in.nDistance, in.ett)
    = SaturatedMetric(in.myBacklog, in.myDistance, in.nBacklog, in.nDistance, in.ett)
=============================================================================
