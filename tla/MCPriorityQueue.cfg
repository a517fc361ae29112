CONSTANTS
  QueuesNumber = 3
  Proportion = 2
  Capacity = 4
  Paints = {0, 1}
  Goal <- MCGoal
  SamplesSkipped = 1
  PayloadLengths = {1}
  SampleInit = {0}
  MaxArrivals = 5
  MaxFeedback = 4
  GoalTokens = {0, 1, 50}
  MaxGoalPairs = 2

SPECIFICATION PQSpec
INVARIANT PQTypeOK
INVARIANT GoalListParsed
INVARIANT BucketCountsLongQueue
INVARIANT RoundRobinBounded
