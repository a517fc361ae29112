CONSTANTS
  f1 = f1
  m1 = m1
  m2 = m2
  AnyFlow = AnyFlow
  AnyNeighbor = AnyNeighbor
  NoQueue = NoQueue
  NoInfo = NoInfo
  Flows <- MCFlows
  Neighbors <- MCNeighbors
  Weight <- MCWeight
  Policy = "MMT"
  Capacity = 2
  Dmax = 2
  V = 2
  Theta = 0
  Rates = {0, 2}
  Video = FALSE
  RateActive = TRUE
  Backlogs = {3}
  Distances = {1}
  Enhanced = TRUE
  MaxArrivals = 3

SPECIFICATION Spec



INVARIANT SelectedDiffNonNegative
