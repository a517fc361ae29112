CONSTANTS
  n1 = n1
  n2 = n2
  d = d
  NoFlow = NoFlow
  NoNeighbor = NoNeighbor
  NoInfo = NoInfo
  Neighbors <- MCNeighbors
  Flows <- MCFlows
  LinkMetric <- MCLinkMetric
  MyDistance <- MCMyDistance
  NextHop <- MCNextHop
  VideoKeyword = TRUE
  BWShaper = 1000000
  Capacity <- MCCapacity
  Dmax <- MCDmax
  V <- MCV
  BLThr <- MCBLThr
  Enhanced <- MCEnhanced
  Video <- MCVideo
  RateActive <- MCRateActive
  Backlogs = {1}
  Distances = {1500}
  Width = 30
  MaxDiffDistance = 999999
  MaxArrivals = 3

SPECIFICATION Spec
INVARIANT ServedOnlyDecided
