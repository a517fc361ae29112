CONSTANTS
  Neighbors = {n1}
  Flows = {f1, f2}
  Backlogs = {1, 2}
  Distances = {10, 20}
  HostMetrics = {0, 10}
  Enhanced = TRUE
  NoInfo = NoInfo
  NoQueue = NoQueue
  Unpinned = Unpinned
  MaxInFlight = 1
  MaxFaults = 2
  Width = 30

SPECIFICATION MCSpec
INVARIANT LatestBacklogKept
PROPERTY RouteLossPropagates
