CONSTANTS
  nS = nS
  nA = nA
  nB = nB
  nD = nD
  Nodes <- MCNodes
  Edges <- MCEdges
  Metric <- MCMetric
  QueryPairs <- MCQueryPairs
  SeenCapacity = 100
  MaxQueries = 1
  MaxFaults = 1

SPECIFICATION FSpec
INVARIANT SeenPathsSimple
PROPERTY AllPathsDiscovered
CHECK_DEADLOCK FALSE
