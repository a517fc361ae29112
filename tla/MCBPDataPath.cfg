CONSTANTS
  nS = nS
  nA = nA
  nB = nB
  nD = nD
  Nodes <- MCNodes
  Edges <- MCEdges
  Metric <- MCMetric
  Src = nS
  Dst = nD
  Zero = Zero
  NoDstInfo = NoDstInfo
  MaxPackets = 1
  MaxHops = 4
  MaxWrites = 1

SPECIFICATION DSpec
INVARIANT DPTypeOK
INVARIANT HeadersConsistent
INVARIANT LinkTablesTrue
INVARIANT ReversePathKnown
CHECK_DEADLOCK FALSE
