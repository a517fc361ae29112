CONSTANTS
  Width = 30
  MaxDiffDistance = 999999
  Capacity = 100
  Enhanced = TRUE
  MyBacklogs = {50, 100}
  NeighborBacklogs = {0}
  MyDistances = {3000}
  NeighborDistances = {0, 1000}
  Etts = {100}

SPECIFICATION ScoreSpec
INVARIANT ScoreSaturates
