CONSTANTS
  N = 3
  Graphs <- AllGraphs
SPECIFICATION FairSpec
INVARIANTS SortTypeOK BossSatisfied
PROPERTIES GrowsInOrder BossEnds
