CONSTANTS
  Nodes = {n1, n2, n3, n4}
  None = None
  Inputs = {1, 2}
SPECIFICATION FairSpec
INVARIANTS ChildrenFirst RootSum
PROPERTY SumEnds
