CONSTANTS
  Names = {"a", "b"}
  Blocks = {"A", "B"}
  Paths <- MCPaths
  Nodes <- MCNodes
  NOW = 2
  MaxKills = 2
SPECIFICATION Spec
INVARIANT Mirrors
PROPERTY SecondRunChangesNothing
