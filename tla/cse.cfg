CONSTANTS
  MaxCommands = 3
  MaxSwaps = 3
SPECIFICATION FairSpec
INVARIANTS OneCommander ExecutedOnce
PROPERTY ExitEnds
