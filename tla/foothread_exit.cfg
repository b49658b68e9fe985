CONSTANTS
  N = 3
  Programs <- Uniform
  Paces <- SlowAndFast
SPECIFICATION FairSpec
INVARIANTS WorkCompleted LeaderJoinsAll RemovedAfterUse
PROPERTY Ends
