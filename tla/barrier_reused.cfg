CONSTANTS
  Threads = {t1, t2, t3, t4}
  Rounds = 3
SPECIFICATION FairBarrierSpec
INVARIANT BarrierTypeOK
PROPERTIES OpensForAll EverybodyPasses
