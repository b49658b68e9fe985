CONSTANTS
  K = 2
  M = 2
  F = 1
  Strings <- StringsOne
  SleepOrders = FALSE
  LeftBehind = 1
  QueueCap = 2
  MaxAge = 5
SPECIFICATION Spec
INVARIANT FramesExclusive
