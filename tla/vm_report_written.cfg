CONSTANTS
  K = 2
  M = 2
  F = 2
  Strings <- StringsTwo
  SleepOrders = TRUE
  LeftBehind = 0
  QueueCap = 2
  MaxAge = 5
SPECIFICATION Spec
INVARIANT ReportStays
