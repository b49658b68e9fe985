CONSTANTS
  K = 2
  M = 3
  F = 3
  Strings <- StringsThree
  SleepOrders = TRUE
  LeftBehind = 0
  QueueCap = 2
  MaxAge = 5
SPECIFICATION FairSpec
INVARIANTS TypeOK OneAtATime QuiescentAtReport
PROPERTIES ReplyToRequester VictimIsLeastRecent ServesPages Completes TurnComes
