CONSTANTS
  N = 6
  Days <- SmallDays
  PatientQuota = 2
  SalesQuota = 1
SPECIFICATION FairSpec
INVARIANTS QueueInOrder OneInChamber LeavesLast
PROPERTIES UrgentFirst NoIdleTime DayEnds
