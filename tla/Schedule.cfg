SPECIFICATION RunningSpec
CONSTANTS
  Processes = {a, b}
  Week = 2
  Day = 2
  Settings <- TwoSettings
  MaxRequests = 3
  MaxTime = 1
INVARIANTS ScheduleNeverRunsDry PendingIsTheNextOccurrence SomebodyGoesOn
PROPERTY EveryTransactionEnds
CHECK_DEADLOCK FALSE
