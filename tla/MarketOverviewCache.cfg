SPECIFICATION FairSpec
CONSTANTS
  Grace = 1
  Instances = {i1, i2}
  Callers = {c1, c2}
  Rows <- SmallRows
  Lifetime = 2
  LeaseTime = 2
  RetryTime = 1
  Retries = 1
  MaxTime = 3
  MaxChanges = 1
  MaxFailures = 1
INVARIANTS ServedIsCurrent OneRefreshAtATime
PROPERTIES PublishedNeverGoesBack EveryCallerIsAnswered
CHECK_DEADLOCK FALSE
