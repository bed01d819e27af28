SPECIFICATION EitherKindSpec
CONSTANTS
  Announcements = {a1}
  Calls = {c1}
  Deliverers = {p1, p2}
  Dispatches = {e1}
  BatchSize = 1
  MaxRetries = 1
  MaxAttempts = 2
  Lease = 0
  MaxAsked = 2
  MaxFailures = 2
  MaxTime = 1
INVARIANTS NobodyIsForgotten NoMoreCopiesThanAsked
PROPERTIES DispatchSettles
CHECK_DEADLOCK FALSE
