SPECIFICATION WatchedSpec
CONSTANTS
  Clients = {c1}
  Handlers = {h1}
  NewSessions <- SmallSessions
  Grace = 1
  MinimumOpen = 1
  MaxHop = 3
  Minutes = {1}
  Extensions = {2}
  MaxTime = 4
  MaxCommands = 1
  MaxFailures = 1
INVARIANTS PendingIsPastGrace PendingDrawIsArmed
PROPERTIES AutomaticDrawIsDue MovesAsInMarketDay DueDrawHappens AutoCloseHeals
CHECK_DEADLOCK FALSE
