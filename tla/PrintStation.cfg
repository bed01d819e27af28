\* Two tags, a lifetime of two ticks, and two requests lost or pages crashed.
CONSTANTS
  Tags <- TwoTags
  Lifetime = 2
  Timeout = 1
  MaxTime = 2
  MaxStationFailures = 2
SPECIFICATION OpenSpec
INVARIANTS NothingIsLost TwiceOnlyWhenExcused
PROPERTIES EveryTagIsDealtWith
CHECK_DEADLOCK FALSE
