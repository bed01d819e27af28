CONSTANTS
  first = first
  second = second
  other = other
  Tabs <- TwoTabs
  Storing <- OneStores
  Views = {first, second, other}
  Tab <- TwoAndOne
  Sizes = {1, 2}
  Entered = {1}
  MaxSaves = 2
  MaxVersion = 2
  MaxMoves = 1
  MaxRequestFailures = 1
SPECIFICATION RetriedSpec
INVARIANTS OneSaveAtATime NoRetryIsRefused
PROPERTIES CorrectionsKnowWhatTheyChange RetriesAreConfirmed
CHECK_DEADLOCK FALSE
