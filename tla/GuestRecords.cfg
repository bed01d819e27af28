SPECIFICATION Spec
CONSTANTS
  Guests = {g1, g2}
  Phones = {p1, p2}
  Workers = {w1}
  ClaimLifetime = 1
  WorkerWindow = 0
  MaxTime = 1
  MaxTokens = 5
  MaxFailures = 1
SYMMETRY Symmetry
INVARIANTS PhoneFollowsItsVisit
PROPERTIES OnlyManagersTakeRecords
CHECK_DEADLOCK FALSE
