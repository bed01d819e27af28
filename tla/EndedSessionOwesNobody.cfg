SPECIFICATION CallingSpec
CONSTANTS
  Visits = {v1, v2}
  Clients = {c1, c2}
  Capacity = 2
  BatchSizes = {1}
  MaxOrder = 2
SYMMETRY Symmetry
INVARIANTS EndedSessionOwesNobody
CHECK_DEADLOCK FALSE
