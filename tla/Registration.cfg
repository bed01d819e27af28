SPECIFICATION RegistrationSpec
CONSTANTS
  Visits = {v1, v2}
  Clients = {c1, c2, c3}
  Capacity = 1
  BatchSizes = {1}
  MaxOrder = 3
SYMMETRY Symmetry
INVARIANTS NobodyLeftRegistered
PROPERTIES PoolIsFrozen LineSpec
CHECK_DEADLOCK FALSE
