SPECIFICATION ServiceSpec
CONSTANTS
  Visits = {v1, v2}
  Clients = {c1, c2}
  Capacity = 2
  BatchSizes = {1, 2}
  MaxOrder = 4
SYMMETRY Symmetry
INVARIANTS OrdersUnique NumbersRiseWithTheLine ServersWaitInNoCircle
PROPERTIES NumberNeverChanges OnlyTheCalledAreServed ResolvedLineStaysEmpty
CHECK_DEADLOCK FALSE
