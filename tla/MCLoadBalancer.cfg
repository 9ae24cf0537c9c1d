SPECIFICATION Spec
CONSTANTS
  k1 = k1
  k2 = k2
  v1 = v1
  v2 = v2
  Conns = {k1, k2}
  Values = {v1, v2}
  MaxHeaders = 2
  N = 2
  Width = 3
  MaxPicks = 5
  Requests <- MCRequests
INVARIANTS PicksAreEven UpstreamSeesOurs ClientFieldsArrive ErrorsAreRetrySafe
CHECK_DEADLOCK FALSE
