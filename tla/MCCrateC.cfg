SPECIFICATION CrateSpec
CONSTANTS
  Conns = {c1}
  Upstreams = {0, 1}
  N = 2
  CounterMod = 2
  OverflowChecks = FALSE
  None = None
  Interval = 1
  ProbeTimeout = 1
  MaxSince = 3
  Modes = {"ok", "refusing"}
INVARIANTS ProxyErrorsAreRetrySafe WorkingUpstreamsNeverBlamed
PROPERTIES ImplementsConnection PicksAreFresh UnavailableIsEarned
