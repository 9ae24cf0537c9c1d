SPECIFICATION CrateSpec
CONSTANTS
  Conns = {c1}
  Slots = {s1, s2}
  Upstreams = {0}
  N = 1
  CounterMod = 2
  OverflowChecks = FALSE
  None = None
  Interval = 1
  ProbeTimeout = 1
  MaxSince = 3
  Modes = {"ok", "refusing"}
PROPERTIES ImplementsHyperProxy ErrorsAreEarned PicksAreFresh UnavailableIsEarned
