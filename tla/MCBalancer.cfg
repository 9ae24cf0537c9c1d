SPECIFICATION Spec
CONSTANTS
  Callers = {c1, c2}
  N = 3
  CounterMod = 4
  OverflowChecks = TRUE
  None = None
INVARIANTS TypeOK NoSteadyUpstreamMissed
PROPERTIES RefinesPick EveryPickReturns
