SPECIFICATION Spec
CONSTANTS
  Upstreams = {u1, u2}
  Interval = 2
  ProbeTimeout = 1
  MaxSince = 4
  Modes = {"ok", "split", "refusing", "hung", "dropping"}
INVARIANTS TypeOK FlagsFollow
PROPERTIES FlagsConverge VerdictsAreJustified
