SPECIFICATION Spec
CONSTANTS
  Conns = {c1}
  Slots = {s1, s2}
  Upstreams = {u1}
  None = None
PROPERTIES ErrorsAreEarned OnlyFailuresAndStallsHold AbandonedLinksEnd
