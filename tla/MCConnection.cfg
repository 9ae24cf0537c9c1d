SPECIFICATION Spec
CONSTANTS
  Conns = {c1}
  Upstreams = {u1, u2}
  None = None
INVARIANTS ProxyErrorsAreRetrySafe WorkingUpstreamsNeverBlamed
PROPERTIES DeadBackendIsAvoided RequestsEnd
