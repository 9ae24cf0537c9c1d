SPECIFICATION ProcSpec
CONSTANTS
  Conns = {k1, k2, k3}
  MaxUpstreams = 2
INVARIANTS ActiveIsAccurate ValidatedMeansUsable KeyOwnerNeverSelfSigned FailedStartHadNoClients
PROPERTIES QueuedIsServed CtrlCExitsWhenIdle
CHECK_DEADLOCK FALSE
