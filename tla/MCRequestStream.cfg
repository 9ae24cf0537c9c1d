SPECIFICATION StreamSpec
CONSTANTS
  CR = "CR"
  LF = "LF"
  Byte = {"x", "CR", "LF"}
  MaxLen = 7
  Cap = 6
  Streams <- AllStreams
INVARIANTS StreamTypeOK VerdictIsChunkIndependent OnlySharedReadIsLost
PROPERTY DecidedRequestIsAnswered
CHECK_DEADLOCK FALSE
