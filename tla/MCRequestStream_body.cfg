SPECIFICATION StreamSpec
CONSTANTS
  CR = "CR"
  LF = "LF"
  Byte = {"x", "CR", "LF"}
  MaxLen = 8
  Cap = 7
  Streams <- OneRequest
INVARIANT BodyIntact
CHECK_DEADLOCK FALSE
