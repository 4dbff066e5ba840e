\* V1Engine, with a request that is answered before its body was sent.
SPECIFICATION Spec
CONSTANTS
  Streams = {1, 3}
  Roles = {"client", "server"}
  Requests <- AllRequests
  Responses <- AllResponses
  BodyMax = 1
INVARIANTS
  RequestsAreSerial
CHECK_DEADLOCK FALSE
