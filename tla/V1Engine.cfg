\* Two requests, both roles: every framing, early answers, bad lines and hang-ups.
SPECIFICATION Spec
CONSTANTS
  Streams = {1, 3}
  Roles = {"client", "server"}
  Requests <- AllRequests
  Responses <- AllResponses
  BodyMax = 1
INVARIANTS
  TypeOK
  AnswersMatch
  OneRequestAtATime
  InOrderOnTheWire
PROPERTIES
  EventsInOrder
  SilentWhenDone
CHECK_DEADLOCK FALSE
