\* H2Send, with the streams whose flow state was erased at END_STREAM.
SPECIFICATION Spec
CONSTANTS
  Streams = {1, 3}
  Window = 2
  MaxFrame = 2
  Roles = {"client"}
  LocalSizes = {}
  SendSizes = {0, 3}
  PeerFrames <- SenderPeer
  Goaways = TRUE
  EventBound = 2
  OutBound = 1
  WindowBound = 2
PROPERTIES
  NeverOverrunsAnyStream
CHECK_DEADLOCK FALSE
