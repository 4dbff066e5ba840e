\* Two streams of a client that share the connection window, which the peer opens and shrinks.
SPECIFICATION Spec
CONSTANTS
  Streams = {1, 3}
  Window = 2
  MaxFrame = 2
  Roles = {"client"}
  LocalSizes = {}
  SendSizes = {0, 3}
  PeerFrames <- SenderPeer
  Goaways = TRUE
  EventBound = 2
  OutBound = 1
  WindowBound = 2
INVARIANTS
  NoLostWakeup
PROPERTIES
  NeverOverruns
CHECK_DEADLOCK FALSE
