\* One stream, both roles: the peer sends every kind of frame, cut anywhere.
SPECIFICATION Spec
CONSTANTS
  Streams = {1}
  Window = 2
  MaxFrame = 2
  Roles = {"client", "server"}
  LocalSizes = {4}
  SendSizes = {3}
  PeerFrames <- AnyFrame
  Goaways = TRUE
  EventBound = 2
  OutBound = 1
  WindowBound = 2
INVARIANTS
  TypeOK
  CreditConserved
  PeerNeverStarved
  NoLostWakeup
  NoStrandedOutput
  NoStaleSignal
  NewStreamOnce
CHECK_DEADLOCK FALSE
