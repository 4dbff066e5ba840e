\* Context, with streams whose remote side ended first.
SPECIFICATION FairSpec
CONSTANTS
  Streams = {1, 3}
  Window = 2
  MaxFrame = 2
  Roles = {"client", "server"}
  LocalSizes = {}
  SendSizes = {0, 3}
  BodySizes = {0, 3}
  PeerFrames <- AppPeer
  Goaways = FALSE
  EventBound = 2
  OutBound = 1
  WindowBound = 2
INVARIANTS
  ForgetsEnded
CHECK_DEADLOCK FALSE
