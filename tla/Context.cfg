\* Two streams: coroutines of a client, handlers of a server.
SPECIFICATION FairSpec
CONSTANTS
  Streams = {1, 3}
  Window = 2
  MaxFrame = 2
  Roles = {"client", "server"}
  LocalSizes = {}
  SendSizes = {0, 3}
  BodySizes = {0, 3}
  PeerFrames <- AppPeer
  Goaways = FALSE
  EventBound = 2
  OutBound = 1
  WindowBound = 2
INVARIANTS
  AppTypeOK
  NoStuckBody
  CompletedIsWhole
  ResumedOnce
  EventsFindTheirStream
  StateMatchesWire
PROPERTIES
  EndsForgotten
  AwaiterResumed
CHECK_DEADLOCK FALSE
