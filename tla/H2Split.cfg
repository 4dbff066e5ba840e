\* H2Link, when a read may cut the payload of a frame with END_STREAM.
SPECIFICATION FairSpec
CONSTANTS
  Streams = {1, 3}
  Window = 2
  MaxFrame = 2
  Bodies <- OneWay
  LocalSizes <- Raised
  SplitEnd = TRUE
INVARIANTS
  ClosedMeansComplete
CHECK_DEADLOCK FALSE
