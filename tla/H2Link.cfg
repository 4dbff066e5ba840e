\* Two exchanges that share the connection windows: downloads and uploads.
SPECIFICATION FairSpec
CONSTANTS
  Streams = {1, 3}
  Window = 2
  MaxFrame = 2
  Bodies <- OneWay
  LocalSizes <- Raised
  SplitEnd = FALSE
INVARIANTS
  TypeOK
  WindowsAgree
  NoConnectionError
PROPERTIES
  ImplementsExchange
  ExchangesComplete
CHECK_DEADLOCK FALSE
