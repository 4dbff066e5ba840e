\* Every wire of up to three frames, shorter than, exactly as long as and longer than the buffer.
SPECIFICATION FairSpec
CONSTANTS
  PrefaceSize = 3
  HeaderSize = 3
  BufferSize = 4
  MaxFrames = 3
  Lengths = {0, 1, 4, 5}
  Wires <- AllWires
INVARIANTS
  TypeOK
  Synchronised
  OnlyPartialFramesWait
PROPERTIES
  EverythingHandled
  ImplementsFrameReader
CHECK_DEADLOCK FALSE
