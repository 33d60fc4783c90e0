SPECIFICATION FramingFairSpec
CONSTANTS
  Messages <- MCMessages
  MaxRun = 2
  Rewritten = {2}
  Backspace = 2
  Space = 1
  FrameBufSize = 1
  ChunkSize = 2
  MaxFrames = 2
  MaxCuts = 1
INVARIANTS FramingTypeOK OneFrameInOneOut
PROPERTY EventuallyReceived
CHECK_DEADLOCK FALSE
