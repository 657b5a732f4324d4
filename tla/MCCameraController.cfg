SPECIFICATION ControllerSpec
CONSTANTS
  ByteBase = 4
  BURST_LENGTH <- MCBurstLength
  StatusWrites <- MCStatusWrites
  StartAddress <- MCStartAddress
  FrameLength <- MCFrameLength
  BURSTCOUNT_LENGTH = 2
  ADDR_INCREMENT = 8
  COLUMNS = 4
  ROWS = 8
  Threshold = 6
  NoSample <- MCNoSample
  FrameFrame = 1
  FrameLine = 0
  LineLine = 1
  LineFrame = 0
  Capacity = 8
  MaxTicks = 2
  MinStop = 6
INVARIANT NeverFull
PROPERTIES FrameIntegrity AddressHeld FrameRecorded
