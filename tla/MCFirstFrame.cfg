SPECIFICATION Spec
CONSTANTS
  ByteBase = 2
  BURST_LENGTH <- MCFrame
  FrameLength <- MCFrame
  BURSTCOUNT_LENGTH = 2
  ADDR_INCREMENT = 2
  MaxGiveUps = 1
  MaxInterrupts = 0
  LastFrame = 6
INVARIANT FirstFrameKept
