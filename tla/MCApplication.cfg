SPECIFICATION FairSpec
CONSTANTS
  ByteBase = 2
  BURST_LENGTH <- MCFrame
  FrameLength <- MCFrame
  BURSTCOUNT_LENGTH = 2
  ADDR_INCREMENT = 2
  MaxGiveUps = 2
  MaxInterrupts = 2
  LastFrame = 6
INVARIANTS LaterFramesKept ReadsAligned
PROPERTY PollsEnd
