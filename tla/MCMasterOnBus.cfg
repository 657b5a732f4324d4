SPECIFICATION FairSpec
CONSTANTS
  BURSTCOUNT_LENGTH = 3
  ADDR_INCREMENT = 4
  AddressSpace = 32
  Lengths = {0, 4, 6, 8, 12}
  FifoWords = 5
INVARIANTS BusTypeOK NoUnderflow BusInStep CounterInFrame
PROPERTIES DoneAfterWholeFrame FramesComplete
