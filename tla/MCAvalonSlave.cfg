SPECIFICATION Spec
CONSTANTS
  ByteBase = 2
  BURST_LENGTH <- MCBurst
  StartWrites <- MCStartWrites
  AddressBytes = {0, 1}
  LengthBytes = {0}
  StatusWrites <- MCStatusWrites
INVARIANTS TypeOK RingAligned
PROPERTY ImplementsRing
