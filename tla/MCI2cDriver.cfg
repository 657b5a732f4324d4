SPECIFICATION FairSpec
CONSTANTS
  Bits = 2
  ResetDivisor = 1
  Divisors = {1, 2}
  Devices <- MCDevices
  Values <- MCValues
  Sent <- MCSent
  Sizes = {2}
INVARIANTS TypeOK CallHeard ResultTrue
PROPERTY CallsEnd
