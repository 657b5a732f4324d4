SPECIFICATION FairSpec
CONSTANTS
  COLUMNS = 4
  Threshold = 1
  NoSample <- MCNoSample
  ROWS = 4
  FrameFrame = 1
  FrameLine = 0
  LineLine = 1
  LineFrame = 0
  MaxTicks = 2
  MinStop = 6
INVARIANTS TypeOK StreamInOrder CountersFollowSensor
PROPERTY CaptureResumes
