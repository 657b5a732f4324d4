SPECIFICATION FairSpec
CONSTANTS
  CounterSpace = 4
  max_width = 2
  max_height = 1
  Arguments <- MCArguments
INVARIANT CommandsTaken
PROPERTIES FrameShape Configured FramesEnd
