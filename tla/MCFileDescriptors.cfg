SPECIFICATION Spec
CONSTANTS
  ALT_MAX_FD = 5
  Names <- MCNames
  Modes = {"O_RDONLY", "O_RDWR"}
  StdioUsed = {2}
  Handles = {1, 2}
  Sizes = {2}
  MaxPosition = 2
INVARIANTS TypeOK DescriptorsAccounted DescriptorsTrue PositionKnown StdioKept AnswersUpToRefusal
PROPERTY LockExclusive
CHECK_DEADLOCK FALSE
