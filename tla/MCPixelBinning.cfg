SPECIFICATION Spec
CONSTANTS
  Msb = 4
  RedBlueStep = 4
  GreenStep = 2
INVARIANT GreenUpToCarry
