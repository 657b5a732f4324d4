SPECIFICATION Spec
CONSTANTS
  BUF_LEN = 3
  Depth = 1
  Numbers = 6
  Counts = {3}
  INT_MAX = 4
  Timeout = 2
  NewTimeouts = {2}
INVARIANTS TypeOK TxInOrder RxInOrder InterruptsArmed
