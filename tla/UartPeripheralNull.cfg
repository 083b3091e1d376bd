\* A string arrives while the callback is being registered.
CONSTANTS
  RX_BUF_SIZE = 2
  MAX_STR_LEN = 0
  MaxRx = 2
  MaxSets = 0
  MaxTx = 0
SPECIFICATION Spec
INVARIANTS UserDataPresent
CHECK_DEADLOCK FALSE
