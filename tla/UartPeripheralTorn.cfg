\* The button is pressed while the string is being changed.
CONSTANTS
  RX_BUF_SIZE = 1
  MAX_STR_LEN = 2
  MaxRx = 0
  MaxSets = 1
  MaxTx = 1
SPECIFICATION Spec
INVARIANTS TransmitsWhole
CHECK_DEADLOCK FALSE
