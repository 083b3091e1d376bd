\* Strings and fragments with a buffer of two bytes; a string of up to two
\* characters that is changed twice, with a button press at any point.
CONSTANTS
  RX_BUF_SIZE = 2
  MAX_STR_LEN = 2
  MaxRx = 5
  MaxSets = 2
  MaxTx = 1
SPECIFICATION Spec
INVARIANTS InBounds NothingLost TornTransmission
CHECK_DEADLOCK FALSE
