\* Ring buffers of two bytes, up to two at a time, and four bytes each way: a chunk
\* can fit in part, and more can follow.
CONSTANTS
  RING_BUF_SIZE = 2
  CHUNK = 2
  TX_SPACE = 2
  RX_FIFO_SIZE = 2
  MaxBytes = 4
SPECIFICATION FairSpec
INVARIANTS LinkedBeforeUse Bridge NoLostWakeup
PROPERTIES StreamSpec EventuallyForwarded
CHECK_DEADLOCK FALSE
