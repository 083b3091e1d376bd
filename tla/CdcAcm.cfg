\* A ring buffer that neither the chunks nor the bytes in flight divide evenly.
CONSTANTS
  RING_BUF_SIZE = 3
  CHUNK = 2
  TX_SPACE = 2
  RX_FIFO_SIZE = 2
  MaxBytes = 9
SPECIFICATION FairSpec
INVARIANTS Loopback NoLostWakeup OnePoller
PROPERTIES StreamSpec EventuallyEchoed EventuallyReady
