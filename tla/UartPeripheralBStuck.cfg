\* The sizes of the Kconfig defaults, lines of at most 59 bytes.
CONSTANTS
  RX_BUF_SIZE = 64
  TX_BUF_WORDS = 16
  TX_BUFFERING_BUF_WORDS = 128
  TX_FIFO_SIZE = 64
  GUARD_TICKS = 1
  Input = {"x", "eol"}
  MaxLineLen = 59
  MaxLines = 1
SPECIFICATION FairSpec
PROPERTIES EventuallySent
CHECK_DEADLOCK FALSE
