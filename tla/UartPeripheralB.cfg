\* A small device: items of 2 or 3 words, room for two of them.
CONSTANTS
  RX_BUF_SIZE = 3
  TX_BUF_WORDS = 3
  TX_BUFFERING_BUF_WORDS = 8
  TX_FIFO_SIZE = 12
  GUARD_TICKS = 2
  Input = {"O", "K", "eol"}
  MaxLineLen = 4
  MaxLines = 4
SPECIFICATION FairSpec
INVARIANTS TypeOK InitBeforeUse NoLostWakeup SentWhole 
PROPERTIES GuardRespected RelaySpec EventuallySent
CHECK_DEADLOCK FALSE
