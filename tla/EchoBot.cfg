\* Messages of two characters and a queue of one message: the third line is
\* typed while the first is printed and the second waits.
CONSTANTS
  MSG_SIZE = 3
  QUEUE_LEN = 1
  Input = {"a", "eol", "nul"}
  MaxTyped = 3
  MaxLines = 3
SPECIFICATION FairSpec
INVARIANTS EchoFaithful LineEndOnlyFirst
PROPERTIES EchoFifoSpec EventuallyEchoed
CHECK_DEADLOCK FALSE
