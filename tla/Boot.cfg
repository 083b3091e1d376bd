\* Three messages of no, one or two bytes for items of one byte, in a queue of
\* one: empty, full and too long ones, and messages after an overflow.
CONSTANTS
  MSG_BODY_SIZE = 1
  QUEUE_LEN = 1
  MaxMessages = 3
SPECIFICATION Spec
INVARIANTS LoopbackNotLockedOut  WorkInOrder
PROPERTIES EveryItemRuns AppFifoSpec EventuallyPrinted
CHECK_DEADLOCK FALSE
