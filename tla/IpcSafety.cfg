\* The memory, the polls and the bytes of an ipc: two messages of one byte, or one
\* of two that is read in part, through a ring that holds one message; or a poll
\* that is started anew, from its callback or as it is stopped.
SPECIFICATION Spec
CONSTANTS
  Capacity = 2
  MaxMessage = 2
  MaxSent = 2
  MaxStarts = 2
CONSTRAINT Bounded
INVARIANTS
  MemorySafe
  BytesInOrder
  PollNotLost
CHECK_DEADLOCK FALSE
