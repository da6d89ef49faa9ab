\* A ring of three slots holds two messages, so that it fills up, drains and
\* wraps around with three, and a write is blocked.
SPECIFICATION FairSpec
CONSTANTS
  Capacity = 3
  MaxWrites = 3
INVARIANTS
  TypeOK
  Fifo
  EofIsLast
  NoLostWake
  NoUseAfterFree
  AsyncAlive
PROPERTIES
  InOrder
  EndsOnlyAdvance
  ImplementsPipe
  Delivered
  EofDelivered
  WriteResolved
  QueueReleased
CHECK_DEADLOCK FALSE
