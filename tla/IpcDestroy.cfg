\* Destroying a poll and an ipc, from the host's thread or from a callback, on a
\* signal thread or on a dispatch queue.
SPECIFICATION PlatformSpec
CONSTANTS
  Capacity = 2
  MaxMessage = 1
  MaxSent = 0
  MaxStarts = 1
INVARIANTS
  HandlerOutlived
PROPERTIES
  DestroyReturns
  SignalFreed
CHECK_DEADLOCK FALSE
