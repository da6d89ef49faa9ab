\* Stopping a poll from one thread as its events are dispatched on another.
SPECIFICATION FairSpec
CONSTANTS
  Capacity = 2
  MaxMessage = 1
  MaxSent = 1
  MaxStarts = 1
PROPERTIES
  StopIsFinal
CHECK_DEADLOCK FALSE
