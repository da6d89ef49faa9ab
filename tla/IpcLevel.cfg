\* A callback that leaves what it was called for.
SPECIFICATION FairSpec
CONSTANTS
  Capacity = 2
  MaxMessage = 1
  MaxSent = 1
  MaxStarts = 1
PROPERTIES
  LevelTriggered
CHECK_DEADLOCK FALSE
