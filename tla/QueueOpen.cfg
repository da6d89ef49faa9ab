SPECIFICATION FairSpec
CONSTANTS
  Capacity = 2
  MaxWrites = 1
CHECK_DEADLOCK FALSE
PROPERTY CreateFailsOnceTerminated
