\* A chunk that takes two calls, through a ring with room for both.
SPECIFICATION FairSpec
CONSTANTS
  Capacity = 4
  MaxChunk = 2
  MaxWrites = 1
PROPERTIES
  RestIsWritten
CHECK_DEADLOCK FALSE
