\* Chunks that one call takes, through a ring that holds one, and a host that ends
\* or closes; the stream is suspended and resumed at any time.
SPECIFICATION FairSpec
CONSTANTS
  Capacity = 2
  MaxChunk = 1
  MaxWrites = 2
PROPERTIES
  OpenKeepsRunning
  ExitsOnceDone
  RestIsWritten
CHECK_DEADLOCK FALSE
