\* Two worklets extract the same two resources, or one that is missing, before and
\* after an update.
SPECIFICATION FairSpec
CONSTANTS
  Worklets = {w1, w2}
  Keys = {k1, k2}
  Listing = listing
  MaxVersion = 2
INVARIANTS
  ListingVouches
PROPERTIES
  FilesStay
  RunsExtracted
  StartEnds
CHECK_DEADLOCK FALSE
