\* Two worklets, of which one may come first and the other last.
SPECIFICATION AndroidFairSpec
CONSTANT Worklets = {w1, w2}
CHECK_DEADLOCK FALSE
INVARIANTS
  TypeOK
  MemorySafe
  PlatformAlive
  RunningExact
  TeardownWaits
  AttachedAsEntered
  ReferencesHeld
PROPERTIES
  DestroyedGoes
  TeardownReturns
