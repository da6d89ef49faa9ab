\* Suspended and resumed twice before the first resume is observed.
SPECIFICATION FairSpec
CONSTANTS
  MaxTasks = 3
  MaxResumes = 2
INVARIANTS
  LingersWithTask
CHECK_DEADLOCK FALSE
