\* Three tasks: one to be ended by an idle, one begun after a resume, one that
\* replaces it; and two resumes that overlap, after which the third task is begun.
SPECIFICATION FairSpec
CONSTANTS
  MaxTasks = 3
  MaxResumes = 2
INVARIANTS
  NoTaskLost
  NoTaskAfterExit
  LingersUnderTask
  ResumingIsPending
PROPERTIES
  TasksEnd
CHECK_DEADLOCK FALSE
