SPECIFICATION FairSpec
CONSTANTS
  Rate = 4
  Second = 2
  RunBudget = 4
  EntityBudget = 3
  Deadline = 2
  Attempts = 3
  Base = 1
  Ceiling = 1
  Cap = 2
  SlowdownEvery = 2
  RetryAfters = {2, 3}
  Word = 5
  MaxLatency = 1
  CleanupLimit = 5
  MaxDepth = 2
  MaxRefs = 2
  MaxCleanups = 1
INVARIANTS
  EveryAttemptCharged
  Paced
PROPERTIES
  PausesBounded
  RequestsEnd
CHECK_DEADLOCK FALSE
