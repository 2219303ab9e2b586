SPECIFICATION FairSpec
CONSTANTS
  a1 = a1
  b1 = b1
  b2 = b2
  None = None
  Implementation = {a1}
  Dependent = {b1}
  MaxChildren = 2
  MaxActive = 1
  MaxAttempts = 2
  PoolAttempts = 3
  WorkerMayDie = TRUE
PROPERTIES DeadWorkerIsReconciled
\* the root and its worker have ended
CHECK_DEADLOCK FALSE
