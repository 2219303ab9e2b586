\* Four processes, so that two of them may die with the lock and the guard while two
\* others reclaim. Six names are enough for every guard something still refers to.
SPECIFICATION FairSpec
CONSTANTS
  p1 = p1
  p2 = p2
  p3 = p3
  p4 = p4
  None = None
  Proc = {p1, p2, p3, p4}
  MaxGuards = 6
  SlowWriter = FALSE
  WriteMayFail = TRUE
PROPERTIES
  
  DeadLockIsReclaimed
