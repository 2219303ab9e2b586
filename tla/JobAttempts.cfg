SPECIFICATION Spec
CONSTANTS
  j1 = j1
  j2 = j2
  l1 = l1
  l2 = l2
  l3 = l3
  c1 = c1
  c2 = c2
  None = None
  Job = {j1}
  Launch = {l1, l2, l3}
  Client = {c1}
  Cancellable = {}
  LauncherMayCrash = TRUE
  ProbeMayFail = FALSE
  TreeMaySurvive = FALSE
SYMMETRY Symmetry
INVARIANTS AttemptsAreNotForked WorkerRunsItsAttempt
\* every launch has been used and every job has ended
CHECK_DEADLOCK FALSE
