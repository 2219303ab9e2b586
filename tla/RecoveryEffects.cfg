SPECIFICATION Spec
CONSTANTS
  c1 = c1
  c2 = c2
  Client = {c1, c2}
  NGates = 2
  MaxAttempts = 3
  MaxFiles = 2
  LiveMayBeInterrupted = TRUE
  GitSurvives = TRUE
  GitMayBeCut = TRUE
  Editable = FALSE
SYMMETRY ClientSymmetry
INVARIANTS TypeOK GatesAfterQuiescence
PROPERTIES EffectsRefined
\* the job has ended, cannot be resumed, or its attempts are used up
CHECK_DEADLOCK FALSE
