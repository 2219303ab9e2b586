SPECIFICATION FairSpec
CONSTANTS
  Client = {c1}
  NGates = 1
  MaxAttempts = 3
  MaxFiles = 3
  LiveMayBeInterrupted = FALSE
  GitSurvives = FALSE
  GitMayBeCut = FALSE
  Editable = TRUE
PROPERTIES ResumeEnds CommittedUnlessTouched
\* the job has ended, cannot be resumed, or its attempts are used up
CHECK_DEADLOCK FALSE
