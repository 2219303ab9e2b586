\* One job with all four kinds of content, two plans of it that are made and applied in
\* any order with crashes and failures between any two steps, one resume, and an owner
\* who edits files in the worktree and commits them at any time.
SPECIFICATION Spec
CONSTANTS
  j1 = j1
  None = None
  Job = {j1}
  NRuns = 2
  MaxRevision = 2
  MayBeCut = TRUE
INVARIANTS TypeOK ActiveJobIsWhole StartedRunKeepsItsJobs MissingIsBeingDeleted
PROPERTY DeletesWhatWasReviewed
\* every run may be completed
CHECK_DEADLOCK FALSE
