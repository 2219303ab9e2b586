\* Two releases that an earlier version may have left and one with a Prime runtime of its
\* own; any operations on them in any order, with two faults among them.
SPECIFICATION Spec
CONSTANTS
  a = a
  b = b
  c = c
  p = p
  None = None
  Foreign = Foreign
  Release = {a, b, c}
  Legacy = {a, c}
  Managed = {b}
  Policy = {p}
  MaxFaults = 2
INVARIANTS TypeOK SuccessIsCoherent FailureIsUndone RollbackTargetIsPublished
PROPERTY CommitIsVerified
