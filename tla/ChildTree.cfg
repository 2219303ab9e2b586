\* One implementation child and two dependent ones, one of them at a time, and a
\* token pool that pays for three attempts: a second attempt of one child leaves
\* none for another.
SPECIFICATION FairSpec
CONSTANTS
  a1 = a1
  b1 = b1
  b2 = b2
  None = None
  Implementation = {a1}
  Dependent = {b1, b2}
  MaxChildren = 3
  MaxActive = 1
  MaxAttempts = 2
  PoolAttempts = 3
  WorkerMayDie = TRUE
INVARIANTS TypeOK WithinPolicy EndIsProven VerificationIsJoined DependentsSeeImplementation
PROPERTIES EndedAttemptIsFinal RootEnds
\* the root and its worker have ended
CHECK_DEADLOCK FALSE
