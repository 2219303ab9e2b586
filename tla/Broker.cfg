\* The root and two children with two requests that each may use, one after the other
\* or at the same time: enough for a request to race with another, with the revocation
\* of its lease and with close(), and for every limit to be the only one that refuses:
\* the root's concurrency, a child's one request, and the one slot all children share.
SPECIFICATION FairSpec
CONSTANTS
  root = root
  c1 = c1
  c2 = c2
  r1 = r1
  r2 = r2
  None = None
  Root = {root}
  Child = {c1, c2}
  Request = {r1, r2}
  ResponseId = {}
  Usage = {0, 1}
  MaxTokens = 1
  MaxRequests = 1
  MaxConcurrency = 1
  AggregateLimit = 1
  StoreMayFail = TRUE
INVARIANTS TypeOK UpstreamWithinLimits RevokedIsQuiet ObservedIsDurable
PROPERTIES TerminalLedgerIsFinal LeaseEnds
\* the job has ended
CHECK_DEADLOCK FALSE
