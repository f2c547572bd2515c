\* Two workers, as in production: every interleaving of two tasks on one alert,
\* and what the reconciler promises of lost work.
SPECIFICATION FairSpec
CONSTANTS
  Intent = {a1}
  Unconfigured = {}
  Worker = {w1, w2}
  None = None
  MaxRetries = 1
  MaxRequeues = 1
  DrainBatch = 1
  MaxSends = 2
  MaxCopies = 2
  MaxPosts = 2
  MaxFaults = 1
  MaxOutages = 1
CHECK_DEADLOCK FALSE
INVARIANT RequeueBound
INVARIANT SentWasPosted
INVARIANT FailedHasRetry
INVARIANT DeadHasLetter
PROPERTY TerminalNeverReopened
PROPERTY WaitingIsResolved
