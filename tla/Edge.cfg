\* Small instances of the modules at the edge: gates, cameras, policies, frames and shelves, the
\* console in the browser, and the statistics.
SPECIFICATION FairSpec
CONSTANTS
  a1 = a1
  k1 = k1
  None = None
  MaxFaults = 2
  Debounce = 2
  Depth = 2
  MaxSeq = 4
  Admin = {a1, a2}
  Replica = {k1, k2}
  MaxClock = 4
  MaxDepth = 2
  QueueDepth = 2
  MaxFrames = 4
  Tab = {t1, t2}
  Nav = {n1}
  MaxHops = 1
  MaxTokens = 3
  MaxLosses = 1
  MaxAttempts = 2
  MaxRefs = 2
  MaxTimers = 2
  MaxViewers = 2
  MaxFailures = 2
  MaxWire = 1
  MaxStrays = 1
  ViewFaults = 1
  Rest = 2
  Active = 1
  Period = 1
  Second = 2
  Backoff = 1
  BackoffMax = 2
  JoinTimeout = 2
  LensTime = 8
  MaxPlugs = 2
  Interval = 1
  Ttl = 2
  Samples = 2
  StatsTime = 4
  StatsFrames = 3
CHECK_DEADLOCK FALSE
INVARIANT AbsentIsTrue
INVARIANT NewestIsAnnounced
INVARIANT FramesAreAccounted
INVARIANT AlertsAreTrue
INVARIANT FeedIsDriven
INVARIANT ViewIsTrue
INVARIANT ConsoleStaysIn
PROPERTY NeverGoesBack
PROPERTY PolicyIsApplied
