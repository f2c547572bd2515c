\* The request that detects a reuse is the victim of a deadlock.
SPECIFICATION Spec
CONSTANTS
  Request = {r1, r2}
  MaxHops = 1
  MaxTokens = 4
  MaxFaults = 0
CHECK_DEADLOCK FALSE
INVARIANT ReuseEndsTheSession
