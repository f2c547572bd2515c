\* Two drains under fairness, an outbox that overflows, a fault and an outage.
SPECIFICATION FairSpec
CONSTANTS
  Event = {e1, e2, m1}
  Marker = {m1}
  Unsupported = {}
  Drainer = {d1, d2}
  None = None
  MaxPending = 1
  MaxUnknown = 1
  MaxDead = 2
  MaxFaults = 1
  MaxOutages = 1
CHECK_DEADLOCK FALSE
INVARIANT NothingIsLost
INVARIANT OneDrainPerEvent
INVARIANT DeadIsNotLogged
PROPERTY PendingIsSettled
