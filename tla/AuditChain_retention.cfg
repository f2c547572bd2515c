\* Appends, checkpoints, erasure, sealings of one or two events, and verifications of the whole
\* chain and of a range; one number may be lost to a rollback.
SPECIFICATION Spec
CONSTANTS
  Event = {e1, e2, e3}
  Personal = {e1, e2, e3}
  Server = {s1, s2}
  Operator = op
  None = None
  Backdate = 0
  Interval = 1
  Retention = 1
  MaxRows = 2
  MaxClock = 2
  Ranges = {0, 2}
  MaxSeq = 4
SYMMETRY Symmetric
CHECK_DEADLOCK FALSE
INVARIANT ChainLinked
INVARIANT CheckpointsBindTheChain
INVARIANT NoFalseAlarm
PROPERTY ImplementsLog
