\* A task that saw the gate raised marks its intent BUFFERED after the drain.
SPECIFICATION FairSpec
CONSTANTS
  Intent = {a1}
  Unconfigured = {}
  Worker = {w1, w2}
  None = None
  MaxRetries = 1
  MaxRequeues = 1
  DrainBatch = 1
  MaxSends = 1
  MaxCopies = 1
  MaxPosts = 1
  MaxFaults = 0
  MaxOutages = 1
CHECK_DEADLOCK FALSE
PROPERTY ArrivesOrIsRecorded
