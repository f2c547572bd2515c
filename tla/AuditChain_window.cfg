\* A candidate whose range holds a row its window does not.
SPECIFICATION Spec
CONSTANTS
  Event = {e1, e2, e3, e4}
  Personal = {}
  Server = {s1, s2}
  Operator = op
  None = None
  Backdate = 0
  Interval = 1
  Retention = 1
  MaxRows = 2
  MaxClock = 2
  Ranges = {}
  MaxSeq = 4
SYMMETRY Symmetric
CHECK_DEADLOCK FALSE
INVARIANT CandidateCoversItsRange
