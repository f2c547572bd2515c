\* A group of Alertmanager that fires, repeats and is resolved, with nothing that fails and the
\* natural key unique: whether the chat is told of its end.
SPECIFICATION FairSpec
CONSTANTS
  Alert = {}
  Group = {g1}
  Call = {c1}
  Worker = {w1}
  Chat = {k1}
  Unset = u
  Migrated = TRUE
  MaxAsks = 3
  MaxMoves = 0
  MaxFaults = 0
CHECK_DEADLOCK FALSE
PROPERTY ResolvedIsTold
