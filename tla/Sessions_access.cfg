\* Two accounts, two sessions, two requests, one fault.
SPECIFICATION AccessSpec
CONSTANTS
  u1 = u1
  u2 = u2
  s1 = s1
  s2 = s2
  User = {u1, u2}
  Admin = {u1, u2}
  Session = {s1, s2}
  Opened <- MCOpened
  MaxRequests = 2
  None = None
  MaxFaults = 1
  Caller = {r1}
  MaxHops = 1
  MaxTokens = 1
  RotationFaults = 0
CHECK_DEADLOCK FALSE
INVARIANT EndedIsRefused
INVARIANT AdminRemains
PROPERTY DisabledLosesAccess
