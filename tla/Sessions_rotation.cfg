\* Two requests to /auth/refresh at a time, up to four tokens, one fault.
SPECIFICATION RotationSpec
CONSTANTS
  u1 = u1
  u2 = u2
  s1 = s1
  s2 = s2
  User = {u1}
  Admin = {u1}
  Session = {s1}
  Opened <- MCOpened
  MaxRequests = 1
  None = None
  MaxFaults = 0
  Caller = {r1, r2}
  MaxHops = 1
  MaxTokens = 4
  RotationFaults = 1
CHECK_DEADLOCK FALSE
INVARIANT GrantedWhileLive
INVARIANT ChainReachesLiveToken
INVARIANT NoFalseReuse
INVARIANT RevokedIsPushed
