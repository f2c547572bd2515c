\* Small instances of the modules of the services, from the alerts of the API and what the
\* notification service makes of them to the audit log, the keys and the cluster.
SPECIFICATION FairSpec
CONSTANTS
  r1 = r1
  r2 = r2
  r3 = r3
  g = g
  c1 = c1
  c2 = c2
  c3 = c3
  p1 = p1
  p2 = p2
  q1 = q1
  q2 = q2
  u1 = u1
  u2 = u2
  a1 = a1
  l1 = l1
  l2 = l2
  l3 = l3
  d1 = d1
  d2 = d2
  f1 = f1
  f2 = f2
  f3 = f3
  m1 = m1
  m2 = m2
  t1 = t1
  t2 = t2
  s1 = s1
  s2 = s2
  None = None
  MaxFaults = 1
  Console = {c1}
  Press = {p1}
  Linked = {p1}
  Poller = {q1, q2}
  User = {u1, u2}
  Account = {a1}
  Link = {l1, l2, l3}
  For <- ForUser
  Login = {l1, l2, l3}
  Limit = 2
  Window = 2
  Block = 3
  MaxTime = 5
  OutboxEvents = 2
  Hashed = {2}
  Drainer = {d1, d2}
  MaxUnknown = 2
  OutboxFaults = 1
  Pair = {1, 2, 3}
  MaxCheckpoints = 3
  MaxSwaps = 4
  Writer = {d1}
  Reader = {q1}
  Asked = {0, 9}
  DefaultSize = 1
  MaxSize = 2
  MaxSeq = 4
  NamedEvents = 3
  Legacy = {1, 2}
  ByActor = {1}
  Admin = {u1, u2}
  Batch = 1
  ErasureFaults = 1
  Runner = {r1, r2, r3}
  Reverting = {r3}
  Versions = 3
  MigrationFaults = 2
  Script = {"services", "edge", "mesh"}
  Leaf = {u1, u2}
  Chowned = {u1}
  Only = u2
  MaxKeys = 5
  CertificateFaults = 2
  Control = m1
  Worker = m2
  Registry = r1
  ClusterFaults = 1
  Alert = {a1}
  Group = {}
  Call = {c1, c2}
  Tasker = {w1, w2}
  Chat = {t1, t2, u1}
  Unset = u1
  Migrated = TRUE
  MaxAsks = 2
  MaxMoves = 1
  IntakeFaults = 1
  Service = {"api", "auth", "audit", "notification", "ai", "camera"}
  LifeFaults = 1
  Client = {c1, c2}
  Burst <- BurstOf
  Period <- PeriodOf
  Second = 2
  GuardTime = 4
CHECK_DEADLOCK FALSE
INVARIANT AlertIsAccounted
INVARIANT CopiesAreTrue
INVARIANT MessageShowsDecision
INVARIANT PressedOnce
INVARIANT EntryIsGuarded
INVARIANT AuditIsTrue
INVARIANT ServersKeepOrder
INVARIANT RerunsConverge
INVARIANT NoticesArriveOnce
PROPERTY PressIsAnswered
