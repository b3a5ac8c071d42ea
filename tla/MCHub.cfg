CONSTANTS
  q1 = q1
  q2 = q2
  q3 = q3
  q4 = q4
  Request = {q1, q2, q3, q4}
  Kind <- MCKind
  Slots = 2
  Workers = 1
  KeepJobs = 2
  ann = ann
  oscar = oscar
  NoUser = NoUser
  near = near
  Mix = {"http", "get"}
  Verb <- MCVerb
  User <- MCUser
  OperatorMay <- MCOperatorMay
  RoleOf <- MCRole
  Ip <- MCIp
  MaxFails = 2
  Writer <- MCWriter
  SaveFaults = 2
  Cycle = {k1, k2}
  t1 = t1
  t2 = t2
  Target = {t1, t2}
  Name = {t1, t2}
  Says <- MCSays
  Before <- MCBefore
  OfflineAfter = 2
  HealKinds = {"disk"}
  PerDay = 2
  MaxTick = 1
  MaxCycles = 3
  Loop = loop
  Runner = {loop, j1, j2}
  KeepBundles = 1
  MaxDay = 2
  MaxMade = 4
  Thread = {k1, k2}
  PoolSize = 1
  Retries = 2
  u1 = u1
  d1 = d1
  d2 = d2
  Test = {u1, d1, d2}
  Way <- MCWay
  MaxChunks = 2
  Ahead = 1
  Host = {h1, h2}
  Self = n0
  Peer = {n1}
  MaxPosts = 2
  MaxFaults = 1
SPECIFICATION FairSpec
CHECK_DEADLOCK FALSE
INVARIANTS TypesOK NothingLeaks Reported StateKept
PROPERTIES JobsEnd
