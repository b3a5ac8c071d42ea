CONSTANTS
  MaxVersion = 3
  Broken = {2}
  Mismatched = {3}
  RequireSigned = FALSE
  AllowDowngrade = FALSE
  Callers = {a1}
  Mishaps = 2
  Edit = {s1, s2}
  t1 = t1
  x = x
  Body = {t1, junk}
  Good = {t1}
  Partial = {junk}
  Secret = {x, y}
  FirstText <- MCFirstText
  Keep = 1
  MaxTime = 4
  d1 = d1
  Label = {d1, d2}
  Chunks = 2
  Batch = 1
  Buff = 1
  n1 = n1
  n2 = n2
  c1 = c1
  j1 = j1
  j2 = j2
  Holder = {n1, n2}
  Cert = {c1}
  FirstCerts <- MCFirst
  Request = {j1, j2}
  Kind <- MCKind
  Site <- MCSite
  Server = n1
  b1 = b1
  b2 = b2
  k1 = k1
  k2 = k2
  Tab = {b1, b2}
  Click = {k1, k2}
  Of <- MCOf
  Peer = {p1}
  m1 = m1
  m2 = m2
  Name = {m1, m2}
  Frozen = TRUE
  Enabled = TRUE
  Choices <- MCChoices
  MaxCalls = 2
  MaxMade = 3
  Method = {m1, m2}
  Methods <- MCMethods
  MaxFaults = 1
SPECIFICATION FairSpec
CHECK_DEADLOCK FALSE
INVARIANTS TypesOK ProgramsSafe ConfigSound HeldAsTold
PROPERTIES WorkEnds
