CONSTANTS
  a = a
  b = b
  c = c
  d = d
  k = k
  c1 = c1
  c2 = c2
  Node = {a, b, c}
  Client = {}
  Link <- ChainLink
  Via <- ChainVia
  Call = {c1, c2}
  Origin <- UpOrigin
  Dest <- UpDest
  Parent <- Nested
  NoNode = NoNode
  NoCall = NoCall
  Ttl = 4
  MaxChanges = 0
SPECIFICATION FairSpec
CHECK_DEADLOCK FALSE
PROPERTIES AnsweredWithoutFailures
