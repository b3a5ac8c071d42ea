CONSTANTS
  a = a
  b = b
  c = c
  d = d
  k = k
  c1 = c1
  c2 = c2
  Node = {a, b, c, d, k}
  Client = {k}
  Link <- RingLink
  Via <- RingVia
  Call = {c1, c2}
  Origin <- BackOrigin
  Dest <- BackDest
  Parent <- Nested
  NoNode = NoNode
  NoCall = NoCall
  Ttl = 4
  MaxChanges = 2
SPECIFICATION TimedSpec
CHECK_DEADLOCK FALSE
INVARIANTS TypeOK CallsSound NothingKept
PROPERTIES ReaderFreed
