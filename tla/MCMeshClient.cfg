CONSTANTS
  Call = {c1, c2}
  Sock = {s1, s2}
  NoSock = NoSock
  Receiver = Receiver
  Stopper = Stopper
  Nobody = Nobody
SPECIFICATION FairSpec
CHECK_DEADLOCK FALSE
INVARIANTS TypeOK PendingOwned
PROPERTIES Implements ReceiverGoesOn
