CONSTANTS
  Inbound = {c1, c2}
  Connector = {k1}
  Configured = {k1}
  Greater = TRUE
  NoSock = NoSock
SPECIFICATION FairSpec
INVARIANTS TypeOK RegistriesSound
PROPERTIES DeadSocketLeaves
