CONSTANTS
  r1 = r1
  Router = {r1}
  OtherKey = {}
  AlertDevice <- SameDevice
  NoDevice = NoDevice
  Manual = Manual
  Webhook = {w1}
  MaxIncident = 2
  MaxFailures = 3
  MaxFaults = 1
  MaxBatch = 2
SPECIFICATION FairSpec
INVARIANTS TypeOK OneActivePerKey Announced
PROPERTIES LifeCycle ReportedAndCleared
