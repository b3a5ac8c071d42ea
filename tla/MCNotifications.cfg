CONSTANTS
  Caller = {c1}
  Worker = {w1}
  Channels = 2
  Slots = 2
  MaxAttempts = 2
  Retained = 0
  MaxId = 3
  MaxFaults = 1
SPECIFICATION FairSpec
INVARIANTS TypeOK SlotsConserved HistoryTrue
PROPERTIES EveryRowFinishes
