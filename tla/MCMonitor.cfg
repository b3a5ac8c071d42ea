CONSTANTS
  t1 = t1
  t2 = t2
  a = a
  b = b
  Pusher = {t1, t2}
  AlertKind = {"quota"}
  Rate <- MCRate
  Timeout = 1
  PerDay = 2
  MaxTime = 3
  MaxAlert = 2
  Ip = {a}
  Port = {1, 2}
  Pid = {1}
  WatchedPort = {2}
  Threshold = 2
  Cutoff = 2
  Pause = 2
  KeepEvents = 3
  LookBack = 1
  MaxFresh = 6
  Scanner = {t1, t2}
  Mac = {a, b}
  Trusted = {b}
  MaxRefused = 2
  Caller = {t1, fan}
  Fan = fan
  Target = {a, b}
  MaxLoop = 2
  MaxPing = 5
  Gap = 2
  Flushes = 2
  Dump = 1
  MaxCount = 3
  Wrap = 1
  MaxIps = 1
  KeepIps = 1
  Host = {1, 2}
  MaxStart = 2
  Duty = {"backups", "works", "checks"}
  Task <- MCTask
  Every <- MCEvery
  Resource <- MCResource
  Stale <- MCStale
  Custom <- MCCustom
  Runner <- MCRunner
  Moments <- MCMoments
  MaxDuty <- MCMaxDuty
  Nic = {a}
  Reader = {t1, t2}
  Ticker = t1
  Period = 1
  Warn = 1
  Limit = 2
  CacheFor = 1
  Hour = 1
  MaxBytes = 2
  MaxWait = 1
  MaxTicks = 2
  View = {"trace", "security"}
  MaxOpens = 1
  MaxWorkers = 2
  Server = {1, 2}
  MaxHops = 2
  Item <- MCItem
  Bad = {1}
  Psutil = TRUE
  KeepFor = 1
  MaxAge = 1
  Use = {"training", "dialogs", "leaving"}
  Source <- MCSource
  Ai <- MCAi
  Dialogs <- MCDialogs
  MaxRaised <- MCMaxRaised
  MaxSample <- MCMaxSample
  MaxModel <- MCMaxModel
  Each = 2
  MaxTurn = 2
  MaxFailed = 1
SPECIFICATION MonitorFairSpec
CHECK_DEADLOCK FALSE
INVARIANTS TypesOK AlertsTold DutiesDone MeasuresTrue
PROPERTIES LoopsDo
