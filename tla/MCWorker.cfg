SPECIFICATION MCSpec
CONSTANTS
  w1 = w1
  w2 = w2
  p1 = p1
  p2 = p2
  Events = {1, 2}
  Workers = {w1, w2}
  Procs = {p1, p2}
  BatchSize = 2
  MaxAttempts = 2
  MaxFaults = 3
  NoWorker = NoWorker
  NoProc = NoProc
  NoEvent = NoEvent
  Configurations = {{"media", "refund", "publicMedia"}, {"media", "files", "probe"}, {"media", "tip"},
                    {"media", "retention"}, {"media", "oidc"}, {"media", "commission"}}
  MaxAge = 2
  MaxStuck = 1
  MaxJobs = 1
INVARIANTS
  DeliveryIsSafe
  UsersCloseFirst
PROPERTIES
  LiveLeaseRespected
  WorkGoesOn
CHECK_DEADLOCK FALSE
