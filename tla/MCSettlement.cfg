SPECIFICATION MCSpec
CONSTANTS
  w1 = w1
  w2 = w2
  Scenes <- MCScenes
  Scanners = {w1, w2}
  Lead = 1
  MinNotice = 2
  Retention = 9
  Grace = 1
  Batch = 1
  Lengths = {2}
  LastStart = 1
  LastPause = 1
  Horizon = 4
  MaxScanFaults = 1
  Obligations = {1, 2}
  Amount = 2
  MaxCorrections = 1
INVARIANTS
  RefundCasesAgree
PROPERTIES
  RefundGuardsAccept
  RemindersAreCurrent
  DeadlinesMoveOn
CHECK_DEADLOCK FALSE
