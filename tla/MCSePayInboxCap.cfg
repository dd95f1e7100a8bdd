CONSTANTS
  a = a
  b = b
  n = n
  s1 = s1
  Items <- MCItems
  Intents <- MCIntents
  IntentOf <- MCSameIntent
  Ignored = {}
  Exact <- MCItems
  Scanners = {s1}
  Jobs = {}
  Reviewers = {}
  MaxAttempts = 1
  AttemptCap = 2
  MaxFaults = 0
  MaxChanges = 0
  MaxDecisions = 2
  NoProc = NoProc
  NoItem = NoItem
SPECIFICATION FairSpec
CHECK_DEADLOCK FALSE
PROPERTIES
  ReceiptsStayRecoverable
