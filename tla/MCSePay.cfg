SPECIFICATION MCSpec
CONSTANTS
  r1 = r1
  r2 = r2
  x = x
  y = y
  e1 = e1
  e2 = e2
  n = n
  s1 = s1
  d1 = d1
  w1 = w1
  w2 = w2
  NoProc = NoProc
  NoItem = NoItem
  a1 = a1
  Assets = {a1}
  Workers <- MCWorkers
  Variants = {master, thumb}
  MaxAttempts = 3
  JobAttempts = 3
  MaxStalls = 1
  Quota = 1
  Runs <- MCRuns
  Binders = {b1}
  Accounts <- MCAccounts
  MaxStarts = 2
  MaxTokens = 2
  MaxCommands = 1
  MaxFaults = 1
  NoRun = NoRun
  NoAccount = NoAccount
INVARIANTS
  MediaIsStored
PROPERTIES
  GrantsAreFenced
  StepsAreAccepted
  WorkResolves
CHECK_DEADLOCK FALSE
