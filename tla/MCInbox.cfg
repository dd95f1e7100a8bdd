SPECIFICATION MCSpec
CONSTANTS
  a = a
  b = b
  n = n
  s1 = s1
  j1 = j1
  j2 = j2
  w1 = w1
  w2 = w2
  a1 = a1
  a2 = a2
  Apps = {a1, a2}
  Accounts = {p1}
  Swept = {"provisional_accounts", "receiving_accounts", "application_content", "tip_claims"}
  Batch = 1
  Holdable <- MCHoldable
  User = u
  NoAccount = none
  Workers = {w1, w2}
  NoWorker = NoWorker
  SendLimit = 3
  RetryDelay = 60
  Lease = 30
  JobAttempts = 8
  LockDuration = 30
  MaxMailFaults = 1
  MaxCommits <- MCMaxCommits
  Items <- MCItems
  Intents <- MCIntents
  IntentOf <- MCSameIntent
  Ignored = {}
  Exact <- MCItems
  Scanners <- MCScanners
  Jobs <- MCJobs
  Reviewers = {}
  MaxAttempts = 2
  AttemptCap = 2
  MaxFaults = 0
  MaxChanges = 1
  MaxDecisions = 0
  NoProc = NoProc
  NoItem = NoItem
SYMMETRY Symm
INVARIANTS
  TransfersAgree
  NoticesAreRight
PROPERTIES
  SettledStaysSettled
  SePayGuardsAccept
  MailIsAccountedFor
  RetentionIsSafe
CHECK_DEADLOCK FALSE
