SPECIFICATION SweepSpec
CONSTANTS
  Apps = {a1}
  Accounts = {p1}
  Swept = {"receiving_accounts", "application_content"}
  Batch = 1
  User = u
  Holdable = {}
  NoAccount = none
PROPERTIES
  FailedBatchCanResume
CHECK_DEADLOCK FALSE
