SPECIFICATION MCSpec
CONSTANTS
  ReviewWindow = 2
  Allowance = 0
  Amount = 1
  Turnaround = 0
  Grace = 1
  RestoreFloor = 1
  ProposalResponse = 1
  MaxProposals = 1
  TriggerWindow = 0
  DisputeResponse = 1
  MaxExtension = 0
  Refunds <- MCRefunds
  Modes <- MCModes
  Bases <- MCBases
  PauseGrace = 2
  Horizon = 9
  MaxPauses = 3
INVARIANTS
  OutcomesAreSettled
  HistoryAgrees
PROPERTIES
  AgreementsAreKept
  PaidGuardsAccept
CHECK_DEADLOCK FALSE
