SPECIFICATION Spec
CONSTANTS
  ReviewWindow = 2
  Allowance = 1
  Amount = 2
  Turnaround = 1
  Grace = 2
  RestoreFloor = 2
  ProposalResponse = 1
  MaxProposals = 0
  TriggerWindow = 1
  DisputeResponse = 1
  MaxExtension = 4
  Refunds = {1}
  Modes = {"enabled", "disabled"}
PROPERTIES
  ExtensionOnlyExtends
