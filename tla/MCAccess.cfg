SPECIFICATION MCSpec
CONSTANTS
  k1 = k1
  k2 = k2
  pk = pk
  r1 = r1
  g1 = g1
  Sids <- MCSids
  Slots <- PenaltySlots
  MaxCases = 3
  MaxPenalties = 2
  Packages = {pk}
  Messages = {}
  Briefs = {}
  Reporters = {r1}
  Guests = {g1}
  MaxHides = 2
  NoSid = NoSid
  MaxTx = 3
  MaxSessions = 2
  MaxAuths = 2
  MaxCommands = 1
  MaxLogouts = 1
  PendingLimit = 1
  MailClaims = {"a", "b", "taken", "unverified", "malformed"}
  MfaClaims = {"absent", "done", "unknown"}
INVARIANTS
  LoggedOutStaysOut
  TrustIsConsistent
PROPERTIES
  ConfirmedCommandIsBacked
  TriggersAccept
  AccessEnds
CHECK_DEADLOCK FALSE
