SPECIFICATION MCSpec
CONSTANTS
  MaxApps = 2
  MaxRevs = 2
  Owners = {o1}
  NoOwner = none
  MaxAccounts = 2
  MaxChallenges = 2
  Banks = {b1, b2}
  t1 = t1
  t2 = t2
  Txns <- MCTxns
  NoBank = nobank
  r1 = r1
  r1again = r1again
  r2 = r2
  r3 = r3
  ann = ann
  bob = bob
  k1 = k1
  k2 = k2
  Attempts <- MCAttempts
  Creators = {ann, bob}
  Changing = {ann}
  CommandOf <- MCCommandOf
  CreatorOf <- MCCreatorOf
  KeyOf <- MCKeyOf
  Fits <- MCFits
  openIpLimit = 1
  openCreatorLimit = 1
  MaxRevision = 2
  MaxAccount = 1
INVARIANTS
  RightsRestOnDeposits
  TipLimits
PROPERTIES
  TipsAreSound
  ScansEnd
CHECK_DEADLOCK FALSE
