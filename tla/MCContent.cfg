SPECIFICATION MCSpec
CONSTANTS
  Scans = {s1, s2}
  Versions = {1, 2}
  Harmful = {2}
  Assets = {a1}
  ProfileAssets = {}
  ShowAssets = {a1}
  Workers = {w1}
  Variants = {display}
  MaxAttempts = 1
  JobAttempts = 1
  MaxStalls = 0
  Quota = 1
  Showcases = {sc1}
  Positions = {0}
  Handles = {h1, h2}
  MaxRevisions = 2
  Reports = {1}
  Guests = {guest}
  Actors = {user}
  Challenges = {c1}
  ActiveLimit = 1
  RequesterLimit = 2
  TargetLimit = 1
SYMMETRY ScanSymmetry
INVARIANTS
  PublishedPageResolves
  StoredBytesAreKept
PROPERTIES
  HeldContentStaysHidden
  ContentGuardsAccept
CHECK_DEADLOCK FALSE
