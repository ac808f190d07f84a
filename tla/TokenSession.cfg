SPECIFICATION FairSpec
CONSTANTS
  Reader = {r1, r2}
  Page = {}
  Call = {c}
  NoCookie = NoCookie
  Life = 2
  Skew = 1
  MaxDelay = 1
  Rotates = TRUE
  ReportsExpiry = TRUE
  RolesIn = {"id"}
  Leeway = 0
  MaxTime = 3
  MaxGrant = 2
INVARIANTS
  TypeOK
  RotationKept
  RolesShown
PROPERTIES
  NeverReturnsExpired
  UnauthorizedHeals
