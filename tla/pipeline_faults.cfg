SPECIFICATION Spec
CONSTANTS
  ana = ana
  bob = bob
  club = club
  r1 = r1
  r2 = r2
  NoReg = NoReg
  NoId = NoId
  Addresses <- MCAddresses
  PassTypes <- MCPassTypes
  Allowlist = {ana}
  RedirectTo = club
  Workers = {w1, w2}
  Ids = {r1}
  Registrations <- SharedId
  Limit <- AnyThree
  Apple = TRUE
  Google = FALSE
  Deployed = {"allowlist", "dry_run"}
  MaxCleared = 3
SYMMETRY TwoWorkers
INVARIANTS
  TypeOK
  OneMailPerClaim
  WinnerOwnsRow
  SentMeansMailed
  SuppressedStaysSuppressed
PROPERTIES
  DeadLinkStaysDead
  RecordedStable
  ImplementsDeliveryOnce
  ImplementsClaimOwners
CHECK_DEADLOCK FALSE
