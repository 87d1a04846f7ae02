SPECIFICATION FeedSpec
CONSTANTS
  ana = ana
  bob = bob
  club = club
  r1 = r1
  r2 = r2
  NoReg = NoReg
  NoId = NoId
  Addresses <- MCAddresses
  PassTypes <- MCPassTypes
  Allowlist = {ana}
  RedirectTo = club
  Workers = {w1, w2}
  Ids = {r1, r2}
  Registrations <- ReturningFounder
  Limit <- AnyTwo
  Apple = FALSE
  Google = FALSE
  Deployed = {"live", "dry_run"}
  MaxCleared = 3
INVARIANT
  OneFounderOnRecord
PROPERTY
  EventuallyRecorded
