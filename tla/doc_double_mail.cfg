SPECIFICATION Spec
CONSTANTS
  ana = ana
  bob = bob
  club = club
  r1 = r1
  r2 = r2
  NoReg = NoReg
  NoId = NoId
  Addresses <- MCAddresses
  PassTypes <- MCPassTypes
  Allowlist = {ana}
  RedirectTo = club
  Workers = {w1}
  Ids = {r1}
  Registrations <- OneSeason
  Limit <- SmtpOnly
  Apple = TRUE
  Google = FALSE
  Deployed = {"live"}
  MaxCleared = 3
INVARIANT
  NoDoubleMail
