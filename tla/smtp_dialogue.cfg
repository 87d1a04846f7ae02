SPECIFICATION FairSpec
CONSTANTS
  s1 = s1
  s2 = s2
  club = club
  ana = ana
  bob = bob
  clubLogin = clubLogin
  otherLogin = otherLogin
  NoLogin = NoLogin
  Sends = {s1, s2}
  Addresses = {club, ana, bob}
  Envelopes <- MCEnvelopes
  Settings <- MCSettings
  Limit <- OneOfEach
INVARIANTS
  TypeOK
  CapturedAsSent
  OnlyWithLogin
PROPERTIES
  ImplementsHandover
  NothingAfterClose
  EverySendReturns
  CloseDrains
CHECK_DEADLOCK FALSE
