SPECIFICATION FairSpec
CONSTANTS
  ana = ana
  bob = bob
  anaTyped = anaTyped
  ANATyped = ANATyped
  bobTyped = bobTyped
  noneTyped = noneTyped
  order = order
  Blank = Blank
  NoCycle = NoCycle
  Emails <- MCEmails
  Address <- MCAddress
  Names = {ana, bob}
  Orders = {order}
  Cycles = {c1}
  Rows <- EveryKind
  MaxRows = 2
  Payloads <- Posts
  Limit <- Alone
  Decisions = {"sent", "skipped"}
INVARIANTS
  TypeOK
  ReportBalances
  UnknownRowsCounted
  NoRowLost
PROPERTIES
  GreenMeansRecorded
  RosterServed
