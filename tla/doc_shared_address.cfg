SPECIFICATION Spec
CONSTANTS
  ana = ana
  bob = bob
  anaTyped = anaTyped
  ANATyped = ANATyped
  bobTyped = bobTyped
  noneTyped = noneTyped
  order = order
  Blank = Blank
  NoCycle = NoCycle
  Emails <- MCEmails
  Address <- MCAddress
  Names = {ana, bob}
  Orders = {order}
  Cycles = {c1}
  Rows <- SharedInbox
  MaxRows = 2
  Payloads = {}
  Limit <- Calm
  Decisions = {"sent"}
PROPERTY
  SharedAddressCostsNothing
