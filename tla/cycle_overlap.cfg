SPECIFICATION Spec
CONSTANTS
  ana = ana
  bob = bob
  anaTyped = anaTyped
  ANATyped = ANATyped
  bobTyped = bobTyped
  noneTyped = noneTyped
  order = order
  Blank = Blank
  NoCycle = NoCycle
  Emails <- MCEmails
  Address <- MCAddress
  Names = {ana, bob}
  Orders = {order}
  Cycles = {c1, c2}
  Rows <- GoodAndBad
  MaxRows = 2
  Payloads = {}
  Limit <- Overlapping
  Decisions = {"sent"}
SYMMETRY TwoCycles
INVARIANTS
  OneLapseHeals
PROPERTY
  ImplementsClaimOwners
