SPECIFICATION Spec
CONSTANTS
  Orders <- MCOrders
  Winter = 5
  Epoch = 2023
  LastYear = 2028
  MaxLine = 5
  PartLine = 4
INVARIANTS
  DayPassCoversNextDay
  SeasonLastsItsYear
  OneExpiry
  ButtonsWork
  NothingHidden
  SignedWhole
  BodyArrives
CHECK_DEADLOCK FALSE
