SPECIFICATION FairSpec
CONSTANTS
  Envs <- EveryEnv
  Shipped = {0, 1, 2, 3}
  MaxRequests = 2
  Limit <- Troubled
INVARIANTS
  TypeOK
  VolumeConsistent
  ServingIsReady
PROPERTY
  AlwaysServesAgain
