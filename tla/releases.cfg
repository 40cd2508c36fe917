SPECIFICATION FairSpec
CONSTANTS
  r1 = r1
  Versions = {1, 2, 3}
  First = 1
  EnvOf <- Environments
  SchemaOf <- Schemas
  Own = {"backend", "worker"}
  Others = {"sign-in page"}
  Rows = {r1}
  Faults = {}
  MaxMoves = 2
  MaxFails = 2
  MaxCuts = 2
  MaxDeaths = 1
INVARIANTS
  FolderSound
  EarlyIsKept
PROPERTIES
  StartsWhole
  ReleaseEnds
  ComesBack
CHECK_DEADLOCK FALSE
