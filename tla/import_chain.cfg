SPECIFICATION Spec
CONSTANTS
  w1 = w1
  w2 = w2
  a1 = a1
  Workers = {w1, w2}
  Admins = {a1}
  AdminOps = {"cancel", "resume", "write_off"}
  MaxJobs = 2
  MaxClaims = 2
  Total = 2
  ChunkSize = 1
  SkipRepeats = TRUE
  Faults = {"late_lease", "drop"}
SYMMETRY WorkerSymmetry
INVARIANTS
  IInv
PROPERTIES
  CheckpointNeverMovesBack
  ImplementsDurablePrefix
CHECK_DEADLOCK FALSE
