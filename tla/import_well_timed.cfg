SPECIFICATION Spec
CONSTANTS
  w1 = w1
  w2 = w2
  a1 = a1
  Workers = {w1, w2}
  Admins = {a1}
  AdminOps = {"resume"}
  MaxJobs = 3
  MaxClaims = 1
  Total = 3
  ChunkSize = 2
  SkipRepeats = FALSE
  Faults = {"crash", "fail", "signal", "age"}
SYMMETRY WorkerSymmetry
INVARIANTS
  ImportedOnce
  OneActiveImport
  RunRowsAgree
  StagedInputKept
CHECK_DEADLOCK FALSE
