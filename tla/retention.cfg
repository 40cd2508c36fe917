SPECIFICATION Spec
CONSTANTS
  w1 = w1
  w2 = w2
  Workers = {w1, w2}
  Count = 2
  MaxHour = 3
  Nameless = {2}
  Keep = 0
  KeepSummaries = 1
  KeepEvidence = 1
  Chunk = 1
  Units = 1
  Databases = {"sqlite", "postgresql"}
  Asked = {"label"}
  MaxRestarts = 1
SYMMETRY Symmetric
INVARIANTS
  LogsSound
  DeletedIsCounted
  CountedOnce
CHECK_DEADLOCK FALSE
