SPECIFICATION FairSpec
CONSTANTS
  BatchSize = 3
  MaxPending = 1
  Faults = {}
  MaxLines = 3
  MaxRuns = 2
  MaxKills = 1
INVARIANTS
  IInv
  RowsTold
  InOrder
PROPERTIES
  EndsAccounted
  StopEnds
  EveryLineEnds
CHECK_DEADLOCK FALSE
