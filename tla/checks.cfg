SPECIFICATION FairSpec
CONSTANTS
  Limit = 2
  Fewest = 2
  Patterns = {"scan", "beacon"}
  Faults = {}
  MaxLogs = 4
  MaxTime = 5
  MaxPresses = 1
  MaxWorks = 1
  MaxRebuilds = 1
  MaxMishaps = 1
  MaxEvents = 2
INVARIANTS
  JudgedIsNew
  LikeAllAtOnce
PROPERTIES
  EveryLogChecked
CHECK_DEADLOCK FALSE
