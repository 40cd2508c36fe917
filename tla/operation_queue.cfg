SPECIFICATION FairSpec
CONSTANTS
  w1 = w1
  w2 = w2
  c1 = c1
  c2 = c2
  k1 = k1
  Workers = {w1, w2}
  Clients = {c1, c2}
  Keys = {k1}
  MaxQueued = 1
  MaxAttempts = 2
  MaxJobs = 3
  Settings <- QueueSettings
INVARIANTS
  QueueSound
  EvidenceFailsClosed
  OneWorker
PROPERTIES
  EveryJobEnds
CHECK_DEADLOCK FALSE
