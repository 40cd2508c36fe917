SPECIFICATION FairSpec
CONSTANTS
  w1 = w1
  w2 = w2
  n1 = n1
  n2 = n2
  k1 = k1
  Workers = {w1, w2}
  Deployments = {{w1}, {w1, w2}}
  Alerts = {n1, n2}
  Places <- FewerForTwo
  Problems = {k1}
  LongestWait = 2
  Between = 1
  Grace = 1
  NotLooking = 1
  LookEvery = 1
  MaxNaps <- OneIfAlone
INVARIANTS
  NewsSound
  ToldOnce
  NapsDoNotCount
PROPERTIES
  EveryAlertTold
CHECK_DEADLOCK FALSE
