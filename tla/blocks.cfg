SPECIFICATION FairSpec
CONSTANTS
  t1 = t1
  t2 = t2
  x1 = x1
  x2 = x2
  r1 = r1
  r2 = r2
  r3 = r3
  Threads = {t1, t2}
  Addresses = {x1}
  Rows = {r1, r2}
  Modes = {"windows_firewall", "simulation", "pending_connector"}
  MaxMishaps = 3
INVARIANTS
  ListedWhileBlocked
  ListedIsBlocked
PROPERTIES
  ExpiredIsLifted
CHECK_DEADLOCK FALSE
