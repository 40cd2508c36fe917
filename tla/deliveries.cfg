SPECIFICATION FairDeliverySpec
CONSTANTS
  w1 = w1
  w2 = w2
  a1 = a1
  a2 = a2
  Senders = {w1}
  Askers = {a1}
  Tests = {1}
  Count = 2
  ClaimExpires = 2
  RetryAfter <- Retries
  LookAgain = 1
  GiveUpAfter = 2
  MaxLook = 1
  MaxFaults = 1
  Answers = {"ok", "again", "unsure", "never", "wait", "off"}
INVARIANTS
  ClaimHeld
  SentOnce
PROPERTIES
  SentIsFinal
  EveryDeliveryEnds
CHECK_DEADLOCK FALSE
