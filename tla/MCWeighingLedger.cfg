SPECIFICATION Spec
CONSTANTS
  t1 = t1
  t2 = t2
  Task <- MCTask
  Legacy <- MCLegacy
  RawWeight <- MCRawWeight
  RawLimit <- MCRawLimit
  MaxReadings = 4
INVARIANTS
  IndInv
  EveryReadingJudged
PROPERTIES
  CompletedFactsFrozen
  PaymentSettlesOnce
CHECK_DEADLOCK FALSE
