SPECIFICATION Spec
CONSTANTS
  t1 = t1
  s1 = s1
  s2 = s2
  Nobody = Nobody
  Task <- MCTask
  Legacy = {}
  Session <- MCSession
  RawWeight <- MCRawWeight
  RawLimit <- MCRawLimit
  MaxReadings = 3
INVARIANT ReversedNeverPaid
