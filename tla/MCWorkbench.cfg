SPECIFICATION DeskSpec
CONSTANTS
  t1 = t1
  task = t1
  None = None
  Task <- MCTask
  Legacy = {}
  RawWeight <- MCRawWeight
  RawLimit <- MCRawLimit
  MaxReadings = 3
  l1 = l1
  l2 = l2
  a1 = a1
  a2 = a2
  Weights <- MCWeights
  Slot <- MCLoad
  Call <- MCCall
PROPERTY ActsOnWhatWasShown
PROPERTY VerdictAsPreviewed
PROPERTY OwnChangeShown
SYMMETRY Symmetry
CHECK_DEADLOCK FALSE
