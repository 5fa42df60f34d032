SPECIFICATION MCSpec
CONSTANTS
  t1 = t1
  t2 = t2
  Task <- MCTask
  Legacy <- MCLegacy
  RawWeight <- MCRawWeight
  RawLimit <- MCRawLimit
  MaxReadings = 3
  DayLength = 2
  Offset = 1
  MonthDays = 2
  MaxNow = 3
  Question <- MCQuestion
INVARIANTS
  FiguresLoseOnlyReversed
  ReportsPartition
  FiguresAreTraceable
PROPERTIES
  OverweightEventFixed
CHECK_DEADLOCK FALSE
