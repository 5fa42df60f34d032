SPECIFICATION Spec
CONSTANTS
  Business = {b1, b2}
  Chat = {c1}
  Slot = {i1, i2}
  Threads = 1
  Pool = 1
  MaxRounds = 1
  PoolGivesUp = TRUE
  HttpRequest = {r1}
  Supplied = {supplied}
  None = None
INVARIANTS
  HeldIsUsed
  AnsweredAndRecorded
PROPERTIES
  EveryRequestEnds
  ConnectionsReturn
CHECK_DEADLOCK FALSE
