SPECIFICATION FrontendSpec
CONSTANTS
  None = None
  Person = {a}
  Slot = {s1}
  Tokens = 2
  Targets <- MCTargets
  InFlight = 1
  Fails = FALSE
  Regrants = TRUE
  Readings = 3
  Retries = 2
  View = {v1}
  Coroutine = {c1, c2, c3}
  Invalid = {2}
  Nothing = Nothing
  StatusFails = TRUE
INVARIANTS
  EveryWaitIsAnswered
  PollingUnderControl
  ReadingsInOrder
PROPERTIES
  TokenlessAppLeaves
  LoginEnds
CHECK_DEADLOCK FALSE
