SPECIFICATION TabSpec
CONSTANTS
  a = a
  b = b
  s1 = s1
  None = None
  Person <- MCTwoUsers
  Slot <- MCSlots
  Tokens = 2
  Targets <- MCRegister
  InFlight = 1
  Fails = FALSE
  Regrants = FALSE
INVARIANTS
  IdentityMatchesToken
SYMMETRY Symmetry
CHECK_DEADLOCK FALSE
