SPECIFICATION Spec
CONSTANTS
  v1 = v1
  v2 = v2
  s1 = s1
  s2 = s2
  p1 = p1
  p2 = p2
  l1 = l1
  l2 = l2
  x1 = x1
  x2 = x2
  Vehicle = {v1, v2}
  Customer = {c1}
  Task = {k1}
  Plate = {p1, p2}
  VehicleType = {"SMALL"}
  Limit = {l1, l2}
  Contact = {x1, x2}
  Untyped = {v1}
  Session = {s1, s2}
  Nobody = Nobody
SYMMETRY Symmetry
INVARIANTS
  NoTaskOfDeleted
  PlateNamesOneVehicle
  NobodyWaitsInCircle
PROPERTIES
  ImplementsRecords
