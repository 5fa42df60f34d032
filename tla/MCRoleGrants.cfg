SPECIFICATION Spec
CONSTANTS
  a1 = a1
  a2 = a2
  p1 = p1
  p2 = p2
  s1 = s1
  s2 = s2
  s3 = s3
  Account = {a1, a2}
  Password = {p1, p2}
  Role = {"ADMIN", "OPERATOR"}
  Admin = "ADMIN"
  Session = {s1, s2, s3}
  Nobody = Nobody
SYMMETRY Symmetry
PROPERTIES
  AdminNeverLost
  BootstrapOnce
  BootstrapKnowsPassword
  ImplementsRecords
