SPECIFICATION BoundedSpec
CONSTANTS
  User = {u1, u2}
  Session = {s1, s2, s3}
  Request = {q1, q2}
  AdminRole = admin
  BuiltinRole = {admin}
  Role = {admin, custom}
  None = None
  MaxHash = 4
SYMMETRY Symmetry
INVARIANTS TypeOK LastAdmin ResetEndsSessions StaleLoginsBounded
PROPERTY RefusalIsFinal
