SPECIFICATION RoleSpec
CONSTANTS
  admin = admin
  custom = custom
  nAdmin = nAdmin
  nOther = nOther
  p1 = p1
  p2 = p2
  Role = {admin, custom}
  Name = {nAdmin, nOther}
  Perm = {p1, p2}
  Builtin = {admin}
  BuiltinName <- MCBuiltinName
  Default <- MCDefault
  Request = {q1, q2}
  Absent = Absent
SYMMETRY Symmetry
INVARIANT MutationsRecorded
