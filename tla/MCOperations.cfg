SPECIFICATION Spec
CONSTANTS
  admin = admin
  custom = custom
  nAdmin = nAdmin
  nOther = nOther
  p1 = p1
  p2 = p2
  Role = {admin, custom}
  Name = {nAdmin, nOther}
  Perm = {p1, p2}
  Builtin = {admin}
  BuiltinName <- MCBuiltinName
  Default <- MCDefault
  Request = {q1, q2}
  Absent = Absent
  Duration = {0, 1, 2, 3}
  Count = {0, 1, 2}
  Junk = Junk
  None = None
  MinIdle = 2
  MaxIdle = 3
  MaxTail = 2
  DefaultIdle = 2
  DefaultTail = 2
INVARIANTS BuiltinKept NoOrphanPermissions SavedTakesPrecedence LogTailBounded SecretsGuarded SuccessIsReal
PROPERTIES AdditionsLast RestartRecorded StreamsReleased
CHECK_DEADLOCK FALSE
