SPECIFICATION Spec
CONSTANTS
  custom = custom
  plain = plain
  exec = exec
  Role = {builtin, custom}
  Builtin = {builtin}
  Policy = {p1, p2}
  Container = {plain, guarded}
  Guarded = {guarded}
  Action = {exec}
  Immutable = {exec}
  Draft <- MCDraft
  None = None
SYMMETRY Symmetry
INVARIANTS TypeOK StandingDenyWins DecisionIsCurrent
