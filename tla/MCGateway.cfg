SPECIFICATION Spec
CONSTANTS
  Ticket = {t1, t2, t3}
  Call = {c1, c2}
  Container = {k1, k2}
  Guarded = {k2}
  Ref = {id, name}
  Name = {name}
  None = None
  TTL = 1
  MaxTime = 2
SYMMETRY Symmetry
INVARIANTS TypeOK MapSpansOneTTL
PROPERTIES ImplementsOffice KeptUntilExpiry
