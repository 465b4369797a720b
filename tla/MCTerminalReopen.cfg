SPECIFICATION Spec
CONSTANTS
  Term = {m1}
  Conn = {c1, c2}
  Ticket = {k1, k2}
  None = None
PROPERTIES ClosedStaysClosed
