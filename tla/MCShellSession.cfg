SPECIFICATION ShellSpec
CONSTANTS
  Term = {m1}
  Conn = {c1}
  Ticket = {k1}
  None = None
  Backlog = 1
PROPERTIES AllReleased ShellExitEnds AccessLossEnds IdleEnds DisconnectEnds
