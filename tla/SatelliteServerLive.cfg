CONSTANTS
  Callers = {mic}
  Server = server
  Conns = {c1, c2}
  Fds = {f1}
  MsgLen = 2
  MaxEvents = 1
  None = None

SPECIFICATION FairSpec
PROPERTY StopEndsServer
PROPERTY StopFreesSenders
PROPERTY EndFreesSenders
