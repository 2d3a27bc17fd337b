CONSTANTS
  Callers = {mic}
  Server = server
  Conns = {c1}
  Fds = {f1}
  MsgLen = 1
  MaxEvents = 1
  None = None

SPECIFICATION ASpec
PROPERTY StopIsHonoured
