CONSTANTS
  Callers = {mic, wake}
  Server = server
  Conns = {c1, c2}
  Fds = {f1, f2}
  MsgLen = 2
  MaxEvents = 1
  None = None

SPECIFICATION HSpec
SYMMETRY Symmetry
INVARIANT TypeOK
INVARIANT PublishedIsOpen
INVARIANT NoDescriptorLeak
INVARIANT AnswerStaysOnConnection
PROPERTY WholeEvents
PROPERTY NoInterleaving
PROPERTY ImplementsConnection
