CONSTANTS
  Mics = {m1, m2}
  Wakes = {w1, w2}
  Server = server

SPECIFICATION Spec
SYMMETRY Symmetry
INVARIANT TypeOK
INVARIANT PausedIsSilent
INVARIANT AtMostOneLateChunk
INVARIANT OneStarter
INVARIANT AudioIsAnnounced
INVARIANT EventsInOrder
