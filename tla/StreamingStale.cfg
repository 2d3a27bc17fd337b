CONSTANTS
  Mics = {m1, m2}
  Wakes = {w1, w2}
  Server = server

SPECIFICATION Spec
SYMMETRY Symmetry
PROPERTY StreamEndsWithConnection
