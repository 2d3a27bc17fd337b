CONSTANTS
  Mics = {mic}
  Snds = {snd, snd2}
  Wakes = {wake, wake2}
  WithInit = {mic, snd, snd2, wake}
  WithDestroy = {mic, snd, wake, wake2}
  Preset = {wake}
  Callers = {terminal}
  None = None

SPECIFICATION FairSpec
CHECK_DEADLOCK FALSE
INVARIANT TypeOK
INVARIANT DestroyedOnce
INVARIANT ModeOutlivesCalls
INVARIANT ThreadsJoined
PROPERTY NoNullWhileSteady
PROPERTY RunReturns
