CONSTANTS
  Bodies <- MCBodies
  Type <- MCType
  Data <- MCData
  PayloadLen <- MCPayloadLen
  Messages <- MCMessages
  NoOutput = NoOutput
  Lengths = {1024, 65536}
  Width = 65536

SPECIFICATION Spec
CHECK_DEADLOCK FALSE
INVARIANT TypeOK
INVARIANT RequestsAnswered
INVARIANT SoundGetsAudio
INVARIANT WritesToAFile
INVARIANT OwnFilesClosed
