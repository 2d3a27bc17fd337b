CONSTANTS
  BufferSize = 12
  MaxPayload = 13
  Uint32 = 16
  Bodies <- MCBodies
  Fields <- MCFields
  Streams <- BadStreams
  Carried <- BadCarried

SPECIFICATION Spec
INVARIANT TypeOK
INVARIANT BufferBounded
INVARIANT PayloadAccounted
INVARIANT FreedOnce
PROPERTY ChunksContiguous
