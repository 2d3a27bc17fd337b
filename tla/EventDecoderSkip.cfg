CONSTANTS
  BufferSize = 10
  MaxPayload = 13
  Uint32 = 16
  Bodies <- MCBodies
  Fields <- MCFields
  Streams <- SkipStreams
  Carried <- SkipCarried

SPECIFICATION Spec
INVARIANT RoomToRead
