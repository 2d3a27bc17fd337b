CONSTANTS
  BufferSize = 12
  MaxPayload = 13
  Uint32 = 16
  Bodies <- MCBodies
  Fields <- MCFields
  Streams <- GoodStreams
  Carried <- GoodCarried
  Lines <- GoodLines

SPECIFICATION FairSpec
INVARIANT RoomToRead
PROPERTY ImplementsEventStream
PROPERTY AllDelivered
