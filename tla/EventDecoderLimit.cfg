CONSTANTS
  BufferSize = 12
  MaxPayload = 13
  Uint32 = 16
  Bodies <- MCBodies
  Fields <- MCFields
  Streams <- LimitStreams
  Carried <- LimitCarried

SPECIFICATION FairSpec
PROPERTY AllDelivered
