SPECIFICATION FairSpec
CONSTANTS
  Handlers = {h1}
  Chunks = 1
  MaxInterruptions = 2
  Messages <- AllMessages
  Allowed <- Known
  Kind <- KindOf
  Payloads <- MixedPayloads
PROPERTIES
  EveryMessageMarked
  EveryJobEnds
