SPECIFICATION Spec
CONSTANTS
  Handlers = {h1, h2}
  Chunks = 2
  MaxInterruptions = 1
  Messages <- AllMessages
  Allowed <- Known
  Kind <- KindOf
  Payloads <- MixedPayloads
INVARIANTS
  ResultsFollow
