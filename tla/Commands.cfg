SPECIFICATION Spec
CONSTANTS
  Handlers = {h1, h2}
  Chunks = 2
  MaxInterruptions = 2
  Messages <- AllMessages
  Allowed <- Known
  Kind <- KindOf
  Payloads <- MixedPayloads
INVARIANTS
  TypeOK
  OneAtATime
  HandledOnce
  AckedIsMarked
  ClosedIsQuiet
  LostByInterruption
PROPERTY
  WholeOrNotice
