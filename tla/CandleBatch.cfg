SPECIFICATION Spec
CHECK_DEADLOCK FALSE
CONSTANTS
  Minute = 2
  MaxPoints = 2
  First = 2
  Last = 10
  Answers <- AnyAnswer
INVARIANTS
  TypeOK
  RequestsTile
  CompleteIsExact
  ExactIsComplete
