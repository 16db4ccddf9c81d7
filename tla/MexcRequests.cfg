SPECIFICATION FairSpec
CONSTANTS
  Tasks = {monitor, job, other}
  MaxRetries = 2
  Spacing = 2
  MaxDelay = 2
INVARIANTS
  TypeOK
  RequestBudget
PROPERTIES
  Spaced
  NobodyOvertakes
  EveryCallEnds
