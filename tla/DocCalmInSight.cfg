SPECIFICATION Spec
CONSTANTS
  Minute = 2
  RecoveryMinutes = 2
  Abnormal5m = 2
  Abnormal1m = 2
  Recovery5m = 1
  WakeSlack = 1
  MinDelay = 1
  FutureTolerance = 0
  MaxTickerAge = 4
  StartTime = 4
  ClockLag = 0
  Horizon = 14
  Setups <- NoSetups
  Movements <- AllMovements
  Recipients <- OneRecipient
  TickerLags <- FreshOnly
PROPERTIES
  CalmInSight
