SPECIFICATION Spec
CONSTANTS
  Minute = 2
  RecoveryMinutes = 1
  Abnormal5m = 2
  Abnormal1m = 2
  Recovery5m = 1
  WakeSlack = 1
  MinDelay = 1
  FutureTolerance = 0
  MaxTickerAge = 4
  StartTime = 4
  ClockLag = 0
  Horizon = 11
  Setups <- AllSetups
  Movements <- CalmOrWide
  Recipients <- TwoRecipients
  TickerLags <- FreshOrStale
PROPERTIES
  StaleTickerSuppressed
