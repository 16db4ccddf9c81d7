SPECIFICATION FairSpec
CONSTANTS
  Minute = 2
  RecoveryMinutes = 1
  Abnormal5m = 2
  Abnormal1m = 2
  Recovery5m = 1
  WakeSlack = 1
  MinDelay = 1
  FutureTolerance = 0
  MaxTickerAge = 4
  StartTime = 4
  ClockLag = 1
  Horizon = 11
  Setups <- AllSetups
  Movements <- CalmOrWide
  Recipients <- TwoRecipients
  TickerLags <- FreshOrStale
INVARIANTS
  TypeOK
  InOrderAtMostOnce
PROPERTIES
  PolicySpec
  NoReplayAfterRestart
  SilentWhilePaused
  CycleReturns
