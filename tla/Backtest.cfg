SPECIFICATION BacktestSpec
CHECK_DEADLOCK FALSE
CONSTANTS
  Minute = 3
  RecoveryMinutes = 2
  Abnormal5m = 2
  Abnormal1m = 2
  Recovery5m = 1
  StartTime = 6
  Lookback = 2
  TestStart = 6
  MaxPartings = 1
  LastCandle = 11
  Phases <- OnTimeOrLate
  Setups <- AllSetups
  Movements <- AllMovements
  Gates <- SomeGates
  Modes <- BothOrLong
  Contracts <- SomeContracts
  Prices <- SomePrices
  Leverage = 4
  Margin = 3
  Slip = 1
  Unit = 4
  TpMove = 1
  Expiry = 2
INVARIANTS
  BacktestTypeOK
  SamePause
  SameSignals
  LiveOpenReplayOpen
  FiguresAddUp
  HoldsDisjoint
  EveryEdgeOnce
  LargestSize
