SPECIFICATION Spec
CHECK_DEADLOCK FALSE
CONSTANTS
  Fast = 2
  Mid = 3
  Slow = 4
  RsiPeriod = 2
  Upper = 60
  Lower = 40
  Window = 6
  Top = 5
  MaxCloses = 8
INVARIANTS
  TypeOK
  SameRule
  SeedsFade
  IndicatorsInRange
  SetupsFollowTheClose
  ShortIsInverse
