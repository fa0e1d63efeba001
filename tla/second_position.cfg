SPECIFICATION TapeSpec
CONSTANTS
  Execution <- ExecutionOf
  YearLength = 6
  HourSize = 2
  BlockSize = 2
  NewYork <- Springtime
  S001 <- S001Of
  StopDistance = 3
  TargetDistance = 1
  EveryN = 2
  Warmup <- WarmupOf
  Opening <- OpeningOf
  TapeCandles <- CandlesOfTape
  Intents <- IntentsOfFile
  MaxTape = 8
  MaxGaps = 1
CHECK_DEADLOCK FALSE
PROPERTIES
  OneUnresolvedPosition
