SPECIFICATION Spec
CONSTANTS
  Day = 4
  Frames <- FramesOf
  Block <- BlockOf
  Sessions <- SessionsOf
  Relationships <- RelationshipsOf
  Levels <- LevelsOf
  Checkpoints = {1, 2}
  Horizons = {1, 2}
  Left = 1
  Right = 1
  CountWindow = 2
  AtrPeriod = 2
  RankWindow = 2
  RankHistory = 3
  Lookback = 2
  Contexts <- ContextsOf
  Candles <- CandlesOf
  Daily = "D1"
  MaxSteps = 7
  MaxMissing = 1
CHECK_DEADLOCK FALSE
INVARIANTS
  HistoricalIsCausal
  ClockFindsLatest
  LevelViewsAgree
  RecordsAssemble
  NoLookahead
  SnapshotsAgree
PROPERTIES
  RecordsNeverRevised
  StructureNeverRevised
