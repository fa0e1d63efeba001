SPECIFICATION Spec
CONSTANTS
  NoTime = NoTime
  Invalid <- NoneInvalid
  Grid = 1
  Week = 7
  WeekClose = 5
  WeekOpen = 0
  Slots = {0, 1, 2, 3}
  MonthLength = 2
  Quotes <- QuotesOf
  ChunkLength = 2
  Retries = 2
  MaxDownloads = 3
  MaxCrashes = 2
  NoFile = NoFile
  Hours = {112, 113}
  Holidays = {}
  Payloads <- PayloadsOf
  Runs = {r1, r2}
  Workers = 2
  MaxFetches = 3
  MaxStops = 1
  NoArtifact = NoArtifact
  Pollers = {p1, p2}
  MaxClock = 4
  FeedMonth = 2
  Histories <- HistoriesOf
  Forming = "forming"
  InitialWindow = 2
  Overlap = 1
  MaxPolls = 3
  MaxDeaths = 1
  NoPointer = NoPointer
  Sources = {1, 2}
  SourceContents <- ContentsOf
  Interpretations = {"UTC"}
  Importers = {i1, i2}
  MaxJobs = 3
  MaxEdits = 1
  MaxKills = 1
  Torn = Torn
  Execution <- ExecutionOf
  YearLength = 6
  HourSize = 2
  BlockSize = 2
  NewYork <- Springtime
  S001 <- S001Of
  StopDistance = 3
  TargetDistance = 1
  EveryN = 2
  Warmup <- WarmupOf
  Opening <- OpeningOf
  TapeCandles <- CandlesOfTape
  Intents <- IntentsOfFile
  MaxTape = 8
  MaxGaps = 1
  Kinds <- KindsOf
  Proposals <- ProposalsOf
  Samples <- SamplesOf
  Session <- SessionOf
  PipSize = 1
  MaxSamples = 3
  Executors = {e1, e2}
  Ideas = {"p"}
  Absent = Absent
  MaxCommands = 4
  MaxFaults = 1
  Spaces <- SpacesOf
  Searchers = {s1, s2}
  Results = {"REJECTED", "PROMISING"}
  MaxResults = 3
  MaxRounds = 2
  Researchers = {w1, w2}
  Questions = {4}
  Texts = {"t2", "t4"}
  NoParent = NoParent
  QuestionStatuses = {"CLOSED", "ANSWERED"}
  Trees <- TreesOf
  MaxQuestionCalls = 2
  MaxQuestionStops = 1
  MaxAlterations = 1
CHECK_DEADLOCK FALSE
INVARIANTS
  RegisteredRecoverable
  MonthSettled
  EveryRevisionKept
  MonthCertified
  AcknowledgedIsServed
  ImportedIsBacked
  
  CompletedIsBacked
  BuildersAgree
  SearchNeverRepeats
  
  VerifiedJournalComplete
PROPERTIES
  TradesNeverRevised
