CONSTANTS
  Lineages = {L1}
  MaxVersion = 1
  Datasets = {D1}
  Specs = {A}
  Sessions = {s1, s2}
  Crashes = FALSE
  Menu = {"create", "freeze", "bind", "sealed", "authorize"}
  NoCandidate = NoCandidate
  NoSpec = NoSpec
  D1 = D1
  V1 = V1
  F1 = F1
  Partitions = {V1, F1}
  Role <- RoleOf
  Source <- SourceOf
  Requests <- NoRequests
  MaxLedger = 3
  NoPartition = NoPartition
  NoLineage = NoLineage
  NoSpecBound = NoSpecBound
SPECIFICATION FairSpec
PROPERTIES
  ExposureEventuallyRecorded
CHECK_DEADLOCK FALSE
