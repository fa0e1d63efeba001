CONSTANTS
  Lineages = {L1, L2}
  MaxVersion = 1
  Datasets = {D1}
  Specs = {A}
  Sessions = {s1}
  Crashes = TRUE
  Menu = {"create", "freeze", "bind", "sealed", "authorize"}
  NoCandidate = NoCandidate
  NoSpec = NoSpec
  D1 = D1
  V1 = V1
  F1 = F1
  Partitions = {V1, F1}
  Role <- RoleOf
  Source <- SourceOf
  Requests <- NoRequests
  MaxLedger = 4
  NoPartition = NoPartition
  NoLineage = NoLineage
  NoSpecBound = NoSpecBound
SPECIFICATION Spec
INVARIANTS
  FinalPartitionUsedOnce
SYMMETRY Symmetry
CHECK_DEADLOCK FALSE
