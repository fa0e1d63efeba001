CONSTANTS
  Lineages = {L1}
  MaxVersion = 1
  Datasets = {D1}
  Specs = {A}
  Sessions = {s1, s2}
  Crashes = TRUE
  Menu = {"create", "freeze", "bind", "access", "warmup"}
  NoCandidate = NoCandidate
  NoSpec = NoSpec
  D1 = D1
  V1 = V1
  F1 = F1
  Partitions = {V1, F1, X1}
  Role <- RoleOf
  Source <- SourceOf
  Requests <- SomeRequests
  MaxLedger = 2
  NoPartition = NoPartition
  NoLineage = NoLineage
  NoSpecBound = NoSpecBound
SPECIFICATION Spec
INVARIANTS
  ContaminationIsAudited
  RevealedIsRecorded
SYMMETRY Symmetry
CHECK_DEADLOCK FALSE
