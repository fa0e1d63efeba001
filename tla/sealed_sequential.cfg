CONSTANTS
  Lineages = {L1, L2}
  MaxVersion = 2
  Datasets = {D1}
  Specs = {A, B}
  Sessions = {s1}
  Crashes = FALSE
  Menu = {"create", "version", "freeze", "modify", "bind", "sealed", "authorize"}
  NoCandidate = NoCandidate
  NoSpec = NoSpec
  D1 = D1
  V1 = V1
  F1 = F1
  Partitions = {V1, F1}
  Role <- RoleOf
  Source <- SourceOf
  Requests <- NoRequests
  MaxLedger = 4
  NoPartition = NoPartition
  NoLineage = NoLineage
  NoSpecBound = NoSpecBound
SPECIFICATION Spec
INVARIANTS
  LineageValidatesOnce
  FinalPartitionUsedOnce
PROPERTIES
  FrozenSpecImmutable
  LifecycleForward
SYMMETRY Symmetry
CHECK_DEADLOCK FALSE
CONSTRAINT
  TwoCandidates
