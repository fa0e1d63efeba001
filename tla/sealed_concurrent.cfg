CONSTANTS
  Lineages = {L1}
  MaxVersion = 1
  Datasets = {D1}
  Specs = {A, B}
  Sessions = {s1, s2}
  Crashes = TRUE
  Menu = {"create", "freeze", "modify", "bind", "sealed", "authorize"}
  NoCandidate = NoCandidate
  NoSpec = NoSpec
  D1 = D1
  V1 = V1
  F1 = F1
  Partitions = {V1, F1}
  Role <- RoleOf
  Source <- SourceOf
  Requests <- NoRequests
  MaxLedger = 3
  NoPartition = NoPartition
  NoLineage = NoLineage
  NoSpecBound = NoSpecBound
SPECIFICATION Spec
INVARIANTS
  TypeOK
  ExecutedAtMostOnce
  FinalTestOfValidatedSpec
  
PROPERTIES
  ImplementsEvidence
SYMMETRY Symmetry
CHECK_DEADLOCK FALSE
