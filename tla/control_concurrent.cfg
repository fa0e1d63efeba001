CONSTANTS
  Lineages = {L1}
  MaxVersion = 2
  Datasets = {D1}
  Specs = {A, B}
  Sessions = {s1, s2}
  Crashes = TRUE
  Menu = {"create", "version", "freeze", "modify", "request", "fail", "usage"}
  NoCandidate = NoCandidate
  NoSpec = NoSpec
SPECIFICATION ControlSpec
INVARIANTS
  VersionsContiguous
  FailureMarksDatasets
SYMMETRY Symmetry
CHECK_DEADLOCK FALSE
