CONSTANTS
  Lineages = {L1}
  MaxVersion = 1
  Datasets = {D1}
  Specs = {A, B}
  Sessions = {s1, s2}
  Crashes = FALSE
  Menu = {"create", "freeze", "modify"}
  NoCandidate = NoCandidate
  NoSpec = NoSpec
SPECIFICATION ControlSpec
PROPERTIES
  FrozenSpecImmutable
CHECK_DEADLOCK FALSE
