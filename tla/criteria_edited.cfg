CONSTANTS
  Experiments = {E1}
  Specs = {easy, hard}
  Runs = {R1}
  Findings <- FindingKinds
  Class <- ClassOf
  Fits <- AnyFits
  Meets <- EasyMet
  Sessions = {author, runner}
  Calls <- Shared
  Crashes = FALSE
  MaxAudits = 2
  NoExperiment = NoExperiment
  NoSpec = NoSpec
  Nothing = Nothing
  author = author
  runner = runner
  easy = easy
  hard = hard
  R1 = R1
  E1 = E1
  E2 = E2
SPECIFICATION Spec
INVARIANTS
  CriteriaFrozen
CHECK_DEADLOCK FALSE
