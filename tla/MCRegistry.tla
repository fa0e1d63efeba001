----------------------------- MODULE MCRegistry -----------------------------
(* Instances of ExperimentRegistry for TLC. *)
EXTENDS ExperimentRegistry, TLC

\* Two specifications, one of them with criteria the run does not meet; an
\* author who drafts and a runner who executes.
CONSTANTS author, runner, easy, hard, R1, E1, E2

FindingKinds == {"nothing", "burden", "lookahead"}
ClassOf == [f \in Findings |->
  CASE f = "burden" -> "HIGH_RISK" [] f = "lookahead" -> "BLOCKED" [] OTHER -> "SAFE"]
AnyFits == Runs \X Specs
EasyMet == {<<R1, easy>>}

\* One process writes specifications, another one runs them; both judge.
Divided == [s \in Sessions |->
  IF s = author THEN {"create", "edit", "approve", "CANCELLED", "verdict"}
  ELSE {"RUNNING", "COMPLETED", "FAILED", "REVIEWED", "CLOSED", "override",
        "replicate", "link", "verdict"}]
\* Two processes that both write specifications.
Shared == [s \in Sessions |->
  {"create", "edit", "approve", "RUNNING", "link", "verdict"}]

\* Experiments are interchangeable.
Symmetry == Permutations({E1, E2})
=============================================================================
