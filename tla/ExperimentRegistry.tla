-------------------------- MODULE ExperimentRegistry --------------------------
(***************************************************************************)
(* The experiments of sandbox/research/registry.py (class                  *)
(* ResearchRegistry) and the audit gate of sandbox/audit/auditor.py:       *)
(* experiments are drafted, edited, approved, started behind a pre-run     *)
(* audit, completed, linked to runs of the execution engine, and judged.   *)
(*                                                                         *)
(* As in CandidateControl a step is one catalog transaction of a session,  *)
(* at[s] names the transaction the session runs next, and exp, snap and    *)
(* extra are the locals it carries: the experiment, the record it read and *)
(* the audit, the run or the verdict of the call.                          *)
(***************************************************************************)
EXTENDS Naturals, FiniteSets, Sequences

CONSTANTS
  Experiments,   \* experiment ids
  Specs,         \* scientific contents; equal contents have equal fingerprints
  Runs,          \* completed engine runs (research_runs)
  Findings,      \* what an audit may find
  Class,         \* findings -> audit classification
  Fits,          \* <<run, spec>>: engine, configuration and datasets agree
  Meets,         \* <<run, spec>>: the metrics meet the evaluation criteria
  Sessions,      \* processes calling the API
  Calls,         \* the API calls each session makes in this instance
  Crashes,       \* whether a session may stop between two transactions
  MaxAudits,     \* bound: no start is begun once there are that many audits
  NoExperiment, NoSpec, Nothing

Classes == {"SAFE", "WARNING", "HIGH_RISK", "BLOCKED"}
\* A call of transition_experiment is named by its target status.
CallNames == {"create", "edit", "approve", "override", "replicate", "link",
              "verdict", "APPROVED", "RUNNING", "COMPLETED", "FAILED",
              "REVIEWED", "CLOSED", "CANCELLED"}
\* VerdictValue; FAIL stands for the values that need not meet the criteria.
Values == {"PASS", "FAIL"}

ASSUME RegistryAssumption ==
  /\ Class \in [Findings -> Classes]
  /\ \E f \in Findings : Class[f] = "BLOCKED"
  /\ Fits \subseteq Runs \X Specs
  /\ Meets \subseteq Runs \X Specs
  /\ Calls \in [Sessions -> SUBSET CallNames]
  /\ Crashes \in BOOLEAN
  /\ MaxAudits \in Nat
  /\ NoExperiment \notin Experiments
  /\ NoSpec \notin Specs
  /\ Nothing \notin Runs \X Values

VARIABLES
  record,       \* experiments.record_json
  fingerprint,  \* experiments.fingerprint, by which duplicates are found
  column,       \* experiments.status, likewise
  audits,       \* research_audits: <<spec, findings>> is what an id hashes
  overrides,    \* audit_overrides, by audit
  links,        \* experiment_runs
  results,      \* experiment_results: run -> experiment
  verdicts,     \* experiment_verdicts: run (that is, result) -> rows
  at, exp, snap, extra

tables == <<record, fingerprint, column, audits, overrides, links, results, verdicts>>
locals == <<at, exp, snap, extra>>
vars == <<record, fingerprint, column, audits, overrides, links, results,
          verdicts, at, exp, snap, extra>>

Transitions ==
  [DRAFT |-> {"APPROVED", "CANCELLED"},
   APPROVED |-> {"RUNNING", "CANCELLED"},
   RUNNING |-> {"COMPLETED", "FAILED", "CANCELLED"},
   COMPLETED |-> {"REVIEWED"}, REVIEWED |-> {"CLOSED"}, FAILED |-> {"REVIEWED"},
   CANCELLED |-> {}, CLOSED |-> {}, ABSENT |-> {}]

Statuses == DOMAIN Transitions \ {"ABSENT"}
Record == [status : Statuses, spec : Specs]
Absent == [status |-> "ABSENT", spec |-> NoSpec]
Audit == Specs \X Findings
Link == [exp : Experiments, run : Runs, spec : Specs,
         kind : {"PRIMARY", "REPLICATION"}]

Init ==
  /\ record = [e \in Experiments |-> Absent]
  /\ fingerprint = [e \in Experiments |-> NoSpec]
  /\ column = [e \in Experiments |-> "ABSENT"]
  /\ audits = {}
  /\ overrides = {}
  /\ links = {}
  /\ results = [r \in Runs |-> NoExperiment]
  /\ verdicts = [r \in Runs |-> <<>>]
  /\ at = [s \in Sessions |-> "idle"]
  /\ exp = [s \in Sessions |-> NoExperiment]
  /\ snap = [s \in Sessions |-> Absent]
  /\ extra = [s \in Sessions |-> Nothing]

-----------------------------------------------------------------------------
(* The steps every call is made of. *)

Begin(s, call, label, e, r, x) ==
  /\ call \in Calls[s]
  /\ at[s] = "idle"
  /\ at' = [at EXCEPT ![s] = label]
  /\ exp' = [exp EXCEPT ![s] = e]
  /\ snap' = [snap EXCEPT ![s] = r]
  /\ extra' = [extra EXCEPT ![s] = x]

Goto(s, label) ==
  /\ at' = [at EXCEPT ![s] = label]
  /\ UNCHANGED <<exp, snap, extra>>

Return(s) ==
  /\ at' = [at EXCEPT ![s] = "idle"]
  /\ exp' = [exp EXCEPT ![s] = NoExperiment]
  /\ snap' = [snap EXCEPT ![s] = Absent]
  /\ extra' = [extra EXCEPT ![s] = Nothing]

-----------------------------------------------------------------------------
(* create_experiment and edit_experiment *)

\* The id is the next of its sequence (taken in a transaction of its own) or
\* the caller's; either way the INSERT raises when the id is taken.
CreateExperiment(s, e, spec) ==
  /\ Begin(s, "create", "insert", e, [status |-> "DRAFT", spec |-> spec], Nothing)
  /\ UNCHANGED tables

InsertExperiment(s) ==
  /\ at[s] = "insert"
  /\ IF record[exp[s]] = Absent
     THEN /\ record' = [record EXCEPT ![exp[s]] = snap[s]]
          /\ fingerprint' = [fingerprint EXCEPT ![exp[s]] = snap[s].spec]
          /\ column' = [column EXCEPT ![exp[s]] = snap[s].status]
     ELSE UNCHANGED <<record, fingerprint, column>>
  /\ Return(s)
  /\ UNCHANGED <<audits, overrides, links, results, verdicts>>

\* Mutant: approved experiments may still be edited.
EditableMutant(r) == r.status \in {"DRAFT", "APPROVED"}
Editable(r) == r.status = "DRAFT"

EditExperiment(s, e, spec) ==
  /\ Editable(record[e])
  /\ Begin(s, "edit", "updateEdit", e, [record[e] EXCEPT !.spec = spec], Nothing)
  /\ UNCHANGED tables

\* The status column is not written, the status inside record_json is.
UpdateEdit(s) ==
  /\ at[s] = "updateEdit"
  /\ record' = [record EXCEPT ![exp[s]] = snap[s]]
  /\ fingerprint' = [fingerprint EXCEPT ![exp[s]] = snap[s].spec]
  /\ Return(s)
  /\ UNCHANGED <<column, audits, overrides, links, results, verdicts>>

-----------------------------------------------------------------------------
(* approve_experiment.  The missing-field, hypothesis and dataset checks of  *)
(* _approval_errors read records this module leaves out; they can only       *)
(* refuse more.                                                              *)

ApproveExperiment(s, e) ==
  /\ record[e].status = "DRAFT"
  /\ Begin(s, "approve", "duplicates", e, record[e], Nothing)
  /\ UNCHANGED tables

\* Mutant: only experiments that are still waiting to run count.
DuplicatesMutant(e, spec) ==
  {f \in Experiments \ {e} : fingerprint[f] = spec /\ column[f] = "APPROVED"}
Duplicates(e, spec) ==
  {f \in Experiments \ {e} : fingerprint[f] = spec /\ column[f] # "DRAFT"}

CheckDuplicates(s) ==
  /\ at[s] = "duplicates"
  /\ IF Duplicates(exp[s], snap[s].spec) # {}
     THEN Return(s)
     ELSE /\ at' = [at EXCEPT ![s] = "update"]
          /\ snap' = [snap EXCEPT ![s].status = "APPROVED"]
          /\ UNCHANGED <<exp, extra>>
  /\ UNCHANGED tables

\* UPDATE experiments SET record_json=?,status=? ends approve_experiment and
\* transition_experiment: unconditional, from the record read at the start.
UpdateStatus(s) ==
  /\ at[s] = "update"
  /\ record' = [record EXCEPT ![exp[s]] = snap[s]]
  /\ column' = [column EXCEPT ![exp[s]] = snap[s].status]
  /\ Return(s)
  /\ UNCHANGED <<fingerprint, audits, overrides, links, results, verdicts>>

-----------------------------------------------------------------------------
(* transition_experiment, ResearchAuditor.can_execute and create_override *)

StartExperiment(s, e) ==
  /\ "RUNNING" \in Transitions[record[e].status]
  /\ Cardinality(audits) < MaxAudits
  /\ Begin(s, "RUNNING", "audit", e, [record[e] EXCEPT !.status = "RUNNING"], Nothing)
  /\ UNCHANGED tables

TransitionExperiment(s, e, target) ==
  /\ target \in Transitions[record[e].status] \ {"RUNNING"}
  /\ Begin(s, target, "update", e, [record[e] EXCEPT !.status = target], Nothing)
  /\ UNCHANGED tables

\* audit(): it reads the experiment again and looks an audit of the same
\* findings up; an experiment that is a DRAFT is always blocked.
FindAudit(s, f) ==
  /\ at[s] = "audit"
  /\ record[exp[s]].status = "DRAFT" => Class[f] = "BLOCKED"
  /\ LET audit == <<record[exp[s]].spec, f>>
     IN /\ at' = [at EXCEPT ![s] = IF audit \in audits THEN "gate" ELSE "insertAudit"]
        /\ extra' = [extra EXCEPT ![s] = audit]
  /\ UNCHANGED <<tables, exp, snap>>

\* The primary key refuses an audit another session inserted meanwhile.
InsertAudit(s) ==
  /\ at[s] = "insertAudit"
  /\ IF extra[s] \in audits THEN Return(s) ELSE Goto(s, "gate")
  /\ audits' = audits \union {extra[s]}
  /\ UNCHANGED <<record, fingerprint, column, overrides, links, results, verdicts>>

Cleared(audit) ==
  \/ Class[audit[2]] \in {"SAFE", "WARNING"}
  \/ Class[audit[2]] = "HIGH_RISK" /\ audit \in overrides

\* Mutant: the gate lets a HIGH_RISK experiment run without an override.
CanExecuteMutant(s) ==
  /\ at[s] = "gate"
  /\ IF Class[extra[s][2]] # "BLOCKED" THEN Goto(s, "update") ELSE Return(s)
  /\ UNCHANGED tables
CanExecute(s) ==
  /\ at[s] = "gate"
  /\ IF Cleared(extra[s]) THEN Goto(s, "update") ELSE Return(s)
  /\ UNCHANGED tables

\* An override names an audit, not an experiment's present specification.
CreateOverride(s, audit) ==
  /\ "override" \in Calls[s]
  /\ at[s] = "idle"
  /\ Class[audit[2]] = "HIGH_RISK"
  /\ overrides' = overrides \union {audit}
  /\ UNCHANGED <<record, fingerprint, column, audits, links, results, verdicts, locals>>

-----------------------------------------------------------------------------
(* create_replication, link_stage2_run and record_verdict *)

LinkRow(s, kind) ==
  [exp |-> exp[s], run |-> extra[s], spec |-> snap[s].spec, kind |-> kind]

\* UNIQUE(experiment_id, run_id).
Linked(e, r) == \E l \in links : l.exp = e /\ l.run = r

CreateReplication(s, e, r) ==
  /\ record[e].status \notin {"ABSENT", "DRAFT"}
  /\ Begin(s, "replicate", "replication", e, record[e], r)
  /\ UNCHANGED tables

InsertReplication(s) ==
  /\ at[s] = "replication"
  /\ links' = IF Linked(exp[s], extra[s]) THEN links
              ELSE links \union {LinkRow(s, "REPLICATION")}
  /\ Return(s)
  /\ UNCHANGED <<record, fingerprint, column, audits, overrides, results, verdicts>>

LinkRun(s, e, r) ==
  /\ record[e].status \in {"RUNNING", "COMPLETED"}
  /\ <<r, record[e].spec>> \in Fits
  /\ Begin(s, "link", "link", e, record[e], r)
  /\ UNCHANGED tables

\* Mutant: the link is inserted by replications only.
InsertLinkMutant(s) ==
  /\ at[s] = "link"
  /\ Goto(s, "result")
  /\ UNCHANGED tables
\* INSERT OR IGNORE: a replication link of the pair stays what it is.
InsertLink(s) ==
  /\ at[s] = "link"
  /\ links' = IF Linked(exp[s], extra[s]) THEN links
              ELSE links \union {LinkRow(s, "PRIMARY")}
  /\ Goto(s, "result")
  /\ UNCHANGED <<record, fingerprint, column, audits, overrides, results, verdicts>>

\* A run has one result; of two experiments that link it, the second raises.
InsertResult(s) ==
  /\ at[s] = "result"
  /\ results' = IF results[extra[s]] = NoExperiment
                THEN [results EXCEPT ![extra[s]] = exp[s]] ELSE results
  /\ Return(s)
  /\ UNCHANGED <<record, fingerprint, column, audits, overrides, links, verdicts>>

\* A verdict may be given in any status; PASS must meet the criteria the
\* experiment has now.
RecordVerdict(s, e, r, value) ==
  /\ results[r] = e
  /\ value = "PASS" => <<r, record[e].spec>> \in Meets
  /\ Begin(s, "verdict", "verdict", e, record[e], <<r, value>>)
  /\ UNCHANGED tables

\* Mutant: the look-up inside the transaction is left out.
UnjudgedMutant(r) == verdicts[r] \in Seq(Values)
Unjudged(r) == verdicts[r] = <<>>

\* BEGIN IMMEDIATE: the look-up and the INSERT are one transaction.
InsertVerdict(s) ==
  /\ at[s] = "verdict"
  /\ LET r == extra[s][1]
     IN verdicts' = IF Unjudged(r)
                    THEN [verdicts EXCEPT ![r] = Append(@, extra[s][2])] ELSE verdicts
  /\ Return(s)
  /\ UNCHANGED <<record, fingerprint, column, audits, overrides, links, results>>

-----------------------------------------------------------------------------

Crash(s) ==
  /\ Crashes
  /\ at[s] # "idle"
  /\ Return(s)
  /\ UNCHANGED tables

Call(s) ==
  \/ \E e \in Experiments, spec \in Specs : CreateExperiment(s, e, spec)
  \/ \E e \in Experiments, spec \in Specs : EditExperiment(s, e, spec)
  \/ \E e \in Experiments : ApproveExperiment(s, e)
  \/ \E e \in Experiments : StartExperiment(s, e)
  \/ \E e \in Experiments, target \in Statuses : TransitionExperiment(s, e, target)
  \/ \E audit \in audits : CreateOverride(s, audit)
  \/ \E e \in Experiments, r \in Runs : CreateReplication(s, e, r)
  \/ \E e \in Experiments, r \in Runs : LinkRun(s, e, r)
  \/ \E e \in Experiments, r \in Runs, v \in Values : RecordVerdict(s, e, r, v)

Continue(s) ==
  \/ InsertExperiment(s) \/ UpdateEdit(s) \/ CheckDuplicates(s) \/ UpdateStatus(s)
  \/ \E f \in Findings : FindAudit(s, f)
  \/ InsertAudit(s) \/ CanExecute(s)
  \/ InsertReplication(s) \/ InsertLink(s) \/ InsertResult(s) \/ InsertVerdict(s)

Next == \E s \in Sessions : Call(s) \/ Continue(s) \/ Crash(s)

Spec == Init /\ [][Next]_vars

-----------------------------------------------------------------------------
(* Properties *)

Started == {"RUNNING", "COMPLETED", "FAILED", "REVIEWED", "CLOSED"}
Labels == {"idle", "insert", "updateEdit", "duplicates", "update", "audit",
           "insertAudit", "gate", "replication", "link", "result", "verdict"}

\* Every variable has its type.
TypeOK ==
  /\ record \in [Experiments -> Record \union {Absent}]
  /\ fingerprint \in [Experiments -> Specs \union {NoSpec}]
  /\ column \in [Experiments -> Statuses \union {"ABSENT"}]
  /\ audits \subseteq Audit
  /\ overrides \subseteq audits
  /\ links \subseteq Link
  /\ results \in [Runs -> Experiments \union {NoExperiment}]
  /\ verdicts \in [Runs -> Seq(Values)]
  /\ at \in [Sessions -> Labels]
  /\ exp \in [Sessions -> Experiments \union {NoExperiment}]
  /\ snap \in [Sessions -> Record \union {Absent}]
  /\ extra \in [Sessions -> Audit \union Runs \union (Runs \X Values) \union {Nothing}]

\* One verdict per result, however sessions race to record it.
VerdictOnce == \A r \in Runs : Len(verdicts[r]) <= 1

\* A result is linked to its experiment, wherever link_stage2_run stopped.
ResultLinked == \A r \in Runs : results[r] # NoExperiment => Linked(results[r], r)

\* What runs, or ran, is the specification the pre-run audit cleared: no
\* blocked one, no high-risk one without an override of that very audit.
RunningIsCleared ==
  \A e \in Experiments : record[e].status \in Started =>
    \E f \in Findings : /\ <<record[e].spec, f>> \in audits
                        /\ Cleared(<<record[e].spec, f>>)

\* Two approved experiments are never the same experiment.
ApprovedUnique ==
  \A e, f \in Experiments :
    /\ {record[e].status, record[f].status} \subseteq Started \union {"APPROVED"}
    /\ record[e].spec = record[f].spec
    => e = f

\* A PASS meets the criteria of the specification the run was linked under:
\* the criteria are those frozen before execution.
CriteriaFrozen ==
  \A r \in Runs, e \in Experiments :
    results[r] = e /\ (\E i \in DOMAIN verdicts[r] : verdicts[r][i] = "PASS") =>
      \E l \in links : l.exp = e /\ l.run = r /\ <<r, l.spec>> \in Meets

=============================================================================
