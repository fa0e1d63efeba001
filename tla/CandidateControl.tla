--------------------------- MODULE CandidateControl ---------------------------
(***************************************************************************)
(* The candidate half of sandbox/control/service.py (class                 *)
(* ResearchControl): strategy candidates are created, modified while they  *)
(* are exploratory, frozen, sent to validation, rejected, and continued as *)
(* new versions of the same lineage.                                       *)
(*                                                                         *)
(* Every "with catalog.connection()" block of the source is one SQLite     *)
(* transaction, and a method is a sequence of such blocks.  A session (a   *)
(* process running one API call) therefore reads a candidate in one step   *)
(* and writes it in a later one; at[s] names the transaction it runs next, *)
(* and cand[s] and snap[s] are the locals it carries between the two.      *)
(***************************************************************************)
EXTENDS Naturals

CONSTANTS
  Lineages,     \* candidate_base_id values
  MaxVersion,   \* bound on the versions of one lineage
  Datasets,     \* registered datasets a candidate may be validated on
  Specs,        \* contents of a candidate's scientific specification
  Sessions,     \* processes calling the API
  Crashes,      \* whether a session may stop between two transactions
  Menu,         \* the API calls the sessions of this instance make
  NoCandidate, NoSpec

Candidates == Lineages \X (1..MaxVersion)
Lineage(c) == c[1]
Version(c) == c[2]

ASSUME ControlAssumption ==
  /\ MaxVersion \in Nat
  /\ Crashes \in BOOLEAN
  /\ NoCandidate \notin Candidates
  /\ NoSpec \notin Specs

VARIABLES
  record,     \* candidates.record_json: what get_candidate returns
  column,     \* candidates.status: what the SQL counts and filters on
  usage,      \* dataset_usage rows: <<dataset, usage type>>
  failures,   \* validation_events rows: <<candidate, designated datasets>>
  at, cand, snap

tables == <<record, column, usage, failures>>
locals == <<at, cand, snap>>
controlVars == <<record, column, usage, failures, at, cand, snap>>

Statuses == {"EXPLORATORY", "PROMISING", "FROZEN", "VALIDATING", "VALIDATED",
             "REJECTED", "RETIRED"}
Verdicts == {"NOT_STARTED", "IN_PROGRESS", "PASSED", "FAILED"}
Record == [status : Statuses, validation : Verdicts, spec : Specs,
           designated : SUBSET Datasets]

\* The row a candidate id has before create_candidate inserts it.
Absent == [status |-> "ABSENT", validation |-> "NOT_STARTED", spec |-> NoSpec,
           designated |-> {}]
Exists(c) == record[c] # Absent

ControlLabels == {"idle", "insert", "update", "updateJson", "request", "usage",
                  "reject"}

Init ==
  /\ record = [c \in Candidates |-> Absent]
  /\ column = [c \in Candidates |-> "ABSENT"]
  /\ usage = {}
  /\ failures = {}
  /\ at = [s \in Sessions |-> "idle"]
  /\ cand = [s \in Sessions |-> NoCandidate]
  /\ snap = [s \in Sessions |-> Absent]

-----------------------------------------------------------------------------
(* The steps every call is made of. *)

\* A call starts: it has read c and will run the transaction named label,
\* carrying the record r.
Begin(s, call, label, c, r) ==
  /\ call \in Menu
  /\ at[s] = "idle"
  /\ at' = [at EXCEPT ![s] = label]
  /\ cand' = [cand EXCEPT ![s] = c]
  /\ snap' = [snap EXCEPT ![s] = r]

Goto(s, label) ==
  /\ at' = [at EXCEPT ![s] = label]
  /\ UNCHANGED <<cand, snap>>

\* The call returns or raises; a crash has the same effect on the database.
Return(s) ==
  /\ at' = [at EXCEPT ![s] = "idle"]
  /\ cand' = [cand EXCEPT ![s] = NoCandidate]
  /\ snap' = [snap EXCEPT ![s] = Absent]

-----------------------------------------------------------------------------
(* create_candidate and new_candidate_version *)

\* Mutant: the version after the next one, max(version) + 2.
NextVersionMutant(b) ==
  {v \in 1..MaxVersion : \A w \in 1..MaxVersion : Exists(<<b, w>>) <=> w < v - 1}
\* version = (max(version) or 0) + 1 over the rows of the lineage.
NextVersion(b) ==
  {v \in 1..MaxVersion : \A w \in 1..MaxVersion : Exists(<<b, w>>) <=> w < v}

NewRecord(spec) ==
  [status |-> "EXPLORATORY", validation |-> "NOT_STARTED", spec |-> spec,
   designated |-> {}]

\* A fresh candidate_base_id is a new uuid: no row and no other call has it.
FreshLineage(b) ==
  /\ \A v \in 1..MaxVersion : ~ Exists(<<b, v>>)
  /\ \A s \in Sessions : cand[s] # NoCandidate => Lineage(cand[s]) # b

CreateCandidate(s, b, spec) ==
  /\ FreshLineage(b)
  /\ \E v \in NextVersion(b) :
       Begin(s, "create", "insert", <<b, v>>, NewRecord(spec))
  /\ UNCHANGED tables

NewCandidateVersion(s, parent, spec) ==
  /\ Exists(parent)
  /\ \E v \in NextVersion(Lineage(parent)) :
       Begin(s, "version", "insert", <<Lineage(parent), v>>, NewRecord(spec))
  /\ UNCHANGED tables

\* INSERT INTO candidates; the primary key rejects a version another session
\* inserted after this one computed max(version), and the call raises.
InsertCandidate(s) ==
  /\ at[s] = "insert"
  /\ IF Exists(cand[s])
     THEN UNCHANGED <<record, column>>
     ELSE /\ record' = [record EXCEPT ![cand[s]] = snap[s]]
          /\ column' = [column EXCEPT ![cand[s]] = snap[s].status]
  /\ Return(s)
  /\ UNCHANGED <<usage, failures>>

-----------------------------------------------------------------------------
(* freeze_candidate and modify_candidate *)

\* Mutant: any existing candidate passes the immutability guard.
ModifiableMutant(r) == r.status # "ABSENT"
Modifiable(r) == r.status \in {"EXPLORATORY", "PROMISING"}

FreezeCandidate(s, c, designated) ==
  /\ Modifiable(record[c])
  /\ Begin(s, "freeze", "update", c,
           [record[c] EXCEPT !.status = "FROZEN", !.designated = designated])
  /\ UNCHANGED tables

\* changes is any subset of the scientific fields: the result is some spec.
ModifyCandidate(s, c, spec) ==
  /\ Modifiable(record[c])
  /\ Begin(s, "modify", "updateJson", c, [record[c] EXCEPT !.spec = spec])
  /\ UNCHANGED tables

\* UPDATE candidates SET record_json=?,status=?: unconditional, from the
\* record the session read earlier.
UpdateCandidate(s) ==
  /\ at[s] = "update"
  /\ record' = [record EXCEPT ![cand[s]] = snap[s]]
  /\ column' = [column EXCEPT ![cand[s]] = snap[s].status]
  /\ Return(s)
  /\ UNCHANGED <<usage, failures>>

\* modify_candidate's UPDATE sets record_json only.
UpdateCandidateJson(s) ==
  /\ at[s] = "updateJson"
  /\ record' = [record EXCEPT ![cand[s]] = snap[s]]
  /\ Return(s)
  /\ UNCHANGED <<column, usage, failures>>

-----------------------------------------------------------------------------
(* validation_eligibility, request_validation and validation_failed *)

\* The gate's other reasons (complete specification, discovery experiments,
\* dataset checksums, Stage 4 audits) concern records this module leaves out;
\* they hold here, as each of them can only refuse more.
Eligible(r) ==
  /\ r.status = "FROZEN"
  /\ r.designated # {}
  /\ \A d \in r.designated : <<d, "DISCOVERY">> \notin usage

RequestValidation(s, c) ==
  /\ Eligible(record[c])
  /\ Begin(s, "request", "request", c, Absent)
  /\ UNCHANGED tables

Requested(r) == [r EXCEPT !.status = "VALIDATING", !.validation = "IN_PROGRESS"]

\* request_validation reads the candidate again after the gate.
LoadRequested(s) ==
  /\ at[s] = "request"
  /\ at' = [at EXCEPT ![s] = "update"]
  /\ snap' = [snap EXCEPT ![s] = Requested(record[cand[s]])]
  /\ UNCHANGED <<tables, cand>>

\* Mutant: the verdict is stored without marking the datasets.
ValidationFailedMutant(s, c) ==
  /\ record[c].status \in {"FROZEN", "VALIDATING"}
  /\ Begin(s, "fail", "reject", c,
           [record[c] EXCEPT !.status = "REJECTED", !.validation = "FAILED"])
  /\ UNCHANGED tables
ValidationFailed(s, c) ==
  /\ record[c].status \in {"FROZEN", "VALIDATING"}
  /\ Begin(s, "fail", "usage", c,
           [record[c] EXCEPT !.status = "REJECTED", !.validation = "FAILED"])
  /\ UNCHANGED tables

\* One transaction per designated dataset, then the verdict.
RecordFailureUsage(s) ==
  /\ at[s] = "usage"
  /\ \/ /\ \E d \in snap[s].designated :
            /\ <<d, "VALIDATION">> \notin usage
            /\ usage' = usage \union {<<d, "VALIDATION">>}
       /\ UNCHANGED locals
     \/ /\ \A d \in snap[s].designated : <<d, "VALIDATION">> \in usage
       /\ UNCHANGED usage
       /\ Goto(s, "reject")
  /\ UNCHANGED <<record, column, failures>>

RejectCandidate(s) ==
  /\ at[s] = "reject"
  /\ record' = [record EXCEPT ![cand[s]] = snap[s]]
  /\ column' = [column EXCEPT ![cand[s]] = snap[s].status]
  /\ failures' = failures \union {<<cand[s], snap[s].designated>>}
  /\ Return(s)
  /\ UNCHANGED usage

\* ResearchAuditor.record_dataset_usage, called for a discovery read of d.
RecordDiscoveryUsage(d) ==
  /\ "usage" \in Menu
  /\ usage' = usage \union {<<d, "DISCOVERY">>}
  /\ UNCHANGED <<record, column, failures, locals>>

-----------------------------------------------------------------------------

\* The process stops between two transactions.
Crash(s) ==
  /\ Crashes
  /\ at[s] # "idle"
  /\ Return(s)
  /\ UNCHANGED tables

ControlStep(s) ==
  \/ \E b \in Lineages, spec \in Specs : CreateCandidate(s, b, spec)
  \/ \E c \in Candidates, spec \in Specs : NewCandidateVersion(s, c, spec)
  \/ \E c \in Candidates, ds \in SUBSET Datasets : FreezeCandidate(s, c, ds)
  \/ \E c \in Candidates, spec \in Specs : ModifyCandidate(s, c, spec)
  \/ \E c \in Candidates : RequestValidation(s, c)
  \/ \E c \in Candidates : ValidationFailed(s, c)
  \/ InsertCandidate(s)
  \/ UpdateCandidate(s)
  \/ UpdateCandidateJson(s)
  \/ LoadRequested(s)
  \/ RecordFailureUsage(s)
  \/ RejectCandidate(s)

ControlNext ==
  \/ \E s \in Sessions : ControlStep(s)
  \/ \E s \in Sessions : Crash(s)
  \/ \E d \in Datasets : RecordDiscoveryUsage(d)

ControlSpec == Init /\ [][ControlNext]_controlVars

-----------------------------------------------------------------------------
(* Properties *)

\* The types of the variables, when sessions run transactions named in labels.
ControlTyped(labels) ==
  /\ record \in [Candidates -> Record \union {Absent}]
  /\ column \in [Candidates -> Statuses \union {"ABSENT"}]
  /\ usage \subseteq Datasets \X {"DISCOVERY", "VALIDATION"}
  /\ failures \subseteq Candidates \X SUBSET Datasets
  /\ at \in [Sessions -> labels]
  /\ cand \in [Sessions -> Candidates \union {NoCandidate}]
  /\ snap \in [Sessions -> Record \union {Absent}]

\* Every variable has its type when only control calls run.
ControlTypeOK == ControlTyped(ControlLabels)

\* Sessions that compute max(version) + 1 from the same rows never leave a
\* hole in a lineage: one of them inserts, the others raise.
VersionsContiguous ==
  \A b \in Lineages, v, w \in 1..MaxVersion :
    Exists(<<b, v>>) /\ w < v => Exists(<<b, w>>)

\* A recorded validation failure has marked every designated dataset as used
\* for validation, whatever crashes and interleavings came between the two
\* transactions.
FailureMarksDatasets ==
  \A f \in failures : f[2] \X {"VALIDATION"} \subseteq usage

\* The specification of a frozen candidate never changes: modify_candidate
\* refuses it, and a material change makes a new version.
FrozenSpecImmutable ==
  [][\A c \in Candidates :
       record[c].status \notin {"ABSENT", "EXPLORATORY", "PROMISING"} =>
         record'[c].spec = record[c].spec]_controlVars

Rank == [ABSENT |-> 0, EXPLORATORY |-> 1, PROMISING |-> 1, FROZEN |-> 2,
         VALIDATING |-> 3, VALIDATED |-> 4, REJECTED |-> 4, RETIRED |-> 5]

\* A candidate never goes back in its lifecycle, and VALIDATED and REJECTED
\* are never exchanged for each other: a modified candidate is a new version.
LifecycleForward ==
  [][\A c \in Candidates :
       \/ record'[c].status = record[c].status
       \/ Rank[record'[c].status] > Rank[record[c].status]]_controlVars

=============================================================================
