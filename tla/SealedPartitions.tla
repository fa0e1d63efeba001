--------------------------- MODULE SealedPartitions ---------------------------
(***************************************************************************)
(* sandbox/partition/service.py (class PartitionService) together with the *)
(* candidates of CandidateControl: bindings of frozen candidates to        *)
(* validation partitions, sealed validation, authorization of the final    *)
(* test, the sealed final test, reads through access(), the access ledger  *)
(* and the contamination records that make an exposure permanent.          *)
(*                                                                         *)
(* The sealed methods share _sealed_preflight, so one chain of steps       *)
(* stands for both: kind "VALIDATION" and kind "FINAL_TEST".  As in        *)
(* CandidateControl each step is one catalog transaction (or one group of  *)
(* reads on tables that only grow) of a session, and a session may stop    *)
(* between any two.                                                        *)
(***************************************************************************)
EXTENDS CandidateControl, FiniteSets

CONSTANTS
  Partitions,   \* registered partitions, all of one research program
  Role,         \* partition -> PartitionRole
  Source,       \* partition -> the dataset it is cut from
  Requests,     \* the <<context, operation>> pairs access() is called with
  MaxLedger,    \* bound: no new protected call once the ledger has that many rows
  NoPartition, NoLineage, NoSpecBound

Roles == {"DISCOVERY", "VALIDATION", "FINAL_TEST", "DIAGNOSTIC"}
Kinds == {"VALIDATION", "FINAL_TEST"}
Contexts == {"DISCOVERY", "VALIDATION", "FINAL_TEST", "SYSTEM_INTEGRITY"}

\* AccessOperation, by what access() tells apart: METADATA_READ, the two
\* integrity operations, WARMUP_READ, the three that count as an evaluation
\* (EVALUATION_READ, BACKTEST_EXECUTION, RAW_CANDLE_READ), and the rest.
Operations == {"METADATA", "INTEGRITY", "WARMUP", "EVALUATION", "ANALYSIS"}

ASSUME PartitionAssumption ==
  /\ Role \in [Partitions -> Roles]
  /\ Source \in [Partitions -> Datasets]
  /\ Requests \subseteq Contexts \X Operations
  /\ MaxLedger \in Nat
  /\ NoPartition \notin Partitions
  /\ NoLineage \notin Lineages
  /\ NoSpecBound \notin Specs

VARIABLES
  binding,        \* partition_bindings: candidate, partition -> bound spec
  claim,          \* validation_ and final_execution_claims: their status
  validated,      \* sealed_validation_results rows
  authorized,     \* final_authorizations rows
  tested,         \* sealed_final_results rows
  contamination,  \* contamination_records rows
  ledger,         \* partition_access_ledger rows, without their hashes
  runs,           \* how often the sealed engine ran on candidate, partition
  revealed,       \* market values access() has returned, and to whom
  arg             \* locals: the partition and the other arguments of the call

partTables == <<binding, claim, validated, authorized, tested, contamination,
                ledger, runs, revealed>>
vars == <<controlVars, partTables, arg>>

\* mode is the sealed method's kind or access()'s context; via is the
\* partition of the validation result an authorization names.
Arg == [part : Partitions \union {NoPartition}, mode : Contexts \union {"NONE"},
        op : Operations \union {"NONE"}, via : Partitions \union {NoPartition}]
NoArg == [part |-> NoPartition, mode |-> "NONE", op |-> "NONE", via |-> NoPartition]
Args(p, mode, op, via) == [part |-> p, mode |-> mode, op |-> op, via |-> via]

Pairs == Candidates \X Partitions
ClaimStatuses == {"NONE", "RUNNING", "COMPLETED"}
ContaminationKinds == {"DISCOVERY_EXPOSURE", "VALIDATION_EXPOSURE",
                       "FINAL_TEST_EXPOSURE", "UNAUTHORIZED_ACCESS_ATTEMPT"}

PartitionInit ==
  /\ Init
  /\ binding = [x \in Pairs |-> NoSpecBound]
  /\ claim = [x \in Pairs |-> "NONE"]
  /\ validated = {}
  /\ authorized = {}
  /\ tested = {}
  /\ contamination = {}
  /\ ledger = {}
  /\ runs = [x \in Pairs |-> 0]
  /\ revealed = {}
  /\ arg = [s \in Sessions |-> NoArg]

-----------------------------------------------------------------------------
(* What the code looks up in the tables. *)

Here(s) == <<cand[s], arg[s].part>>

\* Mutant: only final-test exposures are looked up.
LineageContaminatedMutant(l, p) ==
  \E x \in contamination :
    x.lineage = l /\ x.part = p /\ x.kind = "FINAL_TEST_EXPOSURE"
\* RESULT_DRIVEN_REUSE is also looked up by the code, and never recorded.
LineageContaminated(l, p) ==
  \E x \in contamination :
    /\ x.lineage = l
    /\ x.part = p
    /\ x.kind \in {"VALIDATION_EXPOSURE", "FINAL_TEST_EXPOSURE"}

\* Mutant: only refused attempts close a final partition.
FinalPartitionExposedMutant(p) ==
  \E x \in contamination : x.part = p /\ x.kind = "UNAUTHORIZED_ACCESS_ATTEMPT"
FinalPartitionExposed(p) ==
  \E x \in contamination :
    /\ x.part = p
    /\ x.kind \in {"FINAL_TEST_EXPOSURE", "UNAUTHORIZED_ACCESS_ATTEMPT"}

PassedValidation(c, p) ==
  \E v \in validated : v.cand = c /\ v.part = p /\ v.passed

\* Mutant: the lifecycle check of the final test is left out.
IsValidatedMutant(r) == r.status # "ABSENT"
IsValidated(r) == r.status = "VALIDATED" /\ r.validation = "PASSED"

LineageOf(c) ==
  IF c # NoCandidate /\ Exists(c) THEN Lineage(c) ELSE NoLineage

-----------------------------------------------------------------------------
(* Steps shared by the calls.  An entry of the ledger and a contamination   *)
(* record are two transactions.                                             *)

BeginCall(s, call, label, c, r, a) ==
  /\ Cardinality(ledger) < MaxLedger
  /\ Begin(s, call, label, c, r)
  /\ arg' = [arg EXCEPT ![s] = a]

Step(s, label) == Goto(s, label) /\ UNCHANGED arg

Finish(s) == Return(s) /\ arg' = [arg EXCEPT ![s] = NoArg]

LedgerRow(s, decision) ==
  [part |-> arg[s].part, cand |-> cand[s], mode |-> arg[s].mode,
   op |-> arg[s].op, decision |-> decision]

ContaminationRow(s, kind) ==
  [part |-> arg[s].part, lineage |-> LineageOf(cand[s]), kind |-> kind]

\* Mutant: the refusal of a final partition is recorded but not logged.
DenyLedgerMutant(s) ==
  /\ at[s] = "denyLedger"
  /\ IF Role[arg[s].part] = "FINAL_TEST"
     THEN Step(s, "denyContaminate") /\ UNCHANGED ledger
     ELSE Finish(s) /\ ledger' = ledger \union {LedgerRow(s, "DENIED")}
  /\ UNCHANGED <<tables, binding, claim, validated, authorized, tested,
                 contamination, runs, revealed>>
\* _deny: a DENIED ledger row, then, for a final partition only, the record
\* that closes it for the whole program.
DenyLedger(s) ==
  /\ at[s] = "denyLedger"
  /\ ledger' = ledger \union {LedgerRow(s, "DENIED")}
  /\ IF Role[arg[s].part] = "FINAL_TEST" THEN Step(s, "denyContaminate") ELSE Finish(s)
  /\ UNCHANGED <<tables, binding, claim, validated, authorized, tested,
                 contamination, runs, revealed>>

DenyContaminate(s) ==
  /\ at[s] = "denyContaminate"
  /\ contamination' = contamination \union
       {ContaminationRow(s, "UNAUTHORIZED_ACCESS_ATTEMPT")}
  /\ Finish(s)
  /\ UNCHANGED <<tables, binding, claim, validated, authorized, tested, ledger,
                 runs, revealed>>

\* The nested deny() of _sealed_preflight: only the final test records it.
Deny(s) ==
  IF arg[s].mode = "FINAL_TEST" THEN Step(s, "denyLedger") ELSE Finish(s)

-----------------------------------------------------------------------------
(* bind_validation *)

BindValidation(s, c, p) ==
  /\ record[c].status = "FROZEN"
  /\ Role[p] = "VALIDATION"
  /\ Source[p] \in record[c].designated
  /\ BeginCall(s, "bind", "bindCheck", c, record[c], Args(p, "NONE", "NONE", NoPartition))
  /\ UNCHANGED <<tables, partTables>>

CheckBinding(s) ==
  /\ at[s] = "bindCheck"
  /\ IF /\ ~ LineageContaminated(Lineage(cand[s]), arg[s].part)
        /\ Eligible(record[cand[s]])
     THEN Step(s, "bindInsert")
     ELSE Finish(s)
  /\ UNCHANGED <<tables, partTables>>

\* The binding freezes the fingerprints of the record read first; a second
\* binding of the pair breaks the UNIQUE constraint and the call raises.
InsertBinding(s) ==
  /\ at[s] = "bindInsert"
  /\ binding' = IF binding[Here(s)] = NoSpecBound
                THEN [binding EXCEPT ![Here(s)] = snap[s].spec] ELSE binding
  /\ Finish(s)
  /\ UNCHANGED <<tables, claim, validated, authorized, tested, contamination,
                 ledger, runs, revealed>>

-----------------------------------------------------------------------------
(* authorize_final *)

AuthorizeFinal(s, c, p, via) ==
  /\ IsValidated(record[c])
  /\ BeginCall(s, "authorize", "authCheck", c, record[c], Args(p, "NONE", "NONE", via))
  /\ UNCHANGED <<tables, partTables>>

CheckAuthorization(s) ==
  /\ at[s] = "authCheck"
  /\ IF /\ PassedValidation(cand[s], arg[s].via)
        /\ Role[arg[s].part] = "FINAL_TEST"
        /\ ~ LineageContaminated(Lineage(cand[s]), arg[s].part)
        /\ ~ FinalPartitionExposed(arg[s].part)
     THEN Step(s, "authInsert")
     ELSE Finish(s)
  /\ UNCHANGED <<tables, partTables>>

InsertAuthorization(s) ==
  /\ at[s] = "authInsert"
  /\ authorized' =
       IF \E a \in authorized : a.cand = cand[s] /\ a.part = arg[s].part
       THEN authorized
       ELSE authorized \union {[cand |-> cand[s], part |-> arg[s].part,
                                spec |-> snap[s].spec, via |-> arg[s].via]}
  /\ Finish(s)
  /\ UNCHANGED <<tables, binding, claim, validated, tested, contamination,
                 ledger, runs, revealed>>

-----------------------------------------------------------------------------
(* sealed_validation_execute, sealed_final_execute and their strategy forms *)

SealedExecute(s, c, p, kind) ==
  /\ BeginCall(s, "sealed", "preflight", c, record[c],
               Args(p, kind, "EVALUATION", NoPartition))
  /\ UNCHANGED <<tables, partTables>>

BoundAndFrozen(s) ==
  /\ snap[s].status = "FROZEN"
  /\ binding[Here(s)] = snap[s].spec

\* Mutant: an authorization is trusted without comparing what it is for.
AuthorizedAndValidatedMutant(s) ==
  \E a \in authorized :
    a.cand = cand[s] /\ a.part = arg[s].part /\ PassedValidation(cand[s], a.via)
AuthorizedAndValidated(s) ==
  /\ IsValidated(snap[s])
  /\ \E a \in authorized :
       /\ a.cand = cand[s]
       /\ a.part = arg[s].part
       /\ a.spec = snap[s].spec
       /\ PassedValidation(cand[s], a.via)

Executed(c, p) ==
  \E v \in validated \union tested : v.cand = c /\ v.part = p

\* The strategy forms also compare the plugin's fingerprints, which are part
\* of the specification.  The row of a binding keeps status BOUND in its
\* record_json, so that check of the code never refuses.
PreflightPasses(s) ==
  /\ snap[s] # Absent
  /\ Role[arg[s].part] = arg[s].mode
  /\ IF arg[s].mode = "FINAL_TEST" THEN AuthorizedAndValidated(s) ELSE BoundAndFrozen(s)
  /\ ~ Executed(cand[s], arg[s].part)
  /\ ~ LineageContaminated(Lineage(cand[s]), arg[s].part)
  /\ arg[s].mode = "FINAL_TEST" => ~ FinalPartitionExposed(arg[s].part)

Preflight(s) ==
  /\ at[s] = "preflight"
  /\ IF PreflightPasses(s) THEN Step(s, "claim") ELSE Deny(s)
  /\ UNCHANGED <<tables, partTables>>

\* Mutant: a claim left RUNNING by a failed execution may be taken again.
UnclaimedMutant(x) == claim[x] # "COMPLETED"
Unclaimed(x) == claim[x] = "NONE"

\* INSERT of the claim: its primary key admits one execution of the pair.
Claim(s) ==
  /\ at[s] = "claim"
  /\ IF Unclaimed(Here(s))
     THEN /\ claim' = [claim EXCEPT ![Here(s)] = "RUNNING"]
          /\ Step(s, "run")
     ELSE /\ Deny(s)
          /\ UNCHANGED claim
  /\ UNCHANGED <<tables, binding, validated, authorized, tested, contamination,
                 ledger, runs, revealed>>

\* Mutant: the lifecycle status is written into validation_status too.
JudgedMutant(r, passed) ==
  LET status == IF passed THEN "VALIDATED" ELSE "REJECTED"
  IN [r EXCEPT !.status = status, !.validation = status]
\* The verdict on a candidate, built from the record read in the preflight.
Judged(r, passed) ==
  IF passed THEN [r EXCEPT !.status = "VALIDATED", !.validation = "PASSED"]
            ELSE [r EXCEPT !.status = "REJECTED", !.validation = "FAILED"]

\* _sealed_frame and the deterministic engine.  The run's artifacts, its
\* research_runs row and its evidence report are stored here, none of them in
\* a table of this module.
RunSealed(s) ==
  /\ at[s] = "run"
  /\ runs' = [runs EXCEPT ![Here(s)] = @ + 1]
  /\ at' = [at EXCEPT ![s] = "commit"]
  /\ IF arg[s].mode = "VALIDATION"
     THEN \E passed \in BOOLEAN : snap' = [snap EXCEPT ![s] = Judged(@, passed)]
     ELSE UNCHANGED snap
  /\ UNCHANGED <<tables, cand, arg, binding, claim, validated, authorized, tested,
                 contamination, ledger, revealed>>

\* The checksum, the plugin or the intents are refused, before or after the
\* frame is read.  The claim stays RUNNING.  A final test refused for its
\* intents or its checksum goes through _deny, one that raises does not.
SealedRunFails(s) ==
  /\ at[s] = "run"
  /\ \E read \in {0, 1} : runs' = [runs EXCEPT ![Here(s)] = @ + read]
  /\ Deny(s) \/ Finish(s)
  /\ UNCHANGED <<tables, binding, claim, validated, authorized, tested,
                 contamination, ledger, revealed>>

ResultRow(s) ==
  [cand |-> cand[s], part |-> arg[s].part, spec |-> snap[s].spec,
   passed |-> snap[s].validation = "PASSED"]

\* One transaction: the result, the candidate (from the preflight's record),
\* the binding's status column (never read) and the claim.
CommitValidation(s) ==
  /\ at[s] = "commit"
  /\ arg[s].mode = "VALIDATION"
  /\ validated' = validated \union {ResultRow(s)}
  /\ record' = [record EXCEPT ![cand[s]] = snap[s]]
  /\ column' = [column EXCEPT ![cand[s]] = snap[s].status]
  /\ claim' = [claim EXCEPT ![Here(s)] = "COMPLETED"]
  /\ Step(s, "ledger")
  /\ UNCHANGED <<usage, failures, binding, authorized, tested, contamination,
                 ledger, runs, revealed>>

\* The final test leaves the candidate as it is; whether it passed is in the
\* row and read by nobody, so only what was tested is kept here.
CommitFinal(s) ==
  /\ at[s] = "commit"
  /\ arg[s].mode = "FINAL_TEST"
  /\ tested' = tested \union
       {[cand |-> cand[s], part |-> arg[s].part, spec |-> snap[s].spec]}
  /\ claim' = [claim EXCEPT ![Here(s)] = "COMPLETED"]
  /\ Step(s, "ledger")
  /\ UNCHANGED <<tables, binding, validated, authorized, contamination, ledger,
                 runs, revealed>>

\* Mutant: the call returns once the ledger row is written.
LedgerSealedMutant(s) ==
  /\ at[s] = "ledger"
  /\ ledger' = ledger \union {LedgerRow(s, "ALLOWED")}
  /\ Finish(s)
  /\ UNCHANGED <<tables, binding, claim, validated, authorized, tested,
                 contamination, runs, revealed>>
LedgerSealed(s) ==
  /\ at[s] = "ledger"
  /\ ledger' = ledger \union {LedgerRow(s, "ALLOWED")}
  /\ Step(s, "contaminate")
  /\ UNCHANGED <<tables, binding, claim, validated, authorized, tested,
                 contamination, runs, revealed>>

ContaminateSealed(s) ==
  /\ at[s] = "contaminate"
  /\ contamination' = contamination \union
       {ContaminationRow(s, IF arg[s].mode = "FINAL_TEST" THEN "FINAL_TEST_EXPOSURE"
                                                       ELSE "VALIDATION_EXPOSURE")}
  /\ Finish(s)
  /\ UNCHANGED <<tables, binding, claim, validated, authorized, tested, ledger,
                 runs, revealed>>

-----------------------------------------------------------------------------
(* access and warmup *)

\* The call returns market values and not only metadata or a checksum.
Shows(mode, op) == op # "METADATA" /\ mode # "SYSTEM_INTEGRITY"

ValidationReadAllowed(c, p) ==
  /\ Role[p] = "VALIDATION"
  /\ c # NoCandidate
  /\ binding[<<c, p>>] # NoSpecBound
  /\ record[c].spec = binding[<<c, p>>]
  /\ ~ LineageContaminated(Lineage(c), p)

AccessAllowed(c, p, mode, op) ==
  \/ op = "METADATA"
  \/ mode = "SYSTEM_INTEGRITY" /\ op = "INTEGRITY"
  \/ /\ Shows(mode, op)
     /\ Role[p] # "FINAL_TEST"
     /\ mode = "DISCOVERY" => Role[p] \in {"DISCOVERY", "DIAGNOSTIC"}
     /\ mode = "VALIDATION" => ValidationReadAllowed(c, p)

\* derive_timeframe is an access with op ANALYSIS (AGGREGATE_READ).
Access(s, c, p, mode, op) ==
  /\ BeginCall(s, "access",
               IF AccessAllowed(c, p, mode, op) THEN "accessLedger" ELSE "denyLedger",
               c, Absent, Args(p, mode, op, NoPartition))
  /\ UNCHANGED <<tables, partTables>>

\* Bars of a pre-validation partition p for a candidate bound to q.
Warmup(s, c, p, q) ==
  /\ record[c].status \in {"FROZEN", "VALIDATING"}
  /\ binding[<<c, q>>] # NoSpecBound
  /\ Role[p] \in {"DISCOVERY", "DIAGNOSTIC"}
  /\ BeginCall(s, "warmup", "accessLedger", c, Absent,
               Args(p, "VALIDATION", "WARMUP", NoPartition))
  /\ UNCHANGED <<tables, partTables>>

RevealedRow(s) ==
  [part |-> arg[s].part, cand |-> cand[s], mode |-> arg[s].mode, op |-> arg[s].op]

\* Mutant: reading discovery data does not count as an exposure.
ContaminatesMutant(mode, op) == op = "EVALUATION" /\ mode = "VALIDATION"
Contaminates(mode, op) ==
  /\ Shows(mode, op)
  /\ mode = "DISCOVERY" \/ (mode = "VALIDATION" /\ op = "EVALUATION")

AccessLedger(s) ==
  /\ at[s] = "accessLedger"
  /\ ledger' = ledger \union {LedgerRow(s, "ALLOWED")}
  /\ IF Contaminates(arg[s].mode, arg[s].op)
     THEN /\ Step(s, "accessContaminate")
          /\ UNCHANGED revealed
     ELSE /\ Finish(s)
          /\ revealed' = IF Shows(arg[s].mode, arg[s].op)
                         THEN revealed \union {RevealedRow(s)} ELSE revealed
  /\ UNCHANGED <<tables, binding, claim, validated, authorized, tested,
                 contamination, runs>>

AccessContaminate(s) ==
  /\ at[s] = "accessContaminate"
  /\ contamination' = contamination \union
       {ContaminationRow(s, IF arg[s].mode = "DISCOVERY" THEN "DISCOVERY_EXPOSURE"
                                                      ELSE "VALIDATION_EXPOSURE")}
  /\ revealed' = revealed \union {RevealedRow(s)}
  /\ Finish(s)
  /\ UNCHANGED <<tables, binding, claim, validated, authorized, tested, ledger,
                 runs>>

-----------------------------------------------------------------------------

\* The transactions a call still has to run, whichever call it is.
Continue(s) ==
  \/ CheckBinding(s) \/ InsertBinding(s)
  \/ CheckAuthorization(s) \/ InsertAuthorization(s)
  \/ Preflight(s) \/ Claim(s) \/ RunSealed(s) \/ SealedRunFails(s)
  \/ CommitValidation(s) \/ CommitFinal(s)
  \/ LedgerSealed(s) \/ ContaminateSealed(s)
  \/ AccessLedger(s) \/ AccessContaminate(s)
  \/ DenyLedger(s) \/ DenyContaminate(s)

PartitionCall(s) ==
  \/ \E c \in Candidates, p \in Partitions : BindValidation(s, c, p)
  \/ \E c \in Candidates, p, via \in Partitions : AuthorizeFinal(s, c, p, via)
  \/ \E c \in Candidates, p \in Partitions, kind \in Kinds : SealedExecute(s, c, p, kind)
  \/ \E c \in Candidates \union {NoCandidate}, p \in Partitions,
       q \in Requests : Access(s, c, p, q[1], q[2])
  \/ \E c \in Candidates, p, q \in Partitions : Warmup(s, c, p, q)

\* A step of CandidateControl; a crash also drops the partition locals.
Control ==
  /\ ControlNext
  /\ arg' = [s \in Sessions |-> IF at'[s] = "idle" THEN NoArg ELSE arg[s]]
  /\ UNCHANGED partTables

Next ==
  \/ Control
  \/ \E s \in Sessions : PartitionCall(s)
  \/ \E s \in Sessions : Continue(s)

Spec == PartitionInit /\ [][Next]_vars

-----------------------------------------------------------------------------
(* Properties *)

SealedLabels == {"bindCheck", "bindInsert", "authCheck", "authInsert",
  "preflight", "claim", "run", "commit", "ledger", "contaminate",
  "accessLedger", "accessContaminate", "denyLedger", "denyContaminate"}

\* The types of the partition tables.
PartitionTyped ==
  /\ binding \in [Pairs -> Specs \union {NoSpecBound}]
  /\ claim \in [Pairs -> ClaimStatuses]
  /\ validated \subseteq [cand : Candidates, part : Partitions, spec : Specs,
                          passed : BOOLEAN]
  /\ authorized \subseteq [cand : Candidates, part : Partitions, spec : Specs,
                           via : Partitions]
  /\ tested \subseteq [cand : Candidates, part : Partitions, spec : Specs]
  /\ contamination \subseteq [part : Partitions, lineage : Lineages \union {NoLineage},
                              kind : ContaminationKinds]
  /\ ledger \subseteq [part : Partitions, cand : Candidates \union {NoCandidate},
                       mode : Contexts, op : Operations,
                       decision : {"ALLOWED", "DENIED"}]
  /\ runs \in [Pairs -> Nat]
  /\ revealed \subseteq [part : Partitions, cand : Candidates \union {NoCandidate},
                         mode : Contexts, op : Operations]

\* Every variable has its type, whatever the sessions interleave.
TypeOK ==
  /\ ControlTyped(ControlLabels \union SealedLabels)
  /\ arg \in [Sessions -> Arg]
  /\ PartitionTyped

\* A failed attempt keeps its claim: however calls interleave, fail, crash and
\* are retried, the sealed engine reads a partition at most once for a candidate.
ExecutedAtMostOnce == \A x \in Pairs : runs[x] <= 1

\* A final test ran exactly the specification that passed a sealed validation
\* of the same candidate, also when other sessions overwrite the candidate
\* with records they read earlier.
FinalTestOfValidatedSpec ==
  \A t \in tested : \E v \in validated :
    v.cand = t.cand /\ v.spec = t.spec /\ v.passed

\* A candidate is VALIDATED only on the strength of a passed sealed result of
\* its present specification: no interleaving of overwrites forges the status.
ValidatedIsBacked ==
  \A c \in Candidates : record[c].status = "VALIDATED" =>
    \E v \in validated : v.cand = c /\ v.spec = record[c].spec /\ v.passed

\* Nothing is contaminated that the access ledger does not account for: the
\* exposure has its ALLOWED row, the refused attempt its DENIED row.
ContaminationIsAudited ==
  \A x \in contamination : \E e \in ledger :
    /\ e.part = x.part
    /\ e.decision = IF x.kind = "UNAUTHORIZED_ACCESS_ATTEMPT" THEN "DENIED" ELSE "ALLOWED"

\* The values access() returned for discovery or evaluation were logged and
\* recorded as an exposure before the caller had them.
RevealedIsRecorded ==
  \A r \in revealed :
    /\ \E e \in ledger : /\ e.part = r.part /\ e.cand = r.cand
                         /\ e.op = r.op /\ e.decision = "ALLOWED"
    /\ r.mode = "DISCOVERY" =>
         \E x \in contamination : x.part = r.part /\ x.kind = "DISCOVERY_EXPOSURE"
    /\ r.mode = "VALIDATION" /\ r.op = "EVALUATION" =>
         \E x \in contamination : /\ x.part = r.part
                                 /\ x.kind = "VALIDATION_EXPOSURE"
                                 /\ x.lineage = Lineage(r.cand)

\* One sealed validation per lineage and partition: validation data cannot be
\* used again by a later version of the same candidate.
LineageValidatesOnce ==
  \A v, w \in validated :
    Lineage(v.cand) = Lineage(w.cand) /\ v.part = w.part => v = w

\* A final partition serves one final test in the whole program.
FinalPartitionUsedOnce ==
  \A t, u \in tested : t.part = u.part => t = u

\* Once a result is committed, the exposure of its partition is recorded.
ExposureEventuallyRecorded ==
  \A c \in Candidates, p \in Partitions :
    Executed(c, p) ~> (LineageContaminated(Lineage(c), p))

\* A process that has begun a call runs its transactions until it returns.
FairSpec == Spec /\ \A s \in Sessions : WF_vars(Continue(s))

-----------------------------------------------------------------------------
(* The abstract specification this module implements. *)

Evidence == INSTANCE EvidencePipeline WITH
  read   <- {x \in Pairs : runs[x] > 0},
  passed <- {<<v.cand, v.part, v.spec>> : v \in {w \in validated : w.passed}},
  tested <- {<<t.cand, t.part, t.spec>> : t \in tested}

\* Whatever the sessions do, the sealed results are evidence as the abstract
\* specification promises it: read once, judged once, validated before tested.
ImplementsEvidence == Evidence!Spec

=============================================================================
