# A formal model of the trading research sandbox

The repository keeps scientific evidence about trading strategies honest: data is partitioned, experiments and
candidates are frozen before they meet unseen data, and every exposure is recorded. The guards that promise this are
Python methods over one SQLite catalog. Each `with catalog.connection()` block is one transaction; a method is a
*sequence* of such blocks, so two processes (CLI, console, MCP server, tests) interleave between them and a process
can stop between any two. That is where the promises are hard to keep, hard to test, and where this project looks.

## Inventory

| Part (under `src/sandbox`) | State it keeps | Operations | What makes it correct | Model |
|---|---|---|---|---|
| Candidates, `control/service.py` 137-212 | `candidates`, `dataset_usage`, `validation_events` | create, new version, modify, freeze, eligibility, request, declare failed | versions without holes; frozen specification fixed; lifecycle forward; failure marks its data | `CandidateControl` |
| Questions, decisions, families, `control/service.py` | questions, decision rows, family rows | create, set status, reopen, close a branch, record decision, exhaust, `what_next` | closing a branch misses nothing; exhaustion is final | questions in `ResearchQuestions` |
| Sealed partitions, `partition/service.py` | partitions, bindings, claims, results, authorizations, contamination, ledger | create, bind, sealed validation, authorize, sealed final test, access, warm-up | a partition is evidence once; exposure is permanent and logged | `SealedPartitions`, `EvidencePipeline` |
| Experiment registry, `research/registry.py` | experiments, runs, results, verdicts | create, edit, approve, transition, link, replicate, judge | approved specification and criteria fixed; duplicates found; one verdict per result | `ExperimentRegistry` |
| Auditor, `audit/auditor.py` | audits, overrides, dataset usage | audit, override, gate, usage record | blocked research never runs; overrides name one audit | gate in `ExperimentRegistry`, usage in `CandidateControl` |
| Journal and ledger chain, `research/registry.py` 80-103, `partition/service.py` 104-123 | rows with hashes, head row | append, verify | chain linked; tampering found | journal in `ResearchQuestions` |
| Catalog, `catalog.py` | all tables | transactions, `upsert_raw_dataset` | receipts and catalog agree | its transactions are the steps of every module |
| Raw store, `storage.py`, `integrity.py` | Parquet files, sidecars, receipts, history | monthly writes, recovery | a crash leaves registered data readable and every revision kept | `RawStore`, `Observations` |
| MT5 download, `mt5.py`, `history.py` | none of its own | chunked download | retries disagree with nothing stored | its chunks and retries in `RawStore` |
| External imports, `external_import.py` | staged copies, manifests | stage, rename, register | no half-registered import | `ExternalImport` |
| Broker archive, `market_data/` | content-addressed files, manifests, `current.json` | ingest, sanitize | current manifest points to complete files; writers exclude each other | `TickArchive`, `FeedArchive`, sanitation in `ExternalImport` |
| Backtest engine, `execution/` | position and ledger of one run | per-bar resolution | deterministic, pessimistic on ambiguous bars | `BacktestEngine`, `StrategyRuns` |
| Statistics, `statistics/service.py` | evidence reports | bootstrap, report | numeric | not modelled |
| Market-state features, `market_state/` | per-bar detector state | swings, levels, touches, sessions | causal: no bar is used before it is confirmed | `SessionClock`, `LevelHistory`, `MarketStructure`, `DiscoveryRecords` |
| Discovery and validation studies, `market_state/discovery`, `validation`, `diagnostics` | result files | one-off studies | numeric | not modelled |
| Research memory, materialized execution, `research/` | fingerprinted records, persisted executions | remember, execute, persist | idempotent across crashes | `RunStore`, `Hypotheses`, `CandidateSearch` |
| Search and pipeline, `research/autonomous_search.py`, `discovery_runner.py`, `research_pipeline.py` and others | packages, catalog rows | generate and filter candidates, compile hypotheses, prepare, execute, persist | every question asked once; what is complete is whole | `CandidateSearch`, `Hypotheses`, `RunStore` |
| Statistics of cohorts and machine learning, `research/ml_*` and others | none | pure functions on frames | numeric | not modelled |
| Strategies and DSL, `strategies/` | plugin position state | evaluate conditions, emit intents | deterministic | `Strategies`, `Hypotheses` |
| Front ends, `cli.py`, `console.py`, `mcp_server.py` | none | call the services | – | the *sessions* of the models; the backtest command in `RunStore` |

How the parts interact: front ends call the services; the services share one catalog and nothing else, no locks are
held between transactions, and only the inserts of journal rows, ledger rows, experiment ids, verdicts and raw
datasets take `BEGIN IMMEDIATE`. The partition service reads candidates written by control, overwrites them with
verdicts, reads the discovery usage written by the auditor, and writes the contamination records that the auditor and
later preflights look up. The registry asks the auditor before an experiment may run.

The behaviours that are hard: a record read in one transaction and written back, whole, in a later one; a check and
the claim it protects in different transactions; a process that stops between a result and the record of the exposure
it caused; a retry of a sealed execution that failed half way. In the stores: a file renamed into place and the row or
pointer that names it written later; writers of one file, month or run id in several processes; a provider or source
file that changes its answer. In the algorithms: a bar used before it had closed, the same thing computed in two ways,
clock changes, missing bars. `PROJECT.json` lists each at its line.

## The modules

`CandidateControl.tla` models the candidate half of `ResearchControl`. `record` is `candidates.record_json`, `column`
the status column, `usage` and `failures` the rows of `dataset_usage` and `validation_events`. Each call begins with
the transaction that reads the candidate and checks its guard (`FreezeCandidate`, `ModifyCandidate`, ...), then its
remaining transactions are actions of their own, keyed by the label `at[s]`; `cand[s]` and `snap[s]` are the locals
carried between. `Crash` drops a session's locals between any two transactions. `modify_candidate` updates
`record_json` only, `freeze_candidate` the status column too: the model keeps the difference.

`SealedPartitions.tla` extends it with `PartitionService`. The sealed methods share `_sealed_preflight`, so a single
chain of steps — `SealedExecute` (read the candidate), `Preflight`, `Claim`, `RunSealed` or `SealedRunFails`,
`CommitValidation` or `CommitFinal`, `LedgerSealed`, `ContaminateSealed` — stands for the engine and the strategy
variants of both kinds. A validation commit overwrites the candidate with a record derived from the one the preflight
read, exactly as `_finish_validation` does. `Access` and `Warmup` are `access()` and `warmup()`; a refused call takes
the two transactions of `_deny`. `runs` (how often the engine read a partition for a candidate) and `revealed` (the
values a caller has) are history variables: they stand for effects outside the catalog.

`EvidencePipeline.tla` is the abstract specification of a sealed partition: read at most once per candidate, judged at
most once and only after it was read, final-tested only with a specification that passed a validation. It knows
nothing of sessions, statuses, claims, bindings, authorizations or ledgers. `SealedPartitions` implements it under the
mapping of `Evidence`; the run `sealed_concurrent` checks `ImplementsEvidence` and `EvidenceImplemented` proves it.

`ExperimentRegistry.tla` models experiments and the audit gate in the same style: `record`, `fingerprint` and `column`
are the three columns that `edit_experiment`, `approve_experiment` and `transition_experiment` write in different
combinations. An audit is identified by what its id hashes, the specification and the findings, and the findings are
chosen anew by every audit, because they depend on the rest of the catalog. `FindAudit` reads the experiment *again*,
as `audit()` does, while `UpdateStatus` writes the record read first.

### Market state and discovery records

`SessionClock.tla` maps instants to local blocks and sessions in zones whose clocks change, aggregates completed
blocks and looks them up at a decision. `LevelHistory.tla` follows price levels: what each bar does to a level, runs
of touches as state runs, episodes and transition patterns, anchors and forward outcomes. `MarketStructure.tla` has
swings, breaks, volatility ranks, counts and the regime twice, as the batch that carries them from bar to bar and as
the snapshot measured from one cutoff. `DiscoveryRecords.tla` composes them: its variables are a history `bars` that
grows by a bar or a hole (`NextBar`, `MissBar`), and `Records` assembles the anchors of each continuity segment with
their causal contexts and outcomes, as `build_discovery_record_population` does. The code here is pure functions of a
history, so the actions are the only thing that happens outside it: time passes. `Ordering.tla` holds sorting.

### Questions and the journal

`ResearchQuestions.tla` models the tree of questions and the journal of the registry. A researcher is in one call at a
time, `task[r]`, whose transactions are actions: `close_branch` visits a question, closes it, journals that and reads
its children, in turn, while others create, close and reopen questions. A hash is the sequence of ids it covers;
`AlterJournal` deletes or changes a row from outside. `due` (the questions a branch had open), `appended` and `vouched`
(what was ever appended, what was verified) are history variables.

### Data stores

`Observations.tla` has what every store does to rows: merge overlapping answers, audit, cut into segments, sanitize.
`RawStore.tla` is a download in chunks with retries and `write_months`: receipt, preserved revision, rename, catalog
row, sidecar, removal of the receipt, each a step the process may die before. `TickArchive.tla` is a month of ticks:
runs fetch hours in batches of workers, each hour publishes its raw body, decoded ticks, MT5 conversion and manifest
by create-only writes, and the summary certifies them. `FeedArchive.tla` is the incremental archive: pollers read,
fetch, lock, merge, write content-addressed files and move the pointer of the month. `ExternalImport.tla` is staging,
promotion, registration, certification and the sanitized derivative of imports, by competing importers.

### Execution, hypotheses, runs and search

`BacktestEngine.tla` is `engine.py`, `costs.py` and `metrics.py` as functions from intents and a market to a ledger
and its summary. `Strategies.tla` has the replay of `StrategyRuntime`, S001 with its set-up life cycle, Version 0 and
the synthetic strategy. `StrategyRuns.tla` runs them on a market `tape` that grows. `Hypotheses.tla` has the three
ways from a condition to trade intents: evaluated in Python, queried by SQL from a materialized view, and written as a
runner file. `RunStore.tla` models the commands that prepare, materialize, execute and store: executors read the
partition, verify it, publish files by rename and register rows, while the file may be altered and processes stop.
`CandidateSearch.tla` has the spaces and candidates of the autonomous search and the memory that searchers share.

### Instances

`MCControl`, `MCSealed`, `MCRegistry`, `MCRecords`, `MCBacktest` and `MCStores` hold the values of the instances.
`MCStores` puts the stores, the backtests, the hypotheses, the search and the questions side by side: they share no file and no row,
so a behaviour works one of them, chosen at the start, and no interleaving is lost.

The theorems are in `SealedPartitionsProofs` (with the candidates), `ExperimentRegistryProofs`,
`ResearchQuestionsProofs`, `RunStoreProofs` (with the candidate search and the hypotheses), `MarketArchiveProofs` (the
incremental feed and the tick months), `ObservationStoresProofs` (the raw store and the imports) and
`DiscoveryRecordsProofs`. `ListFacts` has the lemmas they share: lists, sets put in order, lists joined. Definitions
whose name ends in `Mutant` are plausible bugs: each property is shown to fail when the definition of the same name is
replaced by its mutant.

## What the runs check

| Run | Instance | Question and answer |
|---|---|---|
| `control_concurrent` | 2 sessions, 2 versions, 2 specifications, crashes | Do interleaved candidate calls keep lineages contiguous and failures marked? Yes. |
| `sealed_sequential` | 1 session, up to 2 candidates of one or two lineages | Does one process that calls one method after the other get one sealed result per lineage and validation partition, one use of a final partition, fixed frozen specifications, a forward lifecycle? Yes. |
| `sealed_concurrent` | 2 sessions, 1 candidate, 2 specifications, crashes | Does any interleaving read a partition twice, test an unvalidated specification, or forge VALIDATED? No; and the steps implement `EvidencePipeline`. |
| `access_concurrent` | 2 sessions, 3 partitions, crashes | Is every revealed value logged, and every contamination accounted for? Yes. |
| `sealed_liveness` | 2 sessions, weak fairness | Is every exposure eventually recorded if processes do not stop? Yes. |
| `registry_divided` | an author and a runner, 2 experiments, crashes | Are approved specifications, audits, results and verdicts consistent when one process writes specifications? Yes. |
| `market_stream` | histories of 7 steps with at most one bar missing, 3 candles, 2 zones with a clock change, 3 frames | Does a record know of later bars, or change when they come? Do the three views of touches, and the batch and the snapshot, agree? Is the looked-up block the latest completed one? Yes to the last two; no record changes. |
| `data_store` | one store per behaviour, with 2 or 3 concurrent processes each and crashes; tapes of 8 bars; 5 samples; 3 search spaces; trees of up to 4 questions | Is what is registered, certified, acknowledged, imported, complete or remembered backed by what it names? Do the three ways to evaluate a hypothesis agree? Do later bars change earlier signals, trades or statistics? Is a question of a search asked twice? Does closing a branch miss a question, or a verified journal lack an entry? All as they should be. |
| `frozen_overwritten` | 2 sessions | `modify_candidate` overwrites a candidate frozen in between: violated. |
| `final_after_crash` | 1 session, crashes | A final partition serves two final tests after a crash: violated. |
| `criteria_edited` | 2 authors | A PASS is judged by criteria edited after approval: violated. |
| `second_position` | a tape of 8 bars | A set-up that was active when S001 signalled signals too, with its first position unresolved: violated. |

The last four are real disagreements with comments and rules of the repository, quoted under `findings`. The
properties that fail for several writers hold for one (`sealed_sequential`, `registry_divided`): the repository's own
tests only ever run one, and that is the deployment in which its rules are kept.

Bounds. `MaxVersion` bounds versions per lineage (2 is the least with a race for a version and with two versions on
one partition). `MaxLedger` stops new protected calls once the ledger has that many rows; 3 rows admit a validation, a
final test and one more attempt, 4 admit two candidates with both. `TwoCandidates` bounds the catalog of
`sealed_sequential`. `MaxAudits` bounds audits of `registry_divided`; 2 admit an audit for each of two specifications
or two audits of one. `Menu` and `Calls` say which calls an instance makes, so that each run spends its states on its
question; every call is made in some passing run. Two sessions suffice for the races, which are all between a read and
a write of one row or one lookup and one insert. Symmetry is used on sessions, specifications, lineages or experiments
in safety runs only.

In `market_stream` a day is four steps, so that seven steps hold a completed block of each frame, a session across
midnight, both clock changes, an anchor and its outcome, and a hole at any place. In `data_store` a month is two to
six slots, so that every store has a month that is extended, one that is corrected and one with a hole; `MaxDownloads`,
`MaxFetches`, `MaxPolls`, `MaxJobs` and `MaxCommands` bound how often processes start, and `MaxCrashes`, `MaxStops`,
`MaxDeaths`, `MaxKills` and `MaxFaults` how often they die: one death and the retry after it, two where a recovery can
itself be interrupted (`RawStore`). Eight bars let S001 form an impulse, a pullback and a confirmation after its
warm-up, and a limit order fill bars after its signal. The samples have a NULL, an integer, a float and a text for
each field; every operator meets every one. The two valid search spaces overlap and list their fields in opposite
orders. The payloads of a tick hour are a body with a doubled tick and a disordered one; a 404 is the empty hour. A
behaviour of the questions starts with no question, or with an open child below a closed question, and has two calls
(`MaxQuestionCalls`), so that a walk or a verification races one other call, a stop and an altered row. Symmetry is
not used there: with the variables of nine stores in a state, permuting it costs more than it saves.

`CHECK_DEADLOCK FALSE` is set because a system in which every remaining call raises is simply finished.

Fairness. `FairSpec` assumes weak fairness of each session's next transaction: a Python method that has begun runs on
unless the process stops, and `sealed_liveness` is the question for processes that do not stop. Nothing is assumed
about calls being made. With crashes the property is false, which `final_after_crash` shows in its safety form.

## What is proved

Every theorem holds for all values of the constants that satisfy the assumptions named in the modules: any number of
processes, rows, partitions, months, hours, questions and bars, any bounds, any `Menu` and `Calls`, and crashes unless
said otherwise. Each safety property rests on an inductive invariant, which adds to the property what the processes
*know* between their steps: the locals they carry and what cannot have changed since they read it.

**Research control** (`SealedPartitionsProofs`). `ControlTypeCorrect`, `VersionsContiguousHolds` and
`FailureMarksDatasetsHolds`, from `ControlInvariant`. `VersionsContiguous` is not inductive: a session about to insert
version *n* must know that all smaller versions exist (they did when it read `max(version)` and rows are never
deleted); `FailureMarksDatasets` needs that a session about to store the verdict has marked every dataset it carries.

**Sealed partitions** (`SealedPartitionsProofs`).

- `TypeCorrect`, `ExecutedAtMostOnceHolds`, `FinalTestOfValidatedSpecHolds`, `ValidatedIsBackedHolds`,
  `ContaminationIsAuditedHolds`, `RevealedIsRecordedHolds` and the refinement `EvidenceImplemented`, from
  `SealedInvariant`. The interesting conjunct concerns snapshots: not only is every stored record with status VALIDATED
  backed by a passed result of its specification, so is every such record *in the locals of a session that may yet
  write it*. Stale overwrites can therefore lose information but never forge it. `ExecutedAtMostOnce` needs that the
  claim has one holder: a session between `Claim` and `Commit` is the only one for its pair, and the pair's run counter
  is zero until it runs.
- For one session (`OneCaller`), from `FreshInvariant`: `FrozenSpecImmutableHolds` and `LifecycleForwardHolds`. With
  one session every snapshot is *fresh*, equal to what is stored, until the session itself writes; that is all these
  need, and all that is lost with two (`frozen_overwritten`).
- For one session and no crash (`~Crashes`), from `OnceInvariant`: `LineageValidatesOnceHolds` and
  `FinalPartitionUsedOnceHolds`. The invariant says that exposure and its record are apart only while the call that
  caused it is still running. A crash leaves them apart for ever (`final_after_crash`), so the hypothesis is needed;
  the instance `sealed_sequential` satisfies both.

**Experiment registry** (`ExperimentRegistryProofs`).

- `RegistryTypeCorrect`, `VerdictOnceHolds` and `ResultLinkedHolds`, from `RegistryInvariant`, for several authors too.
  `ResultLinked` is not inductive: the link and the result are inserted by two transactions, so a session about to
  insert the result must know that the link is there (its own or one that `INSERT OR IGNORE` kept).
- With one author and any number of runners (`OneAuthor`), from `AuthorInvariant`: `RunningIsClearedHolds`,
  `ApprovedUniqueHolds`, `CriteriaFrozenHolds` and the action property `SpecificationStaysHolds`. The invariant
  divides experiments into those the author may still write and those that are frozen, and says that what a runner
  carries of a frozen one is still what is stored. Two authors break it (`criteria_edited`).

**Questions and journal** (`ResearchQuestionsProofs`).

- `BranchSweptHolds` from `SweepInvariant`: a walk knows that every set of questions that holds what it still has ahead
  and is closed downward, from a question to its children, holds every question still due. Stated so, the invariant
  survives questions that others add below the walk, and needs no induction over the tree; at the end nothing is ahead,
  the empty set qualifies, and nothing is due.
- `VerifiedJournalCompleteHolds` from `JournalInvariant`: `JournalWhole` says that the head counts every entry ever
  appended and that the rows are whole if they are as many; `ReadWhole`, that a verification that read as many rows as
  the head names had read them all. A deletion can hide behind an append only by leaving the count short.

**Stores** (`RunStoreProofs`, `MarketArchiveProofs`, `ObservationStoresProofs`).

- `CompletedIsBackedHolds`, `PublishedStaysHolds` and `WholeViewStaysHolds` of `RunStore`, from `RunInvariant`: a run
  that the catalog calls complete has all its files, of the partition as it was verified. Each command knows, stage by
  stage, which files are its own.
- `AcknowledgedIsServedHolds` and `ServedStaysHolds` of `FeedArchive`, from `FeedInvariant`: what a poll acknowledged
  is served for ever. The holder of the lock carries a merge that covers what the pointer names, and nobody else moves
  it; the poller that lost the lock publishes nothing.
- `MonthCertifiedHolds` of `TickArchive`, from `TickInvariant`, for any number of runs, workers and consecutive hours.
  Artifacts are created and never replaced, so what a worker saw published stays so; the records a run has collected
  are those of the hours before its batch, in the order of the hours.
- `RegisteredRecoverableHolds`, `MonthSettledHolds` and `EveryRevisionKeptHolds` of `RawStore`, from `RawInvariant`:
  `RawSafe` is what every crash may leave, `WriterKnows` what the running writer adds at each step (between the receipt
  and the rename, that the receipt names the present file and the merge).
- `ImportedIsBackedHolds`, `DerivativeTraceableHolds`, `CanonicalConsistentHolds` and `CatalogStaysHolds` of
  `ExternalImport`, from `ImportInvariant`: a promoted directory has one owner until it is registered. The derivative
  needs a lemma on sorted sequences, that sanitation removes only rows that are invalid or repeated.

**Search and hypotheses** (`RunStoreProofs`).

- `SearchNeverRepeatsHolds` of `CandidateSearch`, from `SearchInvariant`: everything remembered or pending is a
  canonical candidate of a valid space, and for such candidates the fingerprint is decided by what they ask. The
  candidates of a space are then shown to be as many as its questions. They are lists flattened out of lists, and that
  this gives a list is argued from the least place where it would not.
- `BuildersAgreeHolds` of `Hypotheses`, from `HypothesisInvariant` (the dataset is a list, and a row knows its place in
  it). A WHERE clause keeps a row exactly when the condition is satisfied, by cases on the operator and
  on NULL, of the column or in the list of the condition. Going row by row lists the matches in order, and there is one
  list of a set in order, so sorting what the queries return gives the same. Of the runner, that it finds the same rows,
  and that a bar follows a signal exactly when the signal is not after the last opening.

**Discovery records** (`DiscoveryRecordsProofs`).

- `HistoricalIsCausalHolds`, from `StreamInvariant`, for all zones, frames, sessions and histories: a block or session
  that a record sees had ended at its cutoff, and one that has ended is found unchanged in every longer history. The
  rows of a block are an interval of the history, and adding bars after it adds none to it.
- `ClockFindsLatestHolds`: the block that `expected_completed_window` names is the latest one completed, across clock
  changes. Blocks tile local time, so a probe that falls in the running block moves back over one boundary and no more;
  `Shifted` says which local hours a change skips or repeats, and no block may start in one.
- `StructureNeverRevisedHolds` and `SnapshotsAgreeHolds`: what is carried from bar to bar equals what one look back
  finds. A pass over the bars is a function of how many it has taken; that two passes with the same steps have the same
  values is shown of the least bar at which they would differ. The swings known at a bar are a set in order to which
  the next bar adds only pivots later than all of them.
- `RecordsNeverRevisedHolds`, `NoLookaheadHolds` and `RecordsAssembleHolds`, of any segment of any history: an anchor
  that is evident by *d* is an anchor of the history cut off at *d*, since all but the last run of states of a level are
  complete; its contexts depend only on bars before its evidence; a session or block that has ended is whole; and a
  later bar can only lengthen the segment that ends at the clock, while an outcome reads its window and nothing else.
- `LevelViewsAgreeHolds`: the touch episodes and the runs of a level in the state TOUCH are both the list, in order, of
  the maximal intervals of touched bars, and there is one such list; the occupancy counts follow from it.

The assumptions are typing of the constants and that null values are not real ones (`ControlAssumption`,
`PartitionAssumption`, `RegistryAssumption`, `AbsentAssumption`, `NoFileAssumption`, `ImportAssumption`), that the
histories of the terminal and the initial trees of questions are well formed (`FeedAssumption`, `TreesAssumption`),
that the hours of a month are consecutive (`TickAssumption`), and, for the clock, that blocks are whole hours that tile
the day, clocks change on the hour, and sessions start and end by day, outside the hours a change skips
(`FramesAssumption`, `SessionsAssumption`), as in the configured frames and sessions (Tokyo 9 to 18, London 8 to 17, New
York 8 to 17, `session_summary.py:37-39`). For the records, that candles are integers whose low and high enclose the
open and close (`StreamAssumption`), levels are integers of blocks that tile the day and horizons finitely many
(`LevelsAssumption`), windows at least one bar long (`StructureAssumption`); for the search and the hypotheses, that
fields, rules, conditions and values are lists, operators the known ones, and the market has a bar (`SearchAssumption`,
`HypothesesAssumption`), as their constructors enforce. TLC evaluates each in the runs.

Only model-checked:

- `ExposureEventuallyRecorded`, since the prover does not handle fairness and ENABLED.
- `TradesNeverRevised`: the signals, the ledger and its statistics are folds of fractions over lists that are filtered
  and sorted by an operator passed as an argument, which the provers cannot instantiate.

No run checks the type invariants of the modules that have a theorem for it again.

## Abstractions, and what they leave out

- A specification is a value: what is compared (fingerprints, frozen fields) is equality. `modify_candidate` is any
  change of the scientific fields.
- The gates that read records outside a module (missing fields, approved hypotheses, dataset checksums, complete
  experiments) are taken to pass; they can only refuse more.
- Read-only transactions that follow each other are one step when the tables they read only grow and the decision is
  monotone in them.
- The status column of a binding is set to EXPOSED by a validation commit and never read, because `record_json` keeps
  BOUND; the model leaves it out. PROMISING and RETIRED are never set by the code and `RESULT_DRIVEN_REUSE` is looked
  up but never recorded. A requested candidate (VALIDATING) can only be declared failed: no sealed call accepts it.
- The verdict of a final test is read by nobody, so `tested` keeps only what was tested. Run artifacts, `research_runs`
  and evidence reports of sealed executions are outside the model.
- Findings of audits are nondeterministic, audits after a run have other ids than those the gate looks up and are left
  out, as are programs and hypotheses. Questions and journal entries are in a module of their own, `ResearchQuestions`:
  no other module reads them, except that an audit also verifies the journal.
- `registry_divided` makes no transition to APPROVED: that call, which the CLI does not offer, skips the duplicate
  check of `approve_experiment` even in one process.

- Prices, spreads and averages are small integers and ratios, compared exactly: the tolerances of the code (1e-12) and
  the rounding of floating point are left out. A strategy run has one symbol. The blocks of a history start outside the
  hour that a clock change repeats, and M1 bars are not aggregated to M15.
- A file's checksum is its content and a run or dataset id what it hashes. Renames are atomic, as the code relies on;
  staging directories that a crash leaves behind are not modelled, since no later call reads them.
- `RawStore` has one writer: the code takes no lock, and two downloads at once lose rows. `TickArchive` has one month.
- `RunStore` has one partition and one proposal; its file is altered at most once, so a change that is undone between
  the read and the verification (`discovery_runner.py:273-279`), which no code could see, does not occur. One
  command-line backtest runs at a time.
- What evaluates a candidate of the search is outside `src/sandbox`; the model remembers any result of it.

Behaviours met while modelling that the documents describe otherwise, or leave open, and that have no run:

- A failed validation marks its datasets with usage VALIDATION, which no gate reads, so the next version of the lineage
  may validate on them (rule 48); discovery use of a dataset is checked when a candidate is bound and not again before
  its sealed execution (rule 64); the aggregate, feature and export reads of the validation context return bars and
  contaminate nothing (rule 59).
- Two processes that validate two versions of a lineage both pass the contamination check of the preflight
  (`partition/service.py:240`) before either records its exposure, and both get a result on one partition:
  `LineageValidatesOnce` holds for one process only.
- The exit of a limit order is searched from the bar that fills it, beginning with that bar's opening price
  (`execution/engine.py:250`): a bar that opens beyond the target and falls through the limit to the stop closes the
  trade at its full profit. Version 0 emits such orders.
- The yearly drawdown (`metrics.py:63-74`) follows the ledger, which is in the order of the signals; the summary
  sorts by exit.
- The "12 completed M15 candles" of Version 0 are the last twelve, which are not the block when bars are missing.
- A SHORT that gaps through its stop exits at the ask and pays the spread again as a cost.
- A run id covers intents and configuration but not the market, and `add_research_run` updates only the status of an
  existing row (`catalog.py:132-135`): a command-line backtest of the intents of a package turns its FAILED row to
  COMPLETE, or registers the row with its own paths first. A failure after the catalog commit marks a row FAILED whose
  provenance another process may have returned as complete.
- A crash between the rename of a package and its row makes every retry answer "unregistered execution artifacts
  exist"; one between the two files of a view, "partial materialized execution view exists"; one after the directory
  of a pipeline run was made, or of an import promoted, a collision. Each needs a person.
- A question is looked for by its text in one transaction and inserted in another (`control/service.py:38-47`), so two
  sessions can ask the same one. An entry that is appended between the two reads of a verification makes an intact
  journal fail it (`registry.py:101`), and with it an audit (`auditor.py:84`).
- Two searchers that draw up lists before either remembers evaluate the same candidates; the memory then keeps the
  first result and refuses another. The fingerprint covers the search id, so another search asks the question again.
- `certify` called with an import id registers the dataset and leaves the import STAGED (`external_import.py:248`).

## Not modelled

Decisions, families and the hash chain of the access ledger: planned. The statistics
service, the discovery and validation studies, the cohort summaries and the machine-learning studies are straight-line
floating-point computations over frames: no order of events and no bounded input decides them. Plugin registration, the rest of the DSL, the
universal market-state engine, the comparison of providers, the read-only reports of the memory and the front ends add
no state of their own.

## Plan

1. *Done*: the research control, sealed partitions and experiment registry with their proofs; the market-state records;
   the data stores; engine, strategies, hypotheses, run store and candidate search; questions and the journal.
2. *Done*: the proofs of every invariant the runs check: the stores, the questions, the one-author and one-caller
   properties, the market structure, the records that are built on it, the search and the hypotheses.
3. A proof of `TradesNeverRevised`, the signals first: the replay as a function of the bars taken, and the visible bars
   as a set, so that the lemmas of `ListFacts` apply.
4. The hash chain of the access ledger; decisions and families.

The number of runs is kept small: each group of modules has one passing run that asks all its questions.
