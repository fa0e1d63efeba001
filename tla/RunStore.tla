------------------------------- MODULE RunStore -------------------------------
(***************************************************************************)
(* How research runs are stored: the prepared snapshot of a partition, its *)
(* materialized view, the packages of executed proposals and of pipeline   *)
(* and strategy runs, and the rows of the catalog that call a run complete. *)
(*                                                                         *)
(* Commands run in processes of their own and stop between two steps.  All *)
(* work on one Discovery partition.  A proposal has one run id, whatever    *)
(* market it is executed on: run_fingerprint covers the intents and the     *)
(* configuration only (execution/engine.py).                                *)
(***************************************************************************)
EXTENDS Naturals, FiniteSets

CONSTANTS
  Executors,   \* processes
  Ideas,       \* proposals
  Absent,      \* no such file or row
  MaxCommands, MaxFaults   \* bounds: commands that start, and that stop or fail

\* A missing file or row is told from every value a file or a row has.
ASSUME AbsentAssumption ==
  /\ Absent \notin {"sealed", "altered", "other", "partial", "torn", "whole"}
  /\ Absent \notin [status : {"COMPLETE", "FAILED"}, path : {"executed", "results"}]

VARIABLES
  bytes,       \* the Parquet file of the partition: "sealed", or altered since
  snapshot,    \* prepared/<id>: the data it was prepared from
  view,        \* materialized/<id>: [parquet, manifest]
  packages,    \* idea -> the market of executed/<run id>
  rows,        \* idea -> row of research_runs: [status, path]
  backtests,   \* idea -> [ledger, summary] in the results of the command line
  study,       \* the package of a pipeline run
  remembered,  \* the pipeline run is in the research memory
  strategyRuns,\* markets of the stored strategy runs
  answered,    \* ideas whose provenance a command has returned
  command,     \* executor -> the command it works on
  started, stopped

preparation == <<snapshot, view>>
execution == <<packages, rows, backtests, answered>>
studies == <<study, remembered, strategyRuns>>
storeState == <<bytes, preparation, execution, studies>>
runVars == <<storeState, command, started, stopped>>

Resting == [kind |-> "none", idea |-> Absent, step |-> "idle", data |-> Absent]

RunInit ==
  /\ bytes = "sealed" /\ snapshot = Absent
  /\ view = [parquet |-> Absent, manifest |-> Absent]
  /\ packages = [i \in Ideas |-> Absent] /\ rows = [i \in Ideas |-> Absent]
  /\ backtests = [i \in Ideas |-> [ledger |-> Absent, summary |-> Absent]]
  /\ study = Absent /\ remembered = FALSE /\ strategyRuns = {} /\ answered = {}
  /\ command = [e \in Executors |-> Resting]
  /\ started = 0 /\ stopped = 0

InStep(e, kinds, step) == command[e].kind \in kinds /\ command[e].step = step
Go(e, step) == command' = [command EXCEPT ![e].step = step] /\ UNCHANGED <<started, stopped>>
End(e) == command' = [command EXCEPT ![e] = Resting] /\ UNCHANGED <<started, stopped>>

\* A guard of the code that goes on to the next step or raises.
Check(e, condition, step) == IF condition THEN Go(e, step) ELSE End(e)

-------------------------------------------------------------------------------
(* Every command starts with what it loads. *)

ViewWhole == view.parquet # Absent /\ view.manifest = "whole"

\* What a command loads before anything else must be there and whole.
Loadable(kind, i) ==
  CASE kind \in {"materialize", "prepared"} -> snapshot # Absent
    [] kind = "materialized" -> snapshot # Absent /\ ViewWhole
    [] kind = "backtest"     -> packages[i] # Absent     \* its intents.json
    [] OTHER -> TRUE

\* A view is materialized from the snapshot: the partition is verified only.
FirstStep(kind) ==
  CASE kind = "materialize" -> "verify" [] kind = "backtest" -> "dataset" [] OTHER -> "read"

\* An execution looks its run up before it publishes anything.
AfterVerify(kind) == IF kind \in {"prepared", "materialized"} THEN "look" ELSE "publish"

StartCommand(e) ==
  /\ command[e] = Resting /\ started < MaxCommands
  /\ \E kind \in {"prepare", "materialize", "prepared", "materialized", "backtest",
                  "pipeline", "strategy"}, i \in Ideas :
       /\ Loadable(kind, i)
       /\ kind = "backtest" => \A other \in Executors : command[other].kind # "backtest"
       /\ command' = [command EXCEPT ![e] =
            [kind |-> kind, idea |-> i, data |-> Absent, step |-> FirstStep(kind)]]
  /\ started' = started + 1
  /\ UNCHANGED <<stopped, storeState>>

\* The values are read, and only then is the file compared with its checksum.
ReadPartition(e) ==
  /\ InStep(e, {"prepare", "prepared", "materialized", "pipeline", "strategy"}, "read")
  /\ command' = [command EXCEPT ![e].step = "verify", ![e].data = bytes]
  /\ UNCHANGED <<started, stopped, storeState>>

VerifyPartitionMutant(e) ==
  /\ command[e].step = "verify"
  /\ Go(e, AfterVerify(command[e].kind))
  /\ UNCHANGED storeState

VerifyPartition(e) ==
  /\ command[e].step = "verify"
  /\ Check(e, bytes = "sealed", AfterVerify(command[e].kind))
  /\ UNCHANGED storeState

-------------------------------------------------------------------------------
(* The prepared snapshot and its view (discovery_runner.py, materialized_execution.py). *)

\* A snapshot is written beside and renamed; an existing one is loaded instead.
PublishSnapshot(e) ==
  /\ InStep(e, {"prepare"}, "publish")
  /\ snapshot' = IF snapshot = Absent THEN command[e].data ELSE snapshot
  /\ End(e)
  /\ UNCHANGED <<bytes, view, execution, studies>>

\* The two files of a view are published one after the other, and a view with
\* one of them is refused from then on.
PublishParquet(e) ==
  /\ InStep(e, {"materialize"}, "publish")
  /\ IF view = [parquet |-> Absent, manifest |-> Absent]
       THEN view' = [view EXCEPT !.parquet = snapshot] /\ Go(e, "manifest")
       ELSE UNCHANGED view /\ End(e)
  /\ UNCHANGED <<bytes, snapshot, execution, studies>>

WriteManifest(e) ==
  /\ InStep(e, {"materialize"}, "manifest")
  /\ view' = [view EXCEPT !.manifest = "whole"]
  /\ End(e)
  /\ UNCHANGED <<bytes, snapshot, execution, studies>>

-------------------------------------------------------------------------------
(* Executed proposals (discovery_runner.py, materialized_runner.py). *)

\* A run that the catalog has is compared with its package, byte by byte, and
\* its provenance returned; one it does not have must not have a package either.
Matching(i) ==
  /\ rows[i].status = "COMPLETE" /\ packages[i] # Absent
  /\ rows[i].path = "results" => packages[i] = backtests[i].ledger /\ packages[i] = backtests[i].summary

LookUp(e) ==
  LET i == command[e].idea
  IN  /\ InStep(e, {"prepared", "materialized"}, "look")
      /\ Check(e, rows[i] = Absent /\ packages[i] = Absent, "rename")
      /\ answered' = IF rows[i] # Absent /\ Matching(i) THEN answered \cup {i} ELSE answered
      /\ UNCHANGED <<bytes, preparation, packages, rows, backtests, studies>>

\* Renaming onto a directory that another process published meanwhile fails.
RenameStage(e) ==
  LET i == command[e].idea
  IN  /\ InStep(e, {"prepared", "materialized"}, "rename")
      /\ Check(e, packages[i] = Absent, "register")
      /\ packages' = [packages EXCEPT ![i] = IF @ = Absent THEN command[e].data ELSE @]
      /\ UNCHANGED <<bytes, preparation, rows, backtests, studies, answered>>

\* add_research_run: of a row that exists only the status is changed.
AddResearchRun(i, path) ==
  rows' = [rows EXCEPT ![i] = IF @ = Absent THEN [status |-> "COMPLETE", path |-> path]
                              ELSE [@ EXCEPT !.status = "COMPLETE"]]

RegisterRun(e) ==
  /\ InStep(e, {"prepared", "materialized"}, "register")
  /\ AddResearchRun(command[e].idea, "executed")
  /\ Go(e, "answer")
  /\ UNCHANGED <<bytes, preparation, packages, backtests, studies, answered>>

AnswerRun(e) ==
  /\ InStep(e, {"prepared", "materialized"}, "answer")
  /\ answered' = answered \cup {command[e].idea}
  /\ End(e)
  /\ UNCHANGED <<bytes, preparation, packages, rows, backtests, studies>>

\* An exception after the rename marks the row failed, if there is one.
FailRegistered(e) ==
  /\ InStep(e, {"prepared", "materialized"}, "register") \/ InStep(e, {"prepared", "materialized"}, "answer")
  /\ stopped < MaxFaults
  /\ rows' = [rows EXCEPT ![command[e].idea] = IF @ = Absent THEN @ ELSE [@ EXCEPT !.status = "FAILED"]]
  /\ command' = [command EXCEPT ![e] = Resting]
  /\ stopped' = stopped + 1
  /\ UNCHANGED <<started, bytes, preparation, packages, backtests, studies, answered>>

-------------------------------------------------------------------------------
(* Backtests of the command line, written in place (cli.py, execution/artifacts.py). *)

ChooseDataset(e) ==
  /\ InStep(e, {"backtest"}, "dataset")
  /\ \E market \in {"sealed", "other"} :
       command' = [command EXCEPT ![e].step = "ledger", ![e].data = market]
  /\ UNCHANGED <<started, stopped, storeState>>

StoreLedger(e) ==
  LET i == command[e].idea
  IN  /\ InStep(e, {"backtest"}, "ledger")
      /\ Check(e, backtests[i].ledger \in {Absent, command[e].data}, "summary")
      /\ backtests' = [backtests EXCEPT ![i].ledger = IF @ = Absent THEN command[e].data ELSE @]
      /\ UNCHANGED <<bytes, preparation, packages, rows, studies, answered>>

StoreSummary(e) ==
  LET i == command[e].idea
  IN  /\ InStep(e, {"backtest"}, "summary")
      /\ Check(e, backtests[i].summary \in {Absent, command[e].data}, "record")
      /\ backtests' = [backtests EXCEPT ![i].summary = IF @ = Absent THEN command[e].data ELSE @]
      /\ UNCHANGED <<bytes, preparation, packages, rows, studies, answered>>

RecordBacktest(e) ==
  /\ InStep(e, {"backtest"}, "record")
  /\ AddResearchRun(command[e].idea, "results")
  /\ End(e)
  /\ UNCHANGED <<bytes, preparation, packages, backtests, studies, answered>>

-------------------------------------------------------------------------------
(* Pipeline and strategy runs (research_pipeline.py, strategy_runner.py). *)

\* The directory of a pipeline run must not exist, not even a partial one.
MakeStudy(e) ==
  /\ InStep(e, {"pipeline"}, "publish")
  /\ Check(e, study = Absent, "files")
  /\ study' = IF study = Absent THEN "partial" ELSE study
  /\ UNCHANGED <<bytes, preparation, execution, remembered, strategyRuns>>

WriteStudy(e) ==
  /\ InStep(e, {"pipeline"}, "files")
  /\ study' = command[e].data
  /\ Go(e, "remember")
  /\ UNCHANGED <<bytes, preparation, execution, remembered, strategyRuns>>

Remember(e) ==
  /\ InStep(e, {"pipeline"}, "remember")
  /\ remembered' = TRUE
  /\ End(e)
  /\ UNCHANGED <<bytes, preparation, execution, study, strategyRuns>>

\* The id of a strategy run covers its market, and the directory is renamed.
PersistStrategyRun(e) ==
  /\ InStep(e, {"strategy"}, "publish")
  /\ strategyRuns' = strategyRuns \cup {command[e].data}
  /\ End(e)
  /\ UNCHANGED <<bytes, preparation, execution, study, remembered>>

-------------------------------------------------------------------------------
(* A process stops, perhaps within a write; the partition file is altered. *)

StopCommand(e) ==
  /\ command[e] # Resting /\ stopped < MaxFaults
  /\ command' = [command EXCEPT ![e] = Resting]
  /\ stopped' = stopped + 1
  /\ \E torn \in BOOLEAN :
       /\ view' = IF torn /\ command[e].step = "manifest"
                    THEN [view EXCEPT !.manifest = "torn"] ELSE view
       /\ backtests' = IF torn /\ command[e].step = "ledger" /\ backtests[command[e].idea].ledger = Absent
                         THEN [backtests EXCEPT ![command[e].idea].ledger = "torn"] ELSE backtests
  /\ UNCHANGED <<started, bytes, snapshot, packages, rows, studies, answered>>

AlterFile ==
  /\ bytes = "sealed"
  /\ bytes' = "altered"
  /\ UNCHANGED <<preparation, execution, studies, command, started, stopped>>

RunNext ==
  \/ AlterFile
  \/ \E e \in Executors :
       \/ StartCommand(e) \/ ReadPartition(e) \/ VerifyPartition(e)
       \/ PublishSnapshot(e) \/ PublishParquet(e) \/ WriteManifest(e)
       \/ LookUp(e) \/ RenameStage(e) \/ RegisterRun(e) \/ AnswerRun(e) \/ FailRegistered(e)
       \/ ChooseDataset(e) \/ StoreLedger(e) \/ StoreSummary(e) \/ RecordBacktest(e)
       \/ MakeStudy(e) \/ WriteStudy(e) \/ Remember(e) \/ PersistStrategyRun(e)
       \/ StopCommand(e)

RunSpec == RunInit /\ [][RunNext]_runVars

-------------------------------------------------------------------------------
(* Properties *)

(* Whatever is published as complete rests on the sealed bytes and is whole: *)
(* snapshots, whole views, packages and strategy runs hold the partition as  *)
(* it was sealed, although the file may change while a command works; a row  *)
(* of the catalog, and a provenance that was returned, have their files; and *)
(* what the research memory remembers has its package.  This is so however   *)
(* commands interleave, stop, fail after the rename and are tried again.     *)
CompletedIsBacked ==
  /\ snapshot \in {Absent, "sealed"} /\ strategyRuns \subseteq {"sealed"}
  /\ view.manifest = "whole" => view.parquet = "sealed"
  /\ \A i \in Ideas :
       /\ packages[i] \in {Absent, "sealed"}
       /\ rows[i] # Absent /\ rows[i].path = "executed" => packages[i] # Absent
       /\ rows[i] # Absent /\ rows[i].path = "results" =>
            backtests[i].ledger \in {"sealed", "other"} /\ backtests[i].summary = backtests[i].ledger
       /\ i \in answered => packages[i] # Absent /\ rows[i] # Absent
  /\ remembered => study = "sealed"
===============================================================================
