----------------------------- MODULE RunStoreProofs -----------------------------
(***************************************************************************)
(* Theorems about RunStore, for any number of processes, any proposals and *)
(* any number of commands that start, stop and fail; about the memory of   *)
(* CandidateSearch, for any search spaces and any number of searchers; and *)
(* about Hypotheses, for any proposals, samples and markets.               *)
(***************************************************************************)
EXTENDS RunStore, CandidateSearch, Hypotheses, ListFacts

CommandKinds == {"prepare", "materialize", "prepared", "materialized", "backtest", "pipeline", "strategy"}
Executing == {"prepared", "materialized"}
Reading == {"prepare", "pipeline", "strategy"} \cup Executing
Labels == {"read", "verify", "look", "rename", "register", "answer", "publish", "manifest",
           "files", "remember", "dataset", "ledger", "summary", "record"}

Command == [kind : CommandKinds, idea : Ideas, step : Labels, data : {Absent, "sealed", "altered", "other"}]
Row == [status : {"COMPLETE", "FAILED"}, path : {"executed", "results"}]
Markets == {"sealed", "other"}

StoreTyped ==
  /\ bytes \in {"sealed", "altered"}
  /\ snapshot \in {Absent, "sealed"}
  /\ view \in [parquet : {Absent, "sealed"}, manifest : {Absent, "torn", "whole"}]
  /\ packages \in [Ideas -> {Absent, "sealed"}]
  /\ rows \in [Ideas -> Row \cup {Absent}]
  /\ backtests \in [Ideas -> [ledger : Markets \cup {Absent, "torn"}, summary : Markets \cup {Absent}]]
  /\ study \in {Absent, "partial", "sealed"}
  /\ remembered \in BOOLEAN
  /\ answered \subseteq Ideas

\* The steps a kind of command takes.
Reaches(kind, step) ==
  /\ step \in {"register", "answer", "rename", "look"} => kind \in Executing
  /\ step \in {"read"} => kind \in Reading
  /\ step = "verify" => kind \in Reading \cup {"materialize"}
  /\ step = "manifest" => kind = "materialize"
  /\ step \in {"files", "remember"} => kind = "pipeline"
  /\ step \in {"dataset", "ledger", "summary", "record"} <=> kind = "backtest"

\* What a command knows at its step: of the values it carries, and of files and
\* rows that are never taken back.
Knows(c) ==
  /\ c \in Command /\ Reaches(c.kind, c.step)
  /\ c.kind = "materialize" => snapshot = "sealed"
  /\ c.kind \in Reading /\ c.step = "verify" => c.data \in {"sealed", bytes}
  /\ c.kind \in Reading /\ c.step \notin {"read", "verify"} => c.data = "sealed"
  /\ c.step = "manifest" => view.parquet = "sealed"
  /\ c.step \in {"register", "answer"} => packages[c.idea] = "sealed"
  /\ c.step = "answer" => rows[c.idea] # Absent
  /\ c.step = "remember" => study = "sealed"
  /\ c.step \in {"ledger", "summary", "record"} => c.data \in Markets
  /\ c.step \in {"summary", "record"} => backtests[c.idea].ledger = c.data
  /\ c.step = "record" => backtests[c.idea].summary = c.data

CommandsKnow ==
  /\ command \in [Executors -> Command \cup {Resting}]
  /\ \A e \in Executors : command[e] = Resting \/ Knows(command[e])

RunInv == StoreTyped /\ CompletedIsBacked /\ CommandsKnow

\* What was published is never taken back or replaced: the stores only grow.
StoreGrows ==
  /\ bytes' \in {bytes, "altered"}
  /\ snapshot = "sealed" => snapshot' = "sealed"
  /\ view.parquet = "sealed" => view'.parquet = "sealed"
  /\ study = "sealed" => study' = "sealed"
  /\ remembered => remembered'
  /\ strategyRuns \subseteq strategyRuns' /\ answered \subseteq answered'
  /\ \A i \in Ideas :
       /\ packages[i] = "sealed" => packages'[i] = "sealed"
       /\ rows[i] # Absent => rows'[i] # Absent /\ rows'[i].path = rows[i].path
       /\ backtests[i].ledger \in Markets => backtests'[i].ledger = backtests[i].ledger
       /\ backtests[i].summary \in Markets => backtests'[i].summary = backtests[i].summary

-----------------------------------------------------------------------------
(* Lemmas. *)

\* Growth keeps what a command knows when the command itself does not move.
LEMMA KnowledgeStays ==
  ASSUME StoreTyped, StoreGrows, NEW e \in Executors,
         Knows(command[e]), command'[e] = command[e]
  PROVE  Knows(command[e])'
  <1> DEFINE c == command[e]
             i == c.idea
  <1>1. c \in Command /\ i \in Ideas
    BY DEF Knows, Command
  <1>2. c.kind \in Reading /\ c.step = "verify" => c.data \in {"sealed", bytes'}
    BY DEF Knows, StoreGrows, StoreTyped
  <1>3. c.step \in {"summary", "record"} => backtests'[i].ledger = c.data
    BY <1>1 DEF Knows, StoreGrows
  <1>4. c.step = "record" => backtests'[i].summary = c.data
    BY <1>1 DEF Knows, StoreGrows
  <1> QED
    BY <1>1, <1>2, <1>3, <1>4 DEF Knows, StoreGrows, Command

\* A step of one command: the others keep what they know while the stores grow.
LEMMA OneMoves ==
  ASSUME RunInv, StoreGrows, StoreTyped', CompletedIsBacked',
         NEW e \in Executors,
         command' = [command EXCEPT ![e] = command'[e]],
         command'[e] = Resting \/ Knows(command[e])'
  PROVE  RunInv' /\ StoreGrows
  <1>1. command' \in [Executors -> Command \cup {Resting}]
    BY DEF RunInv, CommandsKnow, Knows
  <1>2. ASSUME NEW f \in Executors PROVE command'[f] = Resting \/ Knows(command[f])'
    <2>1. CASE f = e
      BY <2>1
    <2>2. CASE f # e
      <3>1. command'[f] = command[f]
        BY <2>2 DEF RunInv, CommandsKnow
      <3>2. CASE command[f] = Resting
        BY <3>1, <3>2
      <3>3. CASE Knows(command[f])
        BY <3>1, <3>3, KnowledgeStays DEF RunInv
      <3> QED BY <3>2, <3>3 DEF RunInv, CommandsKnow
    <2> QED BY <2>1, <2>2
  <1> QED BY <1>1, <1>2 DEF RunInv, CommandsKnow

\* A command ends, whatever it did to the stores.
LEMMA OneEnds ==
  ASSUME RunInv, StoreGrows, StoreTyped', CompletedIsBacked',
         NEW e \in Executors, command' = [command EXCEPT ![e] = Resting]
  PROVE  RunInv' /\ StoreGrows
  <1>1. command'[e] = Resting
    BY DEF RunInv, CommandsKnow
  <1> QED BY <1>1, OneMoves

\* A command goes on to its next step.
LEMMA OneGoes ==
  ASSUME RunInv, StoreGrows, StoreTyped', CompletedIsBacked',
         NEW e \in Executors, NEW step, Go(e, step),
         command'[e] = [command[e] EXCEPT !.step = step] => Knows(command[e])'
  PROVE  RunInv' /\ StoreGrows
  <1>1. command' = [command EXCEPT ![e] = [command[e] EXCEPT !.step = step]]
    BY DEF Go
  <1>2. command'[e] = [command[e] EXCEPT !.step = step]
    BY <1>1 DEF RunInv, CommandsKnow
  <1> QED BY <1>1, <1>2, OneMoves

\* A command at a step knows what the step needs.
LEMMA AtStep ==
  ASSUME RunInv, NEW e \in Executors, command[e].step # "idle"
  PROVE  Knows(command[e]) /\ command[e].idea \in Ideas
BY DEF RunInv, CommandsKnow, Resting, Knows, Command

\* The stores stand still.
LEMMA StoreStill ==
  ASSUME RunInv, UNCHANGED storeState
  PROVE  StoreGrows /\ StoreTyped' /\ CompletedIsBacked'
  <1> USE DEF storeState, preparation, execution, studies
  <1>1. StoreTyped'
    BY DEF RunInv, StoreTyped
  <1>2. CompletedIsBacked'
    BY DEF RunInv, CompletedIsBacked
  <1>3. StoreGrows
    BY DEF RunInv, StoreTyped, StoreGrows
  <1> QED BY <1>1, <1>2, <1>3

-----------------------------------------------------------------------------
(* The actions. *)

LEMMA StartKeeps ==
  ASSUME RunInv, NEW e \in Executors, StartCommand(e)
  PROVE  RunInv' /\ StoreGrows
  <1>1. PICK kind \in CommandKinds, i \in Ideas :
          /\ Loadable(kind, i)
          /\ command' = [command EXCEPT ![e] =
               [kind |-> kind, idea |-> i, data |-> Absent, step |-> FirstStep(kind)]]
    BY DEF StartCommand, CommandKinds
  <1>2. StoreGrows /\ StoreTyped' /\ CompletedIsBacked'
    BY StoreStill DEF StartCommand
  <1>3. command'[e] = [kind |-> kind, idea |-> i, data |-> Absent, step |-> FirstStep(kind)]
    BY <1>1 DEF RunInv, CommandsKnow
  <1>4. kind = "materialize" => snapshot' = "sealed"
    BY <1>1, <1>2 DEF Loadable, RunInv, StoreTyped, StoreGrows
  <1>5. Knows(command[e])'
    BY <1>3, <1>4 DEF Knows, CommandKinds, Reading, Executing, Command, Labels, FirstStep, Reaches
  <1> QED BY <1>1, <1>2, <1>3, <1>5, OneMoves

LEMMA ReadKeeps ==
  ASSUME RunInv, NEW e \in Executors, ReadPartition(e)
  PROVE  RunInv' /\ StoreGrows
  <1>1. Knows(command[e]) /\ command[e].step = "read"
    BY AtStep DEF ReadPartition, InStep
  <1>2. StoreGrows /\ StoreTyped' /\ CompletedIsBacked' /\ bytes' = bytes
    BY StoreStill DEF ReadPartition, storeState
  <1>3. command' = [command EXCEPT ![e] = [command[e] EXCEPT !.step = "verify", !.data = bytes]]
    BY DEF ReadPartition
  <1>4. command'[e] = [command[e] EXCEPT !.step = "verify", !.data = bytes]
    BY <1>3 DEF RunInv, CommandsKnow
  <1>5. Knows(command[e])'
    <2>1. command[e].kind \in Reading /\ command[e] \in Command
      BY <1>1 DEF ReadPartition, InStep, Reading, Executing, Knows
    <2>2. command'[e] \in Command
      BY <1>4, <2>1 DEF Command, Labels, RunInv, StoreTyped
    <2>3. /\ command'[e].kind = command[e].kind /\ command'[e].step = "verify"
          /\ command'[e].data = bytes'
      BY <1>2, <1>4, <2>1 DEF Command
    <2> QED BY <2>1, <2>2, <2>3 DEF Knows, Reaches, Reading, Executing
  <1> QED BY <1>2, <1>3, <1>4, <1>5, OneMoves

LEMMA VerifyKeeps ==
  ASSUME RunInv, NEW e \in Executors, VerifyPartition(e)
  PROVE  RunInv' /\ StoreGrows
  <1>1. Knows(command[e]) /\ command[e].step = "verify"
    BY AtStep DEF VerifyPartition
  <1>2. StoreGrows /\ StoreTyped' /\ CompletedIsBacked' /\ UNCHANGED storeState
    BY StoreStill DEF VerifyPartition
  <1>3. CASE bytes = "sealed"
    <2> DEFINE step == AfterVerify(command[e].kind)
    <2>1. Go(e, step)
      BY <1>3 DEF VerifyPartition, Check
    <2>2. ASSUME command'[e] = [command[e] EXCEPT !.step = step] PROVE Knows(command[e])'
      BY <1>1, <1>2, <1>3, <2>2, AbsentAssumption DEF storeState, preparation, Knows, Reading, Executing,
         Command, Labels, Reaches, AfterVerify
    <2> QED BY <1>2, <2>1, <2>2, OneGoes
  <1>4. CASE bytes # "sealed"
    BY <1>2, <1>4, OneEnds DEF VerifyPartition, Check, End
  <1> QED BY <1>3, <1>4

\* What is prepared is what was read, and that was verified.
LEMMA SnapshotKeeps ==
  ASSUME RunInv, NEW e \in Executors, PublishSnapshot(e)
  PROVE  RunInv' /\ StoreGrows
  <1> USE DEF preparation, execution, studies
  <1>1. command[e].data = "sealed"
    BY AtStep DEF PublishSnapshot, InStep, Knows, Reading
  <1>2. snapshot' = "sealed"
    BY <1>1 DEF PublishSnapshot, RunInv, StoreTyped
  <1>3. StoreTyped' /\ CompletedIsBacked'
    BY <1>2 DEF PublishSnapshot, RunInv, StoreTyped, CompletedIsBacked
  <1>4. StoreGrows
    BY <1>2 DEF PublishSnapshot, StoreGrows, RunInv, StoreTyped
  <1> QED BY <1>3, <1>4, OneEnds DEF PublishSnapshot, End

LEMMA ParquetKeeps ==
  ASSUME RunInv, NEW e \in Executors, PublishParquet(e)
  PROVE  RunInv' /\ StoreGrows
  <1> USE DEF preparation, execution, studies
  <1>1. Knows(command[e]) /\ snapshot = "sealed" /\ command[e].kind = "materialize"
    BY AtStep DEF PublishParquet, InStep, Knows
  <1>2. CASE view = [parquet |-> Absent, manifest |-> Absent]
    <2>1. view' = [parquet |-> "sealed", manifest |-> Absent]
      BY <1>1, <1>2 DEF PublishParquet
    <2>2. StoreTyped' /\ CompletedIsBacked'
      BY <1>1, <2>1, AbsentAssumption DEF PublishParquet, RunInv, StoreTyped, CompletedIsBacked
    <2>3. StoreGrows
      BY <1>2, <2>1, AbsentAssumption DEF PublishParquet, StoreGrows, RunInv, StoreTyped
    <2>4. ASSUME command'[e] = [command[e] EXCEPT !.step = "manifest"] PROVE Knows(command[e])'
      <3>1. command'[e] \in Command /\ command'[e].kind = "materialize" /\ command'[e].step = "manifest"
        BY <1>1, <2>4 DEF Knows, Command, Labels
      <3> QED BY <1>1, <2>1, <3>1 DEF Knows, Reaches, Reading, Executing, PublishParquet
    <2>5. Go(e, "manifest")
      BY <1>2 DEF PublishParquet
    <2> QED BY <2>2, <2>3, <2>4, <2>5, OneGoes
  <1>3. CASE view # [parquet |-> Absent, manifest |-> Absent]
    <2>1. UNCHANGED storeState /\ End(e)
      BY <1>3 DEF PublishParquet, storeState
    <2> QED BY <2>1, StoreStill, OneEnds DEF End
  <1> QED BY <1>2, <1>3

LEMMA ManifestKeeps ==
  ASSUME RunInv, NEW e \in Executors, WriteManifest(e)
  PROVE  RunInv' /\ StoreGrows
  <1> USE DEF preparation, execution, studies
  <1>1. view.parquet = "sealed"
    BY AtStep DEF WriteManifest, InStep, Knows
  <1>2. view' = [parquet |-> "sealed", manifest |-> "whole"]
    BY <1>1 DEF WriteManifest, RunInv, StoreTyped
  <1>3. StoreTyped' /\ CompletedIsBacked'
    BY <1>2 DEF WriteManifest, RunInv, StoreTyped, CompletedIsBacked
  <1>4. StoreGrows
    BY <1>2 DEF WriteManifest, StoreGrows, RunInv, StoreTyped
  <1> QED BY <1>3, <1>4, OneEnds DEF WriteManifest, End

\* A provenance is returned for a row whose package is there.
LEMMA LookUpKeeps ==
  ASSUME RunInv, NEW e \in Executors, LookUp(e)
  PROVE  RunInv' /\ StoreGrows
  <1> USE DEF preparation, execution, studies
  <1> DEFINE i == command[e].idea
             free == rows[i] = Absent /\ packages[i] = Absent
  <1>1. Knows(command[e]) /\ i \in Ideas /\ command[e].step = "look"
    BY AtStep DEF LookUp, InStep
  <1>2. \A j \in answered' : j \in Ideas /\ packages[j] # Absent /\ rows[j] # Absent
    BY <1>1 DEF LookUp, Matching, RunInv, CompletedIsBacked, StoreTyped
  <1>3. StoreTyped' /\ CompletedIsBacked'
    BY <1>2 DEF LookUp, RunInv, StoreTyped, CompletedIsBacked
  <1>4. StoreGrows
    BY DEF LookUp, StoreGrows, RunInv, StoreTyped
  <1>5. CASE free
    <2>1. ASSUME command'[e] = [command[e] EXCEPT !.step = "rename"] PROVE Knows(command[e])'
      BY <1>1, <2>1 DEF Knows, Command, Labels, Reaches, Executing, Reading, LookUp, InStep
    <2>2. Go(e, "rename")
      BY <1>5 DEF LookUp, Check
    <2> QED BY <1>3, <1>4, <2>1, <2>2, OneGoes
  <1>6. CASE ~free
    BY <1>3, <1>4, <1>6, OneEnds DEF LookUp, Check, End
  <1> QED BY <1>5, <1>6

LEMMA RenameKeeps ==
  ASSUME RunInv, NEW e \in Executors, RenameStage(e)
  PROVE  RunInv' /\ StoreGrows
  <1> USE DEF preparation, execution, studies
  <1> DEFINE i == command[e].idea
  <1>1. /\ Knows(command[e]) /\ i \in Ideas /\ command[e].step = "rename"
        /\ command[e].data = "sealed"
    BY AtStep DEF RenameStage, InStep, Knows, Reading, Executing
  <1>2. packages' \in [Ideas -> {Absent, "sealed"}] /\ packages'[i] = "sealed"
    BY <1>1 DEF RenameStage, RunInv, StoreTyped
  <1>3. \A j \in Ideas : packages[j] = "sealed" => packages'[j] = "sealed"
    BY <1>1 DEF RenameStage, RunInv, StoreTyped
  <1>4. StoreGrows
    BY <1>3 DEF RenameStage, StoreGrows, RunInv, StoreTyped
  <1>5. StoreTyped' /\ CompletedIsBacked'
    BY <1>2, <1>3, AbsentAssumption DEF RenameStage, RunInv, StoreTyped, CompletedIsBacked
  <1>6. CASE packages[i] = Absent
    <2>1. ASSUME command'[e] = [command[e] EXCEPT !.step = "register"] PROVE Knows(command[e])'
      <3>1. /\ command'[e] \in Command /\ command'[e].step = "register" /\ command'[e].idea = i
            /\ command'[e].kind = command[e].kind /\ command'[e].data = "sealed"
        BY <1>1, <2>1 DEF Knows, Command, Labels
      <3> QED BY <1>1, <1>2, <3>1 DEF Knows, Reaches, Executing, Reading, RenameStage, InStep
    <2>2. Go(e, "register")
      BY <1>6 DEF RenameStage, Check
    <2> QED BY <1>4, <1>5, <2>1, <2>2, OneGoes
  <1>7. CASE packages[i] # Absent
    BY <1>4, <1>5, <1>7, OneEnds DEF RenameStage, Check, End
  <1> QED BY <1>6, <1>7

LEMMA NoRowIsAbsent == Absent \notin Row
BY AbsentAssumption DEF Row

\* What add_research_run does to the rows: it makes one, or changes a status.
LEMMA RowAdded ==
  ASSUME StoreTyped, NEW i \in Ideas, NEW path \in {"executed", "results"}, AddResearchRun(i, path)
  PROVE  /\ rows' \in [Ideas -> Row \cup {Absent}] /\ rows'[i] # Absent
         /\ rows'[i].path = (IF rows[i] = Absent THEN path ELSE rows[i].path)
         /\ \A j \in Ideas \ {i} : rows'[j] = rows[j]
  <1>1. rows[i] # Absent =>
          /\ [rows[i] EXCEPT !.status = "COMPLETE"] \in Row
          /\ [rows[i] EXCEPT !.status = "COMPLETE"].path = rows[i].path
    BY DEF StoreTyped, Row
  <1>2. [status |-> "COMPLETE", path |-> path] \in Row
    BY DEF Row
  <1> QED BY <1>1, <1>2, NoRowIsAbsent DEF AddResearchRun, StoreTyped

LEMMA RegisterKeeps ==
  ASSUME RunInv, NEW e \in Executors, RegisterRun(e)
  PROVE  RunInv' /\ StoreGrows
  <1> USE DEF preparation, execution, studies
  <1> DEFINE i == command[e].idea
  <1>1. /\ Knows(command[e]) /\ i \in Ideas /\ command[e].step = "register"
        /\ packages[i] = "sealed" /\ command[e].data = "sealed"
    BY AtStep DEF RegisterRun, InStep, Knows, Reading, Executing
  <1>2. /\ rows' \in [Ideas -> Row \cup {Absent}] /\ rows'[i] # Absent
        /\ rows'[i].path = (IF rows[i] = Absent THEN "executed" ELSE rows[i].path)
        /\ \A j \in Ideas \ {i} : rows'[j] = rows[j]
    BY <1>1, RowAdded DEF RegisterRun, RunInv
  <1>3. StoreTyped' /\ CompletedIsBacked'
    <2>1. StoreTyped'
      BY <1>2 DEF RegisterRun, RunInv, StoreTyped
    <2>2. CompletedIsBacked'
      BY <1>1, <1>2, AbsentAssumption DEF RegisterRun, RunInv, CompletedIsBacked
    <2> QED BY <2>1, <2>2
  <1>4. StoreGrows
    BY <1>2 DEF RegisterRun, StoreGrows, RunInv, StoreTyped
  <1>5. ASSUME command'[e] = [command[e] EXCEPT !.step = "answer"] PROVE Knows(command[e])'
    <2>1. /\ command'[e] \in Command /\ command'[e].step = "answer" /\ command'[e].idea = i
          /\ command'[e].kind = command[e].kind /\ command'[e].data = "sealed"
      BY <1>1, <1>5 DEF Knows, Command, Labels
    <2> QED BY <1>1, <1>2, <2>1 DEF Knows, Reaches, Executing, Reading, RegisterRun, InStep
  <1> QED BY <1>3, <1>4, <1>5, OneGoes DEF RegisterRun

LEMMA AnswerKeeps ==
  ASSUME RunInv, NEW e \in Executors, AnswerRun(e)
  PROVE  RunInv' /\ StoreGrows
  <1> USE DEF preparation, execution, studies
  <1>1. /\ command[e].idea \in Ideas /\ packages[command[e].idea] = "sealed"
        /\ rows[command[e].idea] # Absent
    BY AtStep DEF AnswerRun, InStep, Knows
  <1>2. StoreTyped' /\ CompletedIsBacked'
    BY <1>1, AbsentAssumption DEF AnswerRun, RunInv, StoreTyped, CompletedIsBacked
  <1>3. StoreGrows
    BY DEF AnswerRun, StoreGrows, RunInv, StoreTyped
  <1> QED BY <1>2, <1>3, OneEnds DEF AnswerRun, End

\* A row that is marked failed keeps its path, and is not taken back.
LEMMA FailKeeps ==
  ASSUME RunInv, NEW e \in Executors, FailRegistered(e)
  PROVE  RunInv' /\ StoreGrows
  <1> USE DEF preparation, execution, studies
  <1> DEFINE i == command[e].idea
  <1>1. i \in Ideas
    BY AtStep DEF FailRegistered, InStep
  <1>2. rows[i] # Absent =>
          /\ [rows[i] EXCEPT !.status = "FAILED"] \in Row
          /\ [rows[i] EXCEPT !.status = "FAILED"].path = rows[i].path
    BY <1>1 DEF RunInv, StoreTyped, Row
  <1>3. /\ rows' \in [Ideas -> Row \cup {Absent}]
        /\ \A j \in Ideas : (rows'[j] = Absent <=> rows[j] = Absent)
                            /\ (rows[j] # Absent => rows'[j].path = rows[j].path)
    BY <1>1, <1>2, NoRowIsAbsent DEF FailRegistered, RunInv, StoreTyped
  <1>4. StoreTyped'
    BY <1>3 DEF FailRegistered, RunInv, StoreTyped
  <1>5. CompletedIsBacked'
    BY <1>3 DEF FailRegistered, RunInv, CompletedIsBacked, StoreTyped
  <1>6. StoreGrows
    BY <1>3 DEF FailRegistered, StoreGrows, RunInv, StoreTyped
  <1> QED BY <1>4, <1>5, <1>6, OneEnds DEF FailRegistered

-----------------------------------------------------------------------------
(* Backtests: two files and a row, each written on its own. *)

LEMMA DatasetKeeps ==
  ASSUME RunInv, NEW e \in Executors, ChooseDataset(e)
  PROVE  RunInv' /\ StoreGrows
  <1>1. Knows(command[e]) /\ command[e].kind = "backtest"
    BY AtStep DEF ChooseDataset, InStep
  <1>2. StoreGrows /\ StoreTyped' /\ CompletedIsBacked'
    BY StoreStill DEF ChooseDataset
  <1>3. PICK market \in Markets :
          command' = [command EXCEPT ![e] = [command[e] EXCEPT !.step = "ledger", !.data = market]]
    BY DEF ChooseDataset, Markets
  <1>4. command'[e] = [command[e] EXCEPT !.step = "ledger", !.data = market]
    BY <1>3 DEF RunInv, CommandsKnow
  <1>5. /\ command'[e] \in Command /\ command'[e].kind = "backtest" /\ command'[e].step = "ledger"
        /\ command'[e].data = market
    BY <1>1, <1>4 DEF Knows, Command, Labels, Markets
  <1>6. Knows(command[e])'
    BY <1>5 DEF Knows, Reaches, Reading, Executing
  <1> QED BY <1>2, <1>3, <1>4, <1>6, OneMoves

LEMMA LedgerKeeps ==
  ASSUME RunInv, NEW e \in Executors, StoreLedger(e)
  PROVE  RunInv' /\ StoreGrows
  <1> USE DEF preparation, execution, studies
  <1> DEFINE i == command[e].idea
             d == command[e].data
             fits == backtests[i].ledger \in {Absent, d}
  <1>1. Knows(command[e]) /\ i \in Ideas /\ d \in Markets /\ command[e].kind = "backtest"
    BY AtStep DEF StoreLedger, InStep, Knows
  <1>2. /\ backtests' = [backtests EXCEPT ![i] = [backtests[i] EXCEPT
                           !.ledger = IF backtests[i].ledger = Absent THEN d ELSE backtests[i].ledger]]
    BY DEF StoreLedger
  <1>3. /\ backtests' \in [Ideas -> [ledger : Markets \cup {Absent, "torn"}, summary : Markets \cup {Absent}]]
        /\ fits => backtests'[i].ledger = d
        /\ \A j \in Ideas : /\ backtests[j].ledger \in Markets => backtests'[j].ledger = backtests[j].ledger
                            /\ backtests'[j].summary = backtests[j].summary
    BY <1>1, <1>2, AbsentAssumption DEF RunInv, StoreTyped, Markets
  <1>4. StoreTyped'
    BY <1>3 DEF StoreLedger, RunInv, StoreTyped
  <1>5. CompletedIsBacked'
    <2>1. \A j \in Ideas : backtests[j].ledger \in {"sealed", "other"} /\ backtests[j].summary = backtests[j].ledger
            => backtests'[j].ledger \in {"sealed", "other"} /\ backtests'[j].summary = backtests'[j].ledger
      BY <1>3 DEF Markets
    <2>2. UNCHANGED <<snapshot, strategyRuns, view, packages, rows, answered, remembered, study>>
      BY DEF StoreLedger
    <2> QED BY <2>1, <2>2 DEF RunInv, CompletedIsBacked
  <1>6. StoreGrows
    BY <1>3 DEF StoreLedger, StoreGrows, RunInv, StoreTyped
  <1>7. CASE fits
    <2>1. ASSUME command'[e] = [command[e] EXCEPT !.step = "summary"] PROVE Knows(command[e])'
      <3>1. /\ command'[e] \in Command /\ command'[e].kind = "backtest" /\ command'[e].step = "summary"
            /\ command'[e].data = d /\ command'[e].idea = i
        BY <1>1, <2>1 DEF Knows, Command, Labels
      <3> QED BY <1>1, <1>3, <1>7, <3>1 DEF Knows, Reaches, Reading, Executing
    <2>2. Go(e, "summary")
      BY <1>7 DEF StoreLedger, Check
    <2> QED BY <1>4, <1>5, <1>6, <2>1, <2>2, OneGoes
  <1>8. CASE ~fits
    BY <1>4, <1>5, <1>6, <1>8, OneEnds DEF StoreLedger, Check, End
  <1> QED BY <1>7, <1>8

LEMMA SummaryKeeps ==
  ASSUME RunInv, NEW e \in Executors, StoreSummary(e)
  PROVE  RunInv' /\ StoreGrows
  <1> USE DEF preparation, execution, studies
  <1> DEFINE i == command[e].idea
             d == command[e].data
             fits == backtests[i].summary \in {Absent, d}
  <1>1. /\ Knows(command[e]) /\ i \in Ideas /\ d \in Markets /\ command[e].kind = "backtest"
        /\ backtests[i].ledger = d
    BY AtStep DEF StoreSummary, InStep, Knows
  <1>2. /\ backtests' = [backtests EXCEPT ![i] = [backtests[i] EXCEPT
                           !.summary = IF backtests[i].summary = Absent THEN d ELSE backtests[i].summary]]
    BY DEF StoreSummary
  <1>3. /\ backtests' \in [Ideas -> [ledger : Markets \cup {Absent, "torn"}, summary : Markets \cup {Absent}]]
        /\ fits => backtests'[i].summary = d
        /\ \A j \in Ideas : /\ backtests[j].summary \in Markets => backtests'[j].summary = backtests[j].summary
                            /\ backtests'[j].ledger = backtests[j].ledger
    BY <1>1, <1>2, AbsentAssumption DEF RunInv, StoreTyped, Markets
  <1>4. StoreTyped'
    BY <1>3 DEF StoreSummary, RunInv, StoreTyped
  <1>5. CompletedIsBacked'
    <2>1. \A j \in Ideas : backtests[j].ledger \in {"sealed", "other"} /\ backtests[j].summary = backtests[j].ledger
            => backtests'[j].ledger \in {"sealed", "other"} /\ backtests'[j].summary = backtests'[j].ledger
      BY <1>3 DEF Markets
    <2>2. UNCHANGED <<snapshot, strategyRuns, view, packages, rows, answered, remembered, study>>
      BY DEF StoreSummary
    <2> QED BY <2>1, <2>2 DEF RunInv, CompletedIsBacked
  <1>6. StoreGrows
    BY <1>3 DEF StoreSummary, StoreGrows, RunInv, StoreTyped
  <1>7. CASE fits
    <2>1. ASSUME command'[e] = [command[e] EXCEPT !.step = "record"] PROVE Knows(command[e])'
      <3>1. /\ command'[e] \in Command /\ command'[e].kind = "backtest" /\ command'[e].step = "record"
            /\ command'[e].data = d /\ command'[e].idea = i
        BY <1>1, <2>1 DEF Knows, Command, Labels
      <3> QED BY <1>1, <1>3, <1>7, <3>1 DEF Knows, Reaches, Reading, Executing
    <2>2. Go(e, "record")
      BY <1>7 DEF StoreSummary, Check
    <2> QED BY <1>4, <1>5, <1>6, <2>1, <2>2, OneGoes
  <1>8. CASE ~fits
    BY <1>4, <1>5, <1>6, <1>8, OneEnds DEF StoreSummary, Check, End
  <1> QED BY <1>7, <1>8

LEMMA RecordKeeps ==
  ASSUME RunInv, NEW e \in Executors, RecordBacktest(e)
  PROVE  RunInv' /\ StoreGrows
  <1> USE DEF preparation, execution, studies
  <1> DEFINE i == command[e].idea
  <1>1. /\ i \in Ideas /\ command[e].data \in Markets
        /\ backtests[i].ledger = command[e].data /\ backtests[i].summary = command[e].data
    BY AtStep DEF RecordBacktest, InStep, Knows
  <1>2. /\ rows' \in [Ideas -> Row \cup {Absent}] /\ rows'[i] # Absent
        /\ rows'[i].path = (IF rows[i] = Absent THEN "results" ELSE rows[i].path)
        /\ \A j \in Ideas \ {i} : rows'[j] = rows[j]
    BY <1>1, RowAdded DEF RecordBacktest, RunInv
  <1>3. StoreTyped'
    BY <1>2 DEF RecordBacktest, RunInv, StoreTyped
  <1>4. CompletedIsBacked'
    BY <1>1, <1>2 DEF RecordBacktest, RunInv, CompletedIsBacked, Markets
  <1>5. StoreGrows
    BY <1>2 DEF RecordBacktest, StoreGrows, RunInv, StoreTyped
  <1> QED BY <1>3, <1>4, <1>5, OneEnds DEF RecordBacktest, End

-----------------------------------------------------------------------------
(* Pipeline and strategy runs. *)

LEMMA MakeStudyKeeps ==
  ASSUME RunInv, NEW e \in Executors, MakeStudy(e)
  PROVE  RunInv' /\ StoreGrows
  <1> USE DEF preparation, execution, studies
  <1>1. /\ Knows(command[e]) /\ command[e].kind = "pipeline" /\ command[e].data = "sealed"
    BY AtStep DEF MakeStudy, InStep, Knows, Reading
  <1>2. StoreTyped'
    BY DEF MakeStudy, RunInv, StoreTyped
  <1>3. CompletedIsBacked'
    BY AbsentAssumption DEF MakeStudy, RunInv, CompletedIsBacked
  <1>4. StoreGrows
    BY AbsentAssumption DEF MakeStudy, StoreGrows, RunInv, StoreTyped
  <1>5. CASE study = Absent
    <2>1. ASSUME command'[e] = [command[e] EXCEPT !.step = "files"] PROVE Knows(command[e])'
      <3>1. /\ command'[e] \in Command /\ command'[e].kind = "pipeline" /\ command'[e].step = "files"
            /\ command'[e].data = "sealed"
        BY <1>1, <2>1 DEF Knows, Command, Labels
      <3> QED BY <3>1 DEF Knows, Reaches, Executing
    <2>2. Go(e, "files")
      BY <1>5 DEF MakeStudy, Check
    <2> QED BY <1>2, <1>3, <1>4, <2>1, <2>2, OneGoes
  <1>6. CASE study # Absent
    BY <1>2, <1>3, <1>4, <1>6, OneEnds DEF MakeStudy, Check, End
  <1> QED BY <1>5, <1>6

LEMMA WriteStudyKeeps ==
  ASSUME RunInv, NEW e \in Executors, WriteStudy(e)
  PROVE  RunInv' /\ StoreGrows
  <1> USE DEF preparation, execution, studies
  <1>1. /\ Knows(command[e]) /\ command[e].kind = "pipeline" /\ command[e].data = "sealed"
    BY AtStep DEF WriteStudy, InStep, Knows, Reading
  <1>2. study' = "sealed"
    BY <1>1 DEF WriteStudy
  <1>3. StoreTyped' /\ CompletedIsBacked'
    BY <1>2 DEF WriteStudy, RunInv, StoreTyped, CompletedIsBacked
  <1>4. StoreGrows
    BY <1>2 DEF WriteStudy, StoreGrows, RunInv, StoreTyped
  <1>5. ASSUME command'[e] = [command[e] EXCEPT !.step = "remember"] PROVE Knows(command[e])'
    <2>1. /\ command'[e] \in Command /\ command'[e].kind = "pipeline" /\ command'[e].step = "remember"
          /\ command'[e].data = "sealed"
      BY <1>1, <1>5 DEF Knows, Command, Labels
    <2> QED BY <1>2, <2>1 DEF Knows, Reaches, Executing
  <1> QED BY <1>3, <1>4, <1>5, OneGoes DEF WriteStudy

LEMMA RememberKeeps ==
  ASSUME RunInv, NEW e \in Executors, Remember(e)
  PROVE  RunInv' /\ StoreGrows
  <1> USE DEF preparation, execution, studies
  <1>1. study = "sealed"
    BY AtStep DEF Remember, InStep, Knows
  <1>2. StoreTyped' /\ CompletedIsBacked'
    BY <1>1 DEF Remember, RunInv, StoreTyped, CompletedIsBacked
  <1>3. StoreGrows
    BY DEF Remember, StoreGrows, RunInv, StoreTyped
  <1> QED BY <1>2, <1>3, OneEnds DEF Remember, End

LEMMA PersistKeeps ==
  ASSUME RunInv, NEW e \in Executors, PersistStrategyRun(e)
  PROVE  RunInv' /\ StoreGrows
  <1> USE DEF preparation, execution, studies
  <1>1. command[e].data = "sealed"
    BY AtStep DEF PersistStrategyRun, InStep, Knows, Reading
  <1>2. StoreTyped' /\ CompletedIsBacked'
    BY <1>1 DEF PersistStrategyRun, RunInv, StoreTyped, CompletedIsBacked
  <1>3. StoreGrows
    BY DEF PersistStrategyRun, StoreGrows, RunInv, StoreTyped
  <1> QED BY <1>2, <1>3, OneEnds DEF PersistStrategyRun, End

-----------------------------------------------------------------------------
(* Faults. *)

\* A stop tears at most the file being written: a manifest, which makes no view
\* whole, or a ledger, which no later backtest accepts.
LEMMA StopKeeps ==
  ASSUME RunInv, NEW e \in Executors, StopCommand(e)
  PROVE  RunInv' /\ StoreGrows
  <1> USE DEF preparation, execution, studies
  <1> DEFINE c == command[e]
  <1>1. PICK torn \in BOOLEAN :
          /\ view' = IF torn /\ c.step = "manifest" THEN [view EXCEPT !.manifest = "torn"] ELSE view
          /\ backtests' = IF torn /\ c.step = "ledger" /\ backtests[c.idea].ledger = Absent
                            THEN [backtests EXCEPT ![c.idea].ledger = "torn"] ELSE backtests
    BY DEF StopCommand
  <1>2. Knows(c) /\ c.idea \in Ideas
    BY DEF StopCommand, RunInv, CommandsKnow, Knows, Command
  <1>3. /\ view' \in [parquet : {Absent, "sealed"}, manifest : {Absent, "torn", "whole"}]
        /\ view'.parquet = view.parquet
        /\ view'.manifest = "whole" => view.manifest = "whole"
    BY <1>1 DEF RunInv, StoreTyped
  <1>4. /\ backtests' \in [Ideas -> [ledger : Markets \cup {Absent, "torn"}, summary : Markets \cup {Absent}]]
        /\ \A j \in Ideas : /\ backtests[j].ledger \in Markets => backtests'[j].ledger = backtests[j].ledger
                            /\ backtests'[j].summary = backtests[j].summary
    BY <1>1, <1>2, AbsentAssumption DEF RunInv, StoreTyped, Markets
  <1>5. StoreTyped'
    BY <1>3, <1>4 DEF StopCommand, RunInv, StoreTyped
  <1>6. CompletedIsBacked'
    BY <1>3, <1>4 DEF StopCommand, RunInv, CompletedIsBacked, Markets
  <1>7. StoreGrows
    BY <1>3, <1>4 DEF StopCommand, StoreGrows, RunInv, StoreTyped
  <1> QED BY <1>5, <1>6, <1>7, OneEnds DEF StopCommand

\* Nothing but the bytes changes; a command that read the sealed bytes knows it.
LEMMA AlterKeeps ==
  ASSUME RunInv, AlterFile
  PROVE  RunInv' /\ StoreGrows
  <1> USE DEF preparation, execution, studies
  <1>1. StoreTyped' /\ CompletedIsBacked' /\ StoreGrows
    BY DEF AlterFile, RunInv, StoreTyped, CompletedIsBacked, StoreGrows
  <1>2. command' = command
    BY DEF AlterFile
  <1>3. ASSUME NEW f \in Executors PROVE command'[f] = Resting \/ Knows(command[f])'
    BY <1>1, <1>2, KnowledgeStays DEF RunInv, CommandsKnow
  <1> QED BY <1>1, <1>2, <1>3 DEF RunInv, CommandsKnow

-----------------------------------------------------------------------------
(* Theorems. *)

LEMMA RunInit_Inv == RunInit => RunInv
  <1> SUFFICES ASSUME RunInit PROVE RunInv
    OBVIOUS
  <1>1. StoreTyped
    BY DEF RunInit, StoreTyped
  <1>2. CompletedIsBacked
    BY AbsentAssumption DEF RunInit, CompletedIsBacked
  <1>3. CommandsKnow
    BY DEF RunInit, CommandsKnow
  <1> QED BY <1>1, <1>2, <1>3 DEF RunInv

LEMMA RunNext_Inv == RunInv /\ [RunNext]_runVars => RunInv' /\ StoreGrows
  <1> SUFFICES ASSUME RunInv, [RunNext]_runVars PROVE RunInv' /\ StoreGrows
    OBVIOUS
  <1>1. CASE AlterFile
    BY <1>1, AlterKeeps
  <1>2. CASE \E e \in Executors : StartCommand(e) \/ ReadPartition(e) \/ VerifyPartition(e)
    BY <1>2, StartKeeps, ReadKeeps, VerifyKeeps
  <1>3. CASE \E e \in Executors : PublishSnapshot(e) \/ PublishParquet(e) \/ WriteManifest(e)
    BY <1>3, SnapshotKeeps, ParquetKeeps, ManifestKeeps
  <1>4. CASE \E e \in Executors : LookUp(e) \/ RenameStage(e) \/ RegisterRun(e) \/ AnswerRun(e)
                                  \/ FailRegistered(e)
    BY <1>4, LookUpKeeps, RenameKeeps, RegisterKeeps, AnswerKeeps, FailKeeps
  <1>5. CASE \E e \in Executors : ChooseDataset(e) \/ StoreLedger(e) \/ StoreSummary(e) \/ RecordBacktest(e)
    BY <1>5, DatasetKeeps, LedgerKeeps, SummaryKeeps, RecordKeeps
  <1>6. CASE \E e \in Executors : MakeStudy(e) \/ WriteStudy(e) \/ Remember(e) \/ PersistStrategyRun(e)
    BY <1>6, MakeStudyKeeps, WriteStudyKeeps, RememberKeeps, PersistKeeps
  <1>7. CASE \E e \in Executors : StopCommand(e)
    BY <1>7, StopKeeps
  <1>8. CASE UNCHANGED runVars
    <2>1. StoreGrows /\ StoreTyped' /\ CompletedIsBacked'
      BY <1>8, StoreStill DEF runVars
    <2>2. CommandsKnow'
      BY <1>8, <2>1, KnowledgeStays DEF RunInv, CommandsKnow, runVars
    <2> QED BY <2>1, <2>2 DEF RunInv
  <1> QED BY <1>1, <1>2, <1>3, <1>4, <1>5, <1>6, <1>7, <1>8 DEF RunNext

(* The files, rows and commands of the store always have their types, and    *)
(* every command in progress knows what its step relies on: that what it     *)
(* read was verified, that the package it is about to register is in place,  *)
(* that both files of its backtest hold its market.                          *)
THEOREM RunInvariant == RunSpec => []RunInv
BY RunInit_Inv, RunNext_Inv, PTL DEF RunSpec

(* Whatever the discovery runner, the materialized runner, the command line, *)
(* the pipeline or the strategy runner publishes as complete rests on the    *)
(* sealed bytes of the partition and has its files, however many commands    *)
(* interleave, stop or fail.                                                 *)
THEOREM CompletedIsBackedHolds == RunSpec => []CompletedIsBacked
  <1>1. RunInv => CompletedIsBacked
    BY DEF RunInv
  <1> QED BY <1>1, RunInvariant, PTL

(* Nothing that was published is taken back or replaced by any later step of *)
(* any process: not a snapshot, a package, a study, a strategy run, a row of *)
(* the catalog or the file it names, and not the values of a backtest.       *)
PublishedStays == [][StoreGrows]_runVars

THEOREM PublishedStaysHolds == RunSpec => PublishedStays
  <1>1. RunInv /\ [RunNext]_runVars => [StoreGrows]_runVars
    BY RunNext_Inv
  <1> QED BY <1>1, RunInvariant, PTL DEF RunSpec, PublishedStays

-----------------------------------------------------------------------------
(* The view has one writer. *)

AtManifest(e) == command[e] # Resting /\ command[e].step = "manifest"

\* Whoever is about to write a manifest is alone with it, and it is not there.
ManifestAlone ==
  \A e \in Executors : AtManifest(e) =>
    /\ view.manifest = Absent
    /\ \A f \in Executors : AtManifest(f) => f = e

\* A command that moves, but not to its manifest, touches the view only from there.
LEMMA StaysAlone ==
  ASSUME RunInv, ManifestAlone, NEW e \in Executors,
         command' = [command EXCEPT ![e] = command'[e]],
         ~AtManifest(e)', view' = view \/ AtManifest(e)
  PROVE  ManifestAlone'
  <1>1. ASSUME NEW f \in Executors, AtManifest(f)' PROVE f # e /\ AtManifest(f)
    BY <1>1 DEF AtManifest, RunInv, CommandsKnow
  <1> QED BY <1>1 DEF ManifestAlone, AtManifest

\* Ending, or going on to another step than the manifest.
LEMMA NotAtManifest ==
  ASSUME RunInv, NEW e \in Executors,
         End(e) \/ \E step \in Labels \ {"manifest"} : Go(e, step) /\ command[e].step # "idle"
  PROVE  command' = [command EXCEPT ![e] = command'[e]] /\ ~AtManifest(e)'
  <1>1. CASE End(e)
    BY <1>1 DEF End, RunInv, CommandsKnow, AtManifest
  <1>2. CASE \E step \in Labels \ {"manifest"} : Go(e, step) /\ command[e].step # "idle"
    <2>1. PICK step \in Labels \ {"manifest"} : Go(e, step) /\ command[e].step # "idle"
      BY <1>2
    <2>2. command[e] \in Command
      BY <2>1, AtStep DEF Knows
    <2>3. /\ command' = [command EXCEPT ![e] = [command[e] EXCEPT !.step = step]]
          /\ command'[e] = [command[e] EXCEPT !.step = step]
      BY <2>1 DEF Go, RunInv, CommandsKnow
    <2>4. command'[e].step = step
      BY <2>2, <2>3 DEF Command
    <2> QED BY <2>1, <2>3, <2>4 DEF AtManifest
  <1> QED BY <1>1, <1>2

LEMMA ManifestAlone_Kept == RunInv /\ ManifestAlone /\ [RunNext]_runVars => ManifestAlone'
  <1> SUFFICES ASSUME RunInv, ManifestAlone, [RunNext]_runVars PROVE ManifestAlone'
    OBVIOUS
  <1> USE DEF storeState, preparation, execution, studies
  <1>1. CASE AlterFile \/ UNCHANGED runVars
    <2>1. command' = command /\ view' = view
      BY <1>1 DEF AlterFile, runVars
    <2> QED BY <2>1 DEF ManifestAlone, AtManifest
  <1>2. ASSUME NEW e \in Executors, StartCommand(e) PROVE ManifestAlone'
    <2>1. command' = [command EXCEPT ![e] = command'[e]] /\ command'[e].step # "manifest"
      BY <1>2 DEF StartCommand, FirstStep, RunInv, CommandsKnow
    <2> QED BY <1>2, <2>1, StaysAlone DEF StartCommand, AtManifest
  <1>3. ASSUME NEW e \in Executors, ReadPartition(e) \/ ChooseDataset(e) PROVE ManifestAlone'
    <2>1. command[e] \in Command
      BY <1>3, AtStep DEF ReadPartition, ChooseDataset, InStep, Knows
    <2>2. command' = [command EXCEPT ![e] = command'[e]] /\ command'[e].step \in {"verify", "ledger"}
      BY <1>3, <2>1 DEF ReadPartition, ChooseDataset, RunInv, CommandsKnow, Command
    <2> QED BY <1>3, <2>2, StaysAlone DEF ReadPartition, ChooseDataset, AtManifest
  <1>4. ASSUME NEW e \in Executors, VerifyPartition(e) PROVE ManifestAlone'
    <2>1. AfterVerify(command[e].kind) \in Labels \ {"manifest"}
      BY DEF AfterVerify, Labels
    <2> QED BY <1>4, <2>1, NotAtManifest, StaysAlone DEF VerifyPartition, Check
  <1>5. ASSUME NEW e \in Executors, PublishParquet(e) PROVE ManifestAlone'
    <2>1. CASE view = [parquet |-> Absent, manifest |-> Absent]
      <3>1. \A f \in Executors : ~AtManifest(f)
        BY <2>1, AbsentAssumption DEF RunInv, CommandsKnow, Knows, AtManifest
      <3>2. \A f \in Executors : AtManifest(f)' => f = e
        BY <1>5, <2>1, <3>1 DEF PublishParquet, Go, AtManifest, RunInv, CommandsKnow
      <3>3. view'.manifest = Absent
        BY <1>5, <2>1 DEF PublishParquet
      <3> QED BY <3>2, <3>3 DEF ManifestAlone, AtManifest
    <2>2. CASE view # [parquet |-> Absent, manifest |-> Absent]
      BY <1>5, <2>2, NotAtManifest, StaysAlone DEF PublishParquet
    <2> QED BY <2>1, <2>2
  <1>6. ASSUME NEW e \in Executors, PublishSnapshot(e) \/ AnswerRun(e) \/ RecordBacktest(e) \/ Remember(e)
                                    \/ PersistStrategyRun(e)
        PROVE  ManifestAlone'
    <2>1. End(e) /\ view' = view
      BY <1>6 DEF PublishSnapshot, AnswerRun, RecordBacktest, Remember, PersistStrategyRun
    <2> QED BY <2>1, NotAtManifest, StaysAlone
  <1>7. ASSUME NEW e \in Executors, WriteManifest(e) PROVE ManifestAlone'
    <2>1. AtManifest(e) /\ End(e)
      BY <1>7 DEF WriteManifest, InStep, AtManifest, Resting
    <2> QED BY <2>1, NotAtManifest, StaysAlone
  <1>8. ASSUME NEW e \in Executors, LookUp(e) \/ RenameStage(e) \/ RegisterRun(e) PROVE ManifestAlone'
    <2>1. End(e) \/ \E step \in Labels \ {"manifest"} : Go(e, step) /\ command[e].step # "idle"
      BY <1>8 DEF LookUp, RenameStage, RegisterRun, InStep, Check, Labels
    <2> QED BY <1>8, <2>1, NotAtManifest, StaysAlone DEF LookUp, RenameStage, RegisterRun
  <1>9. ASSUME NEW e \in Executors, StoreLedger(e) \/ StoreSummary(e) \/ MakeStudy(e) \/ WriteStudy(e)
        PROVE  ManifestAlone'
    <2>1. End(e) \/ \E step \in Labels \ {"manifest"} : Go(e, step) /\ command[e].step # "idle"
      BY <1>9 DEF StoreLedger, StoreSummary, MakeStudy, WriteStudy, InStep, Check, Labels
    <2> QED BY <1>9, <2>1, NotAtManifest, StaysAlone DEF StoreLedger, StoreSummary, MakeStudy, WriteStudy
  <1>10. ASSUME NEW e \in Executors, FailRegistered(e) \/ StopCommand(e) PROVE ManifestAlone'
    <2>1. command' = [command EXCEPT ![e] = Resting] /\ (view' = view \/ AtManifest(e))
      BY <1>10 DEF FailRegistered, StopCommand, AtManifest
    <2>2. command'[e] = Resting
      BY <2>1 DEF RunInv, CommandsKnow
    <2> QED BY <2>1, <2>2, StaysAlone DEF AtManifest
  <1> QED BY <1>1, <1>2, <1>3, <1>4, <1>5, <1>6, <1>7, <1>8, <1>9, <1>10 DEF RunNext

(* A materialized view that was whole stays as it is: no command that finds  *)
(* it publishes over it, and no stop tears the manifest of a view that       *)
(* another command has completed.                                           *)
WholeViewStays == [][view.manifest = "whole" => view' = view]_runVars

THEOREM WholeViewStaysHolds == RunSpec => WholeViewStays
  <1>1. RunInit => ManifestAlone
    BY DEF RunInit, ManifestAlone, AtManifest
  <1>2. ASSUME RunInv, ManifestAlone, [RunNext]_runVars, view.manifest = "whole" PROVE view' = view
    <2>1. \A e \in Executors : ~AtManifest(e)
      BY <1>2, AbsentAssumption DEF ManifestAlone
    <2>2. view # [parquet |-> Absent, manifest |-> Absent]
      BY <1>2, AbsentAssumption
    <2>3. \A e \in Executors : command[e].step = "manifest" => AtManifest(e)
      BY DEF AtManifest, Resting
    <2> USE DEF storeState, preparation, execution, studies
    <2>4. ASSUME NEW e \in Executors, PublishParquet(e) \/ WriteManifest(e) \/ StopCommand(e)
          PROVE  view' = view
      BY <2>1, <2>2, <2>3, <2>4 DEF PublishParquet, WriteManifest, StopCommand, InStep
    <2>5. ASSUME NEW e \in Executors, StartCommand(e) \/ ReadPartition(e) \/ VerifyPartition(e) \/ PublishSnapshot(e)
          PROVE  view' = view
      BY <2>5 DEF StartCommand, ReadPartition, VerifyPartition, PublishSnapshot
    <2>6. ASSUME NEW e \in Executors, LookUp(e) \/ RenameStage(e) \/ RegisterRun(e) \/ AnswerRun(e) \/ FailRegistered(e)
          PROVE  view' = view
      BY <2>6 DEF LookUp, RenameStage, RegisterRun, AnswerRun, FailRegistered
    <2>7. ASSUME NEW e \in Executors, ChooseDataset(e) \/ StoreLedger(e) \/ StoreSummary(e) \/ RecordBacktest(e)
          PROVE  view' = view
      BY <2>7 DEF ChooseDataset, StoreLedger, StoreSummary, RecordBacktest
    <2>8. ASSUME NEW e \in Executors, MakeStudy(e) \/ WriteStudy(e) \/ Remember(e) \/ PersistStrategyRun(e)
          PROVE  view' = view
      BY <2>8 DEF MakeStudy, WriteStudy, Remember, PersistStrategyRun
    <2> QED BY <1>2, <2>4, <2>5, <2>6, <2>7, <2>8 DEF RunNext, AlterFile, runVars
  <1>3. RunInv /\ ManifestAlone /\ [RunNext]_runVars => [view.manifest = "whole" => view' = view]_runVars
    BY <1>2
  <1> QED BY <1>1, <1>3, ManifestAlone_Kept, RunInvariant, PTL DEF RunSpec, WholeViewStays

-------------------------------------------------------------------------------
(* Candidates and what they mean. *)

\* The conditions of a space are a list.
LEMMA AtomsAreSequence ==
  ASSUME NEW space \in Spaces
  PROVE  \E S : AtomicConditions(space) \in Seq(S)
<1>1. PICK fields, n : fields = space.fields /\ n = Len(fields) OBVIOUS
<1>2. /\ n \in Nat /\ DOMAIN fields = 1 .. n
      /\ \A i \in 1 .. n : IsSequence(fields[i].values) /\ IsSequence(fields[i].operators)
  <2>1. fields \in Seq(ToSet(fields)) BY <1>1, SearchAssumption DEF IsSequence
  <2>2. n \in Nat /\ DOMAIN fields = 1 .. n BY <1>1, <2>1
  <2> QED BY <1>1, <2>2, SearchAssumption
<1>3. ASSUME NEW i \in 1 .. n PROVE IsSequence(NumericOperators(fields[i]))
  <2>1. IsSequence(Comparisons)
    <3>1. PICK a, b, c, d : Comparisons = <<a, b, c, d>> BY DEF Comparisons
    <3>2. PICK s : s = <<a, b, c, d>> OBVIOUS
    <3>3. DOMAIN s = 1 .. 4 /\ s = [k \in 1 .. 4 |-> s[k]] BY <3>2
    <3>4. s \in [1 .. 4 -> ToSet(s)] BY <3>3 DEF ToSet
    <3>5. s \in Seq(ToSet(s)) BY <3>4, ListOf
    <3> QED BY <3>1, <3>2, <3>5 DEF IsSequence
  <2> QED BY <1>2, <2>1 DEF NumericOperators
<1> DEFINE atom(i, o, k) == Condition(fields[i].field, o, fields[i].values[k])
           equalities(i) == [k \in DOMAIN fields[i].values |-> atom(i, "=", k)]
           thresholds(i) == [j \in DOMAIN NumericOperators(fields[i]) |->
                               [k \in DOMAIN fields[i].values |-> atom(i, NumericOperators(fields[i])[j], k)]]
           piece(i) == IF fields[i].kind = "categorical" THEN equalities(i) ELSE FlattenSeq(thresholds(i))
           F == {fields[i].field : i \in 1 .. n}
           O == {"="} \cup UNION {ToSet(NumericOperators(fields[i])) : i \in 1 .. n}
           X == UNION {ToSet(fields[i].values) : i \in 1 .. n}
           S == {Condition(f, o, x) : f \in F, o \in O, x \in X}
<1>4. AtomicConditions(space) = FlattenSeq([i \in 1 .. n |-> piece(i)])
  BY <1>1, <1>2 DEF AtomicConditions
<1>5. ASSUME NEW i \in 1 .. n, NEW o \in O, NEW k \in DOMAIN fields[i].values PROVE atom(i, o, k) \in S
  <2>1. fields[i].field \in F OBVIOUS
  <2>2. fields[i].values[k] \in X BY DEF ToSet
  <2> HIDE DEF F, O, X
  <2> QED BY <2>1, <2>2
<1> HIDE DEF S
<1>6. ASSUME NEW i \in 1 .. n PROVE piece(i) \in Seq(S)
  <2>1. PICK m \in Nat : DOMAIN fields[i].values = 1 .. m BY <1>2 DEF IsSequence
  <2>2. PICK p \in Nat : DOMAIN NumericOperators(fields[i]) = 1 .. p BY <1>3 DEF IsSequence
  <2>3. equalities(i) \in Seq(S)
    <3>1. "=" \in O OBVIOUS
    <3>2. equalities(i) \in [1 .. m -> S] BY <1>5, <2>1, <3>1
    <3> QED BY <2>1, <3>2, ListOf
  <2>4. thresholds(i) \in Seq(Seq(S))
    <3>1. \A j \in 1 .. p : NumericOperators(fields[i])[j] \in O BY <2>2 DEF ToSet
    <3>2. ASSUME NEW j \in 1 .. p
          PROVE  [k \in DOMAIN fields[i].values |-> atom(i, NumericOperators(fields[i])[j], k)] \in Seq(S)
      <4>1. [k \in DOMAIN fields[i].values |-> atom(i, NumericOperators(fields[i])[j], k)] \in [1 .. m -> S]
        BY <1>5, <2>1, <3>1
      <4> QED BY <2>1, <4>1, ListOf
    <3>3. thresholds(i) \in [1 .. p -> Seq(S)] BY <2>2, <3>2
    <3> QED BY <2>2, <3>3, ListOf
  <2>5. FlattenSeq(thresholds(i)) \in Seq(S) BY <2>4, JoinedIsSequence
  <2> QED BY <2>3, <2>5
<1>7. [i \in 1 .. n |-> piece(i)] \in Seq(Seq(S))
  <2> HIDE DEF piece
  <2>1. [i \in 1 .. n |-> piece(i)] \in [1 .. n -> Seq(S)] BY <1>6
  <2> QED BY <1>2, <2>1, ListOf
<1> HIDE DEF piece
<1> QED BY <1>4, <1>7, JoinedIsSequence

\* A candidate as the fingerprint writes it: its conditions in the one order.
Canonical(c) ==
  c = [conditions |-> SetToSeq(ToSet(c.conditions)), left |-> c.left, right |-> c.right, window |-> c.window]

\* What two candidates mean tells them apart.
LEMMA MeaningUnique ==
  ASSUME NEW c, NEW d, Canonical(c), Canonical(d), Meaning(c) = Meaning(d)
  PROVE  c = d
<1>1. PICK s, t, C, D : /\ s = <<c.left, c.right, c.window>> /\ t = <<d.left, d.right, d.window>>
                        /\ C = ToSet(c.conditions) /\ D = ToSet(d.conditions)
  OBVIOUS
<1>2. [conditions |-> C, swing |-> s] = [conditions |-> D, swing |-> t] BY <1>1 DEF Meaning
<1>3. C = D /\ s = t BY <1>2
<1>4. c.left = d.left /\ c.right = d.right /\ c.window = d.window
  <2>1. s[1] = c.left /\ s[2] = c.right /\ s[3] = c.window BY <1>1
  <2>2. t[1] = d.left /\ t[2] = d.right /\ t[3] = d.window BY <1>1
  <2> QED BY <1>3, <2>1, <2>2
<1> QED BY <1>1, <1>3, <1>4 DEF Canonical

LEMMA FingerprintMeans ==
  ASSUME NEW q, IsFiniteSet(ToSet(q)), NEW l, NEW r, NEW w
  PROVE  /\ Canonical(Fingerprint(q, l, r, w))
         /\ Meaning(Fingerprint(q, l, r, w)) = [conditions |-> ToSet(q), swing |-> <<l, r, w>>]
<1>1. PICK c : c = Fingerprint(q, l, r, w) OBVIOUS
<1>2. PICK list : list = SetToSeq(ToSet(q)) OBVIOUS
<1>3. c = [conditions |-> list, left |-> l, right |-> r, window |-> w] BY <1>1, <1>2 DEF Fingerprint
<1>4. c.conditions = list /\ c.left = l /\ c.right = r /\ c.window = w BY <1>3
<1>5. ToSet(list) = ToSet(q) BY <1>2, SetAsList
<1>6. Canonical(c) BY <1>2, <1>3, <1>4, <1>5 DEF Canonical
<1>7. Meaning(c) = [conditions |-> ToSet(q), swing |-> <<l, r, w>>] BY <1>4, <1>5 DEF Meaning
<1> QED BY <1>1, <1>6, <1>7

\* The conditions at some places of a space.
At(atoms, places) == {atoms[i] : i \in places}
Chosen(atoms, places) == [k \in DOMAIN SetToSeq(places) |-> atoms[SetToSeq(places)[k]]]

LEMMA ChosenAre ==
  ASSUME NEW atoms, NEW places, IsFiniteSet(places)
  PROVE  ToSet(Chosen(atoms, places)) = At(atoms, places)
<1>1. PICK order : order = SetToSeq(places) OBVIOUS
<1>2. ToSet(order) = places BY <1>1, SetAsList
<1>3. Chosen(atoms, places) = [k \in DOMAIN order |-> atoms[order[k]]] BY <1>1 DEF Chosen
<1>4. \A x : x \in places <=> \E k \in DOMAIN order : order[k] = x BY <1>2 DEF ToSet
<1> QED BY <1>3, <1>4 DEF ToSet, At

Places(space) == {S \in SUBSET DOMAIN AtomicConditions(space) : Cardinality(S) \in 1 .. space.maximum}

\* The candidates of a space ask what the space spans, each in the one form.
LEMMA GeneratedSpan ==
  ASSUME NEW space \in Spaces
  PROVE  /\ Meanings(GenerateCandidates(space)) = Spanned(space)
         /\ \A c \in GenerateCandidates(space) : Canonical(c)
<1>1. PICK atoms : atoms = AtomicConditions(space) OBVIOUS
<1>2. IsFiniteSet(DOMAIN atoms)
  <2>1. PICK S : atoms \in Seq(S) BY <1>1, AtomsAreSequence
  <2>2. Len(atoms) \in Nat /\ DOMAIN atoms = 1 .. Len(atoms) BY <2>1
  <2> QED BY <2>2, FS_Interval
<1>3. space.maximum \in Int BY SearchAssumption
<1>4. ASSUME NEW S \in SUBSET DOMAIN atoms PROVE IsFiniteSet(S) /\ Cardinality(S) \in Nat
  BY <1>2, FS_Subset, FS_CardinalityType
<1>5. GenerateCandidates(space) =
        {Fingerprint(Chosen(atoms, S), l, r, w) :
           S \in Places(space), l \in ToSet(space.lefts), r \in ToSet(space.rights), w \in ToSet(space.windows)}
  BY <1>1 DEF GenerateCandidates, Chosen, Places
<1>6. ASSUME NEW S \in Places(space)
      PROVE  /\ ToSet(Chosen(atoms, S)) = At(atoms, S) /\ IsFiniteSet(At(atoms, S))
             /\ At(atoms, S) \in SUBSET ToSet(atoms)
             /\ Cardinality(At(atoms, S)) \in 1 .. space.maximum
  <2>1. S \in SUBSET DOMAIN atoms /\ Cardinality(S) \in 1 .. space.maximum BY <1>1 DEF Places
  <2>2. IsFiniteSet(S) BY <1>4, <2>1
  <2>3. /\ IsFiniteSet(At(atoms, S)) /\ Cardinality(At(atoms, S)) \in Nat
        /\ Cardinality(At(atoms, S)) <= Cardinality(S)
    BY <2>2, ImageSmaller DEF At
  <2>4. S # {}
    <3>1. Cardinality({}) = 0 BY FS_EmptySet
    <3> QED BY <1>3, <2>1, <3>1
  <2>5. At(atoms, S) # {} BY <2>4 DEF At
  <2>6. Cardinality(At(atoms, S)) # 0 BY <2>3, <2>5, FS_EmptySet
  <2>7. At(atoms, S) \in SUBSET ToSet(atoms) BY <2>1 DEF At, ToSet
  <2> QED BY <1>3, <2>1, <2>2, <2>3, <2>6, <2>7, ChosenAre
<1>7. ASSUME NEW C \in SUBSET ToSet(atoms), Cardinality(C) \in 1 .. space.maximum
      PROVE  \E S \in Places(space) : At(atoms, S) = C
  <2>1. IsFiniteSet(ToSet(atoms)) BY <1>2, ImageSmaller DEF ToSet
  <2>2. IsFiniteSet(C) /\ Cardinality(C) \in Nat BY <1>7, <2>1, FS_Subset, FS_CardinalityType
  <2>3. PICK place : place = [x \in C |-> CHOOSE i \in DOMAIN atoms : atoms[i] = x] OBVIOUS
  <2>4. ASSUME NEW x \in C PROVE place[x] \in DOMAIN atoms /\ atoms[place[x]] = x
    <3>1. \E i \in DOMAIN atoms : atoms[i] = x BY <1>7 DEF ToSet
    <3> QED BY <2>3, <3>1
  <2>5. PICK S : S = {place[x] : x \in C} OBVIOUS
  <2>6. At(atoms, S) = C BY <2>4, <2>5 DEF At
  <2>7. S \in SUBSET DOMAIN atoms BY <2>4, <2>5
  <2>8. Cardinality(S) \in Nat /\ Cardinality(S) <= Cardinality(C) BY <2>2, <2>5, ImageSmaller
  <2>9. Cardinality(S) # 0
    <3>1. C # {} BY <1>3, <1>7, FS_EmptySet
    <3>2. S # {} BY <2>5, <3>1
    <3> QED BY <1>4, <2>7, <3>2, FS_EmptySet
  <2>10. Cardinality(S) \in 1 .. space.maximum BY <1>3, <1>7, <2>2, <2>8, <2>9
  <2>11. S \in Places(space) BY <1>1, <2>7, <2>10 DEF Places
  <2> QED BY <2>6, <2>11
<1>8. ASSUME NEW S \in Places(space), NEW l, NEW r, NEW w
      PROVE  /\ Canonical(Fingerprint(Chosen(atoms, S), l, r, w))
             /\ Meaning(Fingerprint(Chosen(atoms, S), l, r, w)) = [conditions |-> At(atoms, S), swing |-> <<l, r, w>>]
  BY <1>6, FingerprintMeans
<1>9. \A c \in GenerateCandidates(space) : Canonical(c) BY <1>5, <1>8
<1>10. Meanings(GenerateCandidates(space)) =
         {[conditions |-> At(atoms, S), swing |-> <<l, r, w>>] :
            S \in Places(space), l \in ToSet(space.lefts), r \in ToSet(space.rights), w \in ToSet(space.windows)}
  BY <1>5, <1>8 DEF Meanings
<1>11. Spanned(space) =
         {[conditions |-> C, swing |-> <<l, r, w>>] :
            C \in {D \in SUBSET ToSet(atoms) : Cardinality(D) \in 1 .. space.maximum},
            l \in ToSet(space.lefts), r \in ToSet(space.rights), w \in ToSet(space.windows)}
  BY <1>1 DEF Spanned
<1>12. {At(atoms, S) : S \in Places(space)} = {D \in SUBSET ToSet(atoms) : Cardinality(D) \in 1 .. space.maximum}
  BY <1>6, <1>7
<1> QED BY <1>9, <1>10, <1>11, <1>12

-------------------------------------------------------------------------------
(* The search. *)

\* What is remembered or offered has the one form.
SearchInv ==
  /\ \A c \in DOMAIN memory : Canonical(c)
  /\ pending \in [Searchers -> SUBSET {c \in UNION {GenerateCandidates(space) : space \in Spaces} : Canonical(c)}]

\* Every candidate that is remembered, or still to be evaluated, is in the form
\* that its content fixes (CandidateSpec.__post_init__), for any search spaces.
THEOREM SearchInvariant == SearchSpec => []SearchInv
<1> DEFINE Asked == {c \in UNION {GenerateCandidates(space) : space \in Spaces} : Canonical(c)}
<1>1. SearchInit => SearchInv
  <2> SUFFICES ASSUME SearchInit PROVE SearchInv OBVIOUS
  <2>1. DOMAIN memory = {} BY DEF SearchInit
  <2>2. pending \in [Searchers -> SUBSET Asked] BY DEF SearchInit
  <2> QED BY <2>1, <2>2 DEF SearchInv
<1>2. ASSUME SearchInv, [SearchNext]_searchVars PROVE SearchInv'
  <2>0. (\A c \in DOMAIN memory : Canonical(c)) /\ pending \in [Searchers -> SUBSET Asked] BY <1>2 DEF SearchInv
  <2>1. ASSUME NEW s \in Searchers, DrawUp(s) PROVE SearchInv'
    <3>1. PICK space \in Spaces : pending' = [pending EXCEPT ![s] = FilterUnseen(GenerateCandidates(space))]
      BY <2>1 DEF DrawUp
    <3>2. FilterUnseen(GenerateCandidates(space)) \in SUBSET Asked BY GeneratedSpan DEF FilterUnseen
    <3>3. pending' \in [Searchers -> SUBSET Asked] BY <2>0, <3>1, <3>2
    <3> QED BY <2>0, <2>1, <3>3 DEF SearchInv, DrawUp
  <2>2. ASSUME NEW s \in Searchers, RememberCandidate(s) PROVE SearchInv'
    <3>1. PICK candidate \in pending[s] :
            /\ DOMAIN memory' = DOMAIN memory \union {candidate}
            /\ pending' = [pending EXCEPT ![s] = @ \ {candidate}]
      BY <2>2 DEF RememberCandidate
    <3>2. candidate \in Asked /\ Canonical(candidate) BY <2>0, <3>1
    <3>3. pending' \in [Searchers -> SUBSET Asked] BY <2>0, <3>1
    <3>4. \A c \in DOMAIN memory' : Canonical(c) BY <2>0, <3>1, <3>2
    <3> QED BY <3>3, <3>4 DEF SearchInv
  <2>3. ASSUME NEW s \in Searchers, StopSearch(s) PROVE SearchInv'
    <3>1. pending' \in [Searchers -> SUBSET Asked] BY <2>0, <2>3 DEF StopSearch
    <3> QED BY <2>0, <2>3, <3>1 DEF SearchInv, StopSearch
  <2>4. CASE UNCHANGED searchVars BY <2>0, <2>4 DEF SearchInv, searchVars
  <2> QED BY <1>2, <2>1, <2>2, <2>3, <2>4 DEF SearchNext
<1> QED BY <1>1, <1>2, PTL DEF SearchSpec

\* A space is gone through once, however many searchers share the memory
\* (filter_unseen_candidates): what a candidate asks decides its fingerprint.
THEOREM SearchNeverRepeatsHolds == SearchSpec => []SearchNeverRepeats
<1>1. SearchInv => SearchNeverRepeats
  <2> SUFFICES ASSUME SearchInv PROVE SearchNeverRepeats OBVIOUS
  <2>1. \A c \in DOMAIN memory : Canonical(c) BY DEF SearchInv
  <2>2. \A c, d \in DOMAIN memory : Meaning(c) = Meaning(d) => c = d BY <2>1, MeaningUnique
  <2>3. ASSUME NEW space \in Spaces
        PROVE  LET offered == FilterUnseen(GenerateCandidates(space))
                   known   == Meanings(DOMAIN memory)
               IN  /\ Meanings(offered) \cap known = {}
                   /\ Spanned(space) = Meanings(offered) \cup (Spanned(space) \cap known)
                   /\ \A c, d \in offered : Meaning(c) = Meaning(d) => c = d
    <3>1. PICK all, offered : all = GenerateCandidates(space) /\ offered = FilterUnseen(all) OBVIOUS
    <3>2. offered = all \ DOMAIN memory BY <3>1 DEF FilterUnseen
    <3>3. Meanings(all) = Spanned(space) /\ \A c \in all : Canonical(c) BY <3>1, GeneratedSpan
    <3>4. \A c \in all, d \in all \cup DOMAIN memory : Meaning(c) = Meaning(d) => c = d
      BY <2>1, <3>3, MeaningUnique
    <3>5. Meanings(offered) \cap Meanings(DOMAIN memory) = {} BY <3>2, <3>4 DEF Meanings
    <3>6. Spanned(space) = Meanings(offered) \cup (Spanned(space) \cap Meanings(DOMAIN memory))
      BY <3>2, <3>3 DEF Meanings
    <3> QED BY <3>1, <3>2, <3>4, <3>5, <3>6
  <2> QED BY <2>2, <2>3 DEF SearchNeverRepeats
<1> QED BY <1>1, SearchInvariant, PTL

-------------------------------------------------------------------------------
(* Hypotheses: what a dataset is, and the conditions of a query. *)

HypothesisInv ==
  /\ proposal \in Proposals /\ Parsed(proposal)
  /\ \E n \in Nat : /\ IsList(dataset, n)
                    /\ \A row \in 1 .. n : dataset[row] = [values    |-> dataset[row].values,
                                                           reference |-> dataset[row].reference,
                                                           end       |-> row]

THEOREM HypothesisInvariant == HypothesisSpec => []HypothesisInv
<1>1. HypothesisInit => HypothesisInv
  <2> SUFFICES ASSUME HypothesisInit PROVE HypothesisInv OBVIOUS
  <2>1. proposal \in Proposals /\ Parsed(proposal) /\ dataset = <<>> BY DEF HypothesisInit
  <2>2. IsList(dataset, 0) BY <2>1 DEF IsList
  <2> QED BY <2>1, <2>2 DEF HypothesisInv
<1>2. HypothesisInv /\ [NextAnchor]_hypothesisVars => HypothesisInv'
  <2> SUFFICES ASSUME HypothesisInv, [NextAnchor]_hypothesisVars PROVE HypothesisInv' OBVIOUS
  <2>1. CASE NextAnchor
    <3>1. PICK n \in Nat : /\ IsList(dataset, n)
                           /\ \A row \in 1 .. n : dataset[row] = [values    |-> dataset[row].values,
                                                                  reference |-> dataset[row].reference,
                                                                  end       |-> row]
      BY DEF HypothesisInv
    <3>0. dataset \in Seq({dataset[k] : k \in 1 .. n}) /\ Len(dataset) = n BY <3>1, ListIsSequence
    <3>a. PICK sample \in Samples :
            dataset' = Append(dataset, [values |-> sample.values, reference |-> sample.reference,
                                        end |-> Len(dataset) + 1])
      BY <2>1 DEF NextAnchor
    <3>2. PICK s \in Seq({dataset[k] : k \in 1 .. n}) :
            /\ s = dataset /\ Len(s) = n
            /\ dataset' = Append(s, [values |-> sample.values, reference |-> sample.reference, end |-> n + 1])
      BY <3>0, <3>a
    <3>3. PICK x : x = [values |-> sample.values, reference |-> sample.reference, end |-> n + 1] OBVIOUS
    <3>4. dataset' = [k \in 1 .. n + 1 |-> IF k = n + 1 THEN x ELSE s[k]]
      BY <3>2, <3>3
    <3>5. IsList(dataset', n + 1) BY <3>4 DEF IsList
    <3>6. ASSUME NEW row \in 1 .. n + 1
          PROVE  dataset'[row] = [values |-> dataset'[row].values, reference |-> dataset'[row].reference, end |-> row]
      <4>1. CASE row = n + 1 BY <3>3, <3>4, <4>1
      <4>2. CASE row # n + 1
        <5>1. row \in 1 .. n BY <4>2
        <5>2. dataset'[row] = dataset[row] BY <3>2, <3>4, <4>2
        <5> QED BY <3>1, <5>1, <5>2
      <4> QED BY <4>1, <4>2
    <3>7. proposal' = proposal BY <2>1 DEF NextAnchor
    <3>8. Parsed(proposal) = Parsed(proposal') BY <3>7
    <3>9. n + 1 \in Nat OBVIOUS
    <3> QED BY <3>5, <3>6, <3>7, <3>8, <3>9 DEF HypothesisInv
  <2>2. CASE UNCHANGED hypothesisVars BY <2>2 DEF hypothesisVars, HypothesisInv, Parsed, Conditions
  <2> QED BY <2>1, <2>2
<1> QED BY <1>1, <1>2, PTL DEF HypothesisSpec

\* A query keeps the rows that the evaluation in memory keeps.
Column(values) == [f \in DOMAIN Kinds |-> FieldValue(values[f], Kinds[f])]

LEMMA SameInView ==
  ASSUME NEW left, NEW x, NEW kind \in {"NUMERIC", "CATEGORICAL"}
  PROVE  /\ FieldValue(left, kind) = Null <=> left = Null
         /\ x = Null => (SameValue(left, x, kind) <=> left = Null)
         /\ x # Null => (SameValue(left, x, kind) <=>
                           left # Null /\ FieldValue(left, kind) = FieldValue(x, kind))
<1>1. CASE kind = "CATEGORICAL" BY <1>1 DEF FieldValue, SameValue
<1>2. CASE kind = "NUMERIC"
  <2>1. \A v : Scalar("double", v) # Null BY DEF Scalar, Null
  <2>2. \A v, w : Scalar("double", v) = Scalar("double", w) <=> v = w BY DEF Scalar
  <2>3. FieldValue(left, kind) = Null <=> left = Null BY <1>2, <2>1 DEF FieldValue
  <2>4. x = Null => (SameValue(left, x, kind) <=> left = Null) BY DEF SameValue
  <2>5. CASE x # Null /\ left = Null BY <2>3, <2>4, <2>5 DEF SameValue
  <2>6. CASE x # Null /\ left # Null
    <3>1. SameValue(left, x, kind) <=> left.v = x.v BY <1>2, <2>6 DEF SameValue
    <3>2. FieldValue(left, kind) = Scalar("double", left.v) /\ FieldValue(x, kind) = Scalar("double", x.v)
      BY <1>2, <2>6 DEF FieldValue
    <3> QED BY <2>2, <2>3, <2>6, <3>1, <3>2
  <2> QED BY <2>3, <2>4, <2>5, <2>6
<1> QED BY <1>1, <1>2

LEMMA SqlAgrees ==
  ASSUME NEW rules \in Proposals, Parsed(rules), NEW k \in DOMAIN rules, NEW j \in DOMAIN rules[k].conditions,
         CheckCondition(rules[k].conditions[j]), NEW values
  PROVE  SqlCondition(rules[k].conditions[j], Column(values)) <=> Satisfied(rules[k].conditions[j], values, Kinds)
<1>1. PICK c : c = rules[k].conditions[j] OBVIOUS
<1>2. /\ c.op \in Ordered \cup Memberships \cup {"EQ", "NE"} /\ c.values \in Seq(Range(c.values))
      /\ c.field \in DOMAIN Kinds /\ Kinds[c.field] \in {"NUMERIC", "CATEGORICAL"}
      /\ c.op \in Memberships => c.values # <<>>
      /\ c.op \notin Memberships => Len(c.values) = 1
  <2>1. c \in Conditions(rules)
    <3>1. c \in Range(rules[k].conditions) BY <1>1 DEF Range
    <3> QED BY <3>1 DEF Conditions
  <2>2. c.op \in Ordered \cup Memberships \cup {"EQ", "NE"} /\ c.values \in Seq(Range(c.values))
    BY <1>1, HypothesesAssumption
  <2> QED BY <2>1, <2>2, HypothesesAssumption DEF Parsed
<1> DEFINE kind == Kinds[c.field]
           left == values[c.field]
           column == Column(values)[c.field]
           N == {i \in DOMAIN c.values : c.values[i] # Null}
           same(i) == SameValue(left, c.values[i], kind)
           equals(i) == column # Null /\ column = FieldValue(c.values[i], kind)
<1>3. column = FieldValue(left, kind) /\ (column = Null <=> left = Null) BY <1>2, SameInView DEF Column
<1>4. \A i \in DOMAIN c.values : same(i) <=> IF c.values[i] = Null THEN column = Null ELSE equals(i)
  BY <1>2, <1>3, SameInView
<1>5. DOMAIN c.values # {} /\ (c.op \notin Memberships => DOMAIN c.values = {1})
  <2>1. DOMAIN c.values = 1 .. Len(c.values) /\ Len(c.values) \in Nat BY <1>2
  <2>2. c.values # <<>> => Len(c.values) # 0 BY <1>2, EmptySeq
  <2>3. c.op \in Memberships => Len(c.values) # 0 BY <1>2, <2>2
  <2>4. c.op \notin Memberships => Len(c.values) = 1 BY <1>2
  <2>5. PICK n \in Nat : n = Len(c.values) BY <2>1
  <2>6. n # 0 => 1 \in 1 .. n OBVIOUS
  <2>7. n = 1 => 1 .. n = {1} OBVIOUS
  <2>8. n # 0 BY <2>3, <2>4, <2>5
  <2>9. DOMAIN c.values # {} BY <2>1, <2>5, <2>6, <2>8
  <2>10. c.op \notin Memberships => DOMAIN c.values = {1} BY <2>1, <2>4, <2>5, <2>7
  <2> QED BY <2>9, <2>10
<1>6. CASE c.op = "EQ"
  <2>1. DOMAIN c.values = {1} BY <1>5, <1>6 DEF Memberships
  <2>2. Satisfied(c, values, Kinds) <=> same(1) BY <1>6, <2>1 DEF Satisfied, Ordered
  <2>3. SqlCondition(c, Column(values)) <=> IF N # DOMAIN c.values THEN column = Null ELSE equals(1)
    BY <1>6 DEF SqlCondition, Ordered
  <2>4. N # DOMAIN c.values <=> c.values[1] = Null BY <2>1
  <2> QED BY <1>1, <1>4, <2>1, <2>2, <2>3, <2>4
<1>7. CASE c.op = "NE"
  <2>1. DOMAIN c.values = {1} BY <1>5, <1>7 DEF Memberships
  <2>2. Satisfied(c, values, Kinds) <=> ~same(1) BY <1>7, <2>1 DEF Satisfied, Ordered
  <2>3. SqlCondition(c, Column(values)) <=>
          IF N # DOMAIN c.values THEN column # Null
          ELSE column = Null \/ (column # Null /\ column # FieldValue(c.values[1], kind))
    BY <1>7 DEF SqlCondition, Ordered
  <2>4. N # DOMAIN c.values <=> c.values[1] = Null BY <2>1
  <2> QED BY <1>1, <1>4, <2>1, <2>2, <2>3, <2>4
<1>8. CASE c.op = "IN"
  <2>2. Satisfied(c, values, Kinds) <=> \E i \in DOMAIN c.values : same(i) BY <1>8 DEF Satisfied, Ordered
  <2>3. SqlCondition(c, Column(values)) <=> \/ N # DOMAIN c.values /\ column = Null
                                            \/ \E i \in N : equals(i)
    BY <1>8 DEF SqlCondition, Ordered
  <2>4. N # DOMAIN c.values <=> \E i \in DOMAIN c.values : c.values[i] = Null OBVIOUS
  <2> HIDE DEF same, equals
  <2>5. (\E i \in DOMAIN c.values : same(i)) <=>
          \/ \E i \in DOMAIN c.values : c.values[i] = Null /\ column = Null
          \/ \E i \in N : equals(i)
    BY <1>4
  <2> QED BY <1>1, <2>2, <2>3, <2>4, <2>5
<1>9. CASE c.op = "NOT_IN"
  <2>2. Satisfied(c, values, Kinds) <=> \A i \in DOMAIN c.values : ~same(i) BY <1>9 DEF Satisfied, Ordered
  <2>3. SqlCondition(c, Column(values)) <=>
          IF N = {} THEN column # Null
          ELSE IF N # DOMAIN c.values
               THEN column # Null /\ \A i \in N : column # Null /\ column # FieldValue(c.values[i], kind)
               ELSE column = Null \/ \A i \in N : column # Null /\ column # FieldValue(c.values[i], kind)
    BY <1>9 DEF SqlCondition, Ordered
  <2>4. N # DOMAIN c.values <=> \E i \in DOMAIN c.values : c.values[i] = Null OBVIOUS
  <2>5. N = {} => N # DOMAIN c.values BY <1>5
  <2> QED BY <1>1, <1>4, <2>2, <2>3, <2>4, <2>5
<1>10. CASE c.op \in Ordered
  <2>1. DOMAIN c.values = {1} BY <1>5, <1>10 DEF Memberships, Ordered
  <2>2. c.values[1] # Null /\ kind = "NUMERIC" BY <1>1, <1>10 DEF CheckCondition
  <2>3. left # Null => column = Scalar("double", left.v) BY <1>3, <2>2 DEF FieldValue
  <2>4. left # Null => column.v = left.v BY <2>3 DEF Scalar
  <2>5. FieldValue(c.values[1], kind).v = c.values[1].v BY <2>2 DEF FieldValue, Scalar
  <2>6. Satisfied(c, values, Kinds) <=> left # Null /\ Compare(c.op, left.v, c.values[1].v)
    BY <1>10 DEF Satisfied, Ordered
  <2>7. SqlCondition(c, Column(values)) <=>
          column # Null /\ Compare(c.op, column.v, FieldValue(c.values[1], kind).v)
    BY <1>10 DEF SqlCondition, Ordered
  <2> QED BY <1>1, <1>3, <2>4, <2>5, <2>6, <2>7
<1> QED BY <1>2, <1>6, <1>7, <1>8, <1>9, <1>10 DEF Memberships

-------------------------------------------------------------------------------
(* Matches in the order of the rows, then of the rules. *)

Matched == [row : Nat, rule : Nat]

\* L lists the elements of S, each once, in order.
Enumerates(L, n, S) ==
  /\ IsList(L, n) /\ S \subseteq Matched
  /\ \A i \in 1 .. n : L[i] \in S
  /\ \A x \in S : \E i \in 1 .. n : L[i] = x
  /\ \A i, j \in 1 .. n : i < j => Precedes(L[i], L[j])

LEMMA PrecedesOrders ==
  ASSUME NEW x \in Matched, NEW y \in Matched
  PROVE  /\ ~ (Precedes(x, y) /\ Precedes(y, x)) /\ ~ Precedes(x, x)
  BY DEF Matched, Precedes

\* What is put in order is the only list in order.
LEMMA RowOrderUnique ==
  ASSUME NEW L, NEW n, NEW S, Enumerates(L, n, S)
  PROVE  InRowOrder(S) = L
<1>1. n \in Nat /\ IsList(L, n) /\ S = {L[i] : i \in 1 .. n} /\ S \subseteq Matched BY DEF Enumerates, IsList
<1>2. \A i, j \in 1 .. n : Precedes(L[i], L[j]) <=> i < j
  <2> TAKE i, j \in 1 .. n
  <2>1. L[i] \in Matched /\ L[j] \in Matched BY <1>1
  <2>2. i \in Int /\ j \in Int /\ (i < j \/ j < i \/ i = j) BY <1>1
  <2>3. (i < j => Precedes(L[i], L[j])) /\ (j < i => Precedes(L[j], L[i])) BY DEF Enumerates
  <2>4. ~ (Precedes(L[i], L[j]) /\ Precedes(L[j], L[i])) BY <2>1, PrecedesOrders
  <2>5. ~ Precedes(L[i], L[i]) BY <2>1, PrecedesOrders
  <2> QED BY <2>2, <2>3, <2>4, <2>5
<1>3. \A i, j \in 1 .. n : L[i] = L[j] => i = j
  <2> SUFFICES ASSUME NEW i \in 1 .. n, NEW j \in 1 .. n, L[i] = L[j] PROVE i = j OBVIOUS
  <2>1. L[i] \in Matched BY <1>1
  <2>2. ~ Precedes(L[i], L[j]) /\ ~ Precedes(L[j], L[i]) BY <2>1, PrecedesOrders
  <2>3. ~ (i < j) /\ ~ (j < i) BY <1>2, <2>2
  <2> QED BY <1>1, <2>3
<1>4. Cardinality(S) = n
  <2>1. n \in 0 .. n BY <1>1
  <2> QED BY <1>1, <1>3, <2>1, DistinctCount
<1> DEFINE before(x) == {y \in S : Precedes(y, x)}
           pick(i) == CHOOSE x \in S : Cardinality(before(x)) = i - 1
           f == [i \in 1 .. n |-> pick(i)]
<1>5. \A j \in 1 .. n : Cardinality(before(L[j])) = j - 1
  <2> TAKE j \in 1 .. n
  <2>1. before(L[j]) = {L[i] : i \in 1 .. j - 1}
    <3>1. \A i \in 1 .. n : i < j <=> i \in 1 .. j - 1 BY <1>1
    <3>2. 1 .. j - 1 \subseteq 1 .. n BY <1>1
    <3> QED BY <1>1, <1>2, <3>1, <3>2
  <2>2. PICK m \in 0 .. n : m = j - 1 BY <1>1
  <2> HIDE DEF before
  <2>4. IsList(L, n) BY <1>1
  <2>3. IsFiniteSet({L[i] : i \in 1 .. m}) /\ Cardinality({L[i] : i \in 1 .. m}) = m
    BY ONLY <1>3, <2>4, m \in 0 .. n, DistinctCount
  <2> QED BY <2>1, <2>2, <2>3
<1>6. \A i \in 1 .. n : pick(i) = L[i]
  <2> TAKE i \in 1 .. n
  <2>1. L[i] \in S /\ Cardinality(before(L[i])) = i - 1 BY <1>1, <1>5
  <2> HIDE DEF before
  <2>2. PICK x : x = pick(i) OBVIOUS
  <2>3. x \in S /\ Cardinality(before(x)) = i - 1 BY <2>1, <2>2
  <2>4. PICK j \in 1 .. n : x = L[j] BY <1>1, <2>3
  <2>5. j - 1 = i - 1 BY <1>5, <2>3, <2>4
  <2>6. j = i BY <1>1, <2>5
  <2> QED BY <2>2, <2>4, <2>6
<1>7. InRowOrder(S) = Listed(f) BY <1>4 DEF InRowOrder
<1>8. f = L
  <2> HIDE DEF pick
  <2>1. f = [i \in 1 .. n |-> L[i]] BY <1>6
  <2> QED BY <1>1, <2>1 DEF IsList
<1> HIDE DEF f
<1> QED BY <1>1, <1>7, <1>8, ListIsSequence

LEMMA EnumeratesMore ==
  ASSUME NEW L, NEW n, NEW S, Enumerates(L, n, S), NEW M, NEW m, NEW T, Enumerates(M, m, T),
         \A x \in S, y \in T : Precedes(x, y)
  PROVE  Enumerates(L \o M, n + m, S \union T)
<1>1. n \in Nat /\ m \in Nat /\ IsList(L, n) /\ IsList(M, m) /\ S \subseteq Matched /\ T \subseteq Matched
  BY DEF Enumerates, IsList
<1>2. PICK K : K = L \o M OBVIOUS
<1>3. /\ IsList(K, n + m)
      /\ \A i \in 1 .. n + m : K[i] = IF i <= n THEN L[i] ELSE M[i - n]
  <2>1. L \in Seq({L[k] : k \in 1 .. n}) /\ Len(L) = n /\ M \in Seq({M[k] : k \in 1 .. m}) /\ Len(M) = m
    BY <1>1, ListIsSequence
  <2>2. PICK V : V = {L[k] : k \in 1 .. n} \union {M[k] : k \in 1 .. m} OBVIOUS
  <2>3. L \in Seq(V) /\ M \in Seq(V) BY <2>1, <2>2
  <2>4. K \in Seq(V) /\ Len(K) = n + m BY <1>2, <2>1, <2>3, ConcatProperties
  <2>5. \A i \in 1 .. n + m : K[i] = IF i <= n THEN L[i] ELSE M[i - n]
    BY <1>2, <2>1, <2>3, ConcatProperties
  <2>6. K = [k \in 1 .. n + m |-> K[k]] BY <2>4
  <2>7. n + m \in Nat BY <1>1
  <2>8. IsList(K, n + m) BY <2>6, <2>7 DEF IsList
  <2> QED BY <2>5, <2>8
<1>4. \A i \in 1 .. n : i \in 1 .. n + m /\ K[i] = L[i] /\ K[i] \in S BY <1>1, <1>3 DEF Enumerates
<1>5. ASSUME NEW i \in 1 .. m PROVE n + i \in 1 .. n + m /\ K[n + i] = M[i] /\ K[n + i] \in T
  <2>1. n + i \in 1 .. n + m /\ ~ (n + i <= n) /\ (n + i) - n = i BY <1>1
  <2>2. K[n + i] = M[i] BY <1>3, <2>1
  <2> QED BY <2>1, <2>2 DEF Enumerates
<1>6. ASSUME NEW i \in 1 .. n + m, ~ (i <= n) PROVE i - n \in 1 .. m /\ K[i] = M[i - n] /\ K[i] \in T
  <2>1. i - n \in 1 .. m BY <1>1, <1>6
  <2> QED BY <1>3, <1>6, <2>1 DEF Enumerates
<1>7. ASSUME NEW i \in 1 .. n + m PROVE K[i] \in S \union T
  <2>1. i <= n => i \in 1 .. n BY <1>1
  <2> QED BY <1>4, <1>6, <2>1
<1>8. ASSUME NEW x \in S \union T PROVE \E i \in 1 .. n + m : K[i] = x
  <2>1. CASE x \in S
    <3>1. PICK i \in 1 .. n : L[i] = x BY <2>1 DEF Enumerates
    <3> QED BY <1>4, <3>1
  <2>2. CASE x \in T
    <3>1. PICK i \in 1 .. m : M[i] = x BY <2>2 DEF Enumerates
    <3> QED BY <1>5, <3>1
  <2> QED BY <2>1, <2>2
<1>9. ASSUME NEW i \in 1 .. n + m, NEW j \in 1 .. n + m, i < j PROVE Precedes(K[i], K[j])
  <2>1. CASE j <= n
    <3>1. i \in 1 .. n /\ j \in 1 .. n BY <1>1, <1>9, <2>1
    <3> QED BY <1>4, <1>9, <3>1 DEF Enumerates
  <2>2. CASE i <= n /\ ~ (j <= n)
    <3>1. i \in 1 .. n BY <1>1, <2>2
    <3> QED BY <1>4, <1>6, <2>2, <3>1
  <2>3. CASE ~ (i <= n) /\ ~ (j <= n)
    <3>1. i - n \in 1 .. m /\ K[i] = M[i - n] /\ j - n \in 1 .. m /\ K[j] = M[j - n] BY <1>6, <2>3
    <3>2. i - n < j - n BY <1>1, <1>9
    <3> QED BY <3>1, <3>2 DEF Enumerates
  <2> QED BY <1>1, <1>9, <2>1, <2>2, <2>3
<1>10. S \union T \subseteq Matched BY <1>1
<1> HIDE DEF Enumerates
<1>11. Enumerates(K, n + m, S \union T) BY <1>3, <1>7, <1>8, <1>9, <1>10 DEF Enumerates
<1> QED BY <1>2, <1>11

\* What one row adds: the rules of a set, in order.
LEMMA RowEnumerates ==
  ASSUME NEW row \in Nat, NEW m \in Nat, NEW K \in SUBSET (1 .. m)
  PROVE  /\ IsFiniteSet(K) /\ Cardinality(K) \in Nat
         /\ Enumerates([i \in DOMAIN InOrder(K) |-> [row |-> row, rule |-> InOrder(K)[i]]], Cardinality(K),
                       {[row |-> row, rule |-> k] : k \in K})
<1>1. IsFiniteSet(K) /\ Cardinality(K) \in Nat /\ K \in SUBSET Int
  <2>1. IsFiniteSet(1 .. m) BY FS_Interval
  <2>2. IsFiniteSet(K) BY <2>1, FS_Subset
  <2> QED BY <2>2, FS_CardinalityType
<1>2. PICK s, n : s = InOrder(K) /\ n = Cardinality(K) OBVIOUS
<1>3. /\ IsList(s, n) /\ \A i \in 1 .. n : s[i] \in K
      /\ \A x \in K : \E i \in 1 .. n : s[i] = x
      /\ \A i, j \in 1 .. n : i < j => s[i] < s[j]
  BY <1>1, <1>2, InOrderLists
<1>4. DOMAIN s = 1 .. n BY <1>3, ListIsSequence
<1>5. PICK L, T : /\ L = [i \in 1 .. n |-> [row |-> row, rule |-> s[i]]]
                  /\ T = {[row |-> row, rule |-> k] : k \in K}
  OBVIOUS
<1>6. IsList(L, n) BY <1>1, <1>2, <1>5 DEF IsList
<1>7. T \subseteq Matched BY <1>5 DEF Matched
<1>8. \A i \in 1 .. n : L[i] \in T BY <1>3, <1>5
<1>9. \A x \in T : \E i \in 1 .. n : L[i] = x BY <1>3, <1>5
<1>10. \A i, j \in 1 .. n : i < j => Precedes(L[i], L[j]) BY <1>3, <1>5 DEF Precedes
<1>11. Enumerates(L, n, T) BY <1>6, <1>7, <1>8, <1>9, <1>10 DEF Enumerates
<1> QED BY <1>1, <1>2, <1>4, <1>5, <1>11

\* Row by row, the rules of each row in order, lists the rows and rules in order.
LEMMA RowsEnumerate ==
  ASSUME NEW n \in Nat, NEW m \in Nat, NEW K, \A row \in 1 .. n : K[row] \in SUBSET (1 .. m), NEW seqs,
         seqs = [row \in 1 .. n |-> [i \in DOMAIN InOrder(K[row]) |-> [row |-> row, rule |-> InOrder(K[row])[i]]]]
  PROVE  \E p \in Nat : Enumerates(FlattenSeq(seqs), p, {x \in [row : 1 .. n, rule : 1 .. m] : x.rule \in K[x.row]})
<1> DEFINE Upto(r) == {x \in [row : 1 .. r, rule : 1 .. m] : x.rule \in K[x.row]}
           Of(r)   == {[row |-> r, rule |-> k] : k \in K[r]}
<1>1. Len(seqs) = n /\ IsList(seqs, n)
  <2>1. IsList(seqs, n) BY DEF IsList
  <2> QED BY <2>1, ListIsSequence
<1>2. PICK f : JoinedTo(f, seqs, n) /\ FlattenSeq(seqs) = IF n = 0 THEN seqs ELSE f[n] BY <1>1, JoinedInTurn
<1>3. \A r \in 1 .. n : \E p \in Nat : Enumerates(seqs[r], p, Of(r))
  <2> TAKE r \in 1 .. n
  <2>1. r \in Nat /\ K[r] \in SUBSET (1 .. m) OBVIOUS
  <2>2. PICK p : p = Cardinality(K[r]) OBVIOUS
  <2>3. p \in Nat BY <2>1, <2>2, RowEnumerates
  <2>4. Enumerates([i \in DOMAIN InOrder(K[r]) |-> [row |-> r, rule |-> InOrder(K[r])[i]]], p,
                   {[row |-> r, rule |-> k] : k \in K[r]})
    BY <2>1, <2>2, RowEnumerates
  <2>5. seqs[r] = [i \in DOMAIN InOrder(K[r]) |-> [row |-> r, rule |-> InOrder(K[r])[i]]] OBVIOUS
  <2>6. Enumerates(seqs[r], p, Of(r)) BY <2>4, <2>5
  <2> QED BY <2>3, <2>6
<1>4. \A r \in 1 .. n : /\ r # 1 => r - 1 \in 1 .. n /\ Upto(r) = Upto(r - 1) \union Of(r)
                        /\ r = 1 => Upto(r) = Of(r)
  <2> TAKE r \in 1 .. n
  <2>0. Of(r) = {x \in [row : {r}, rule : 1 .. m] : x.rule \in K[x.row]} BY SMT
  <2>1. r = 1 => 1 .. r = {r} OBVIOUS
  <2>2. r # 1 => r - 1 \in 1 .. n /\ 1 .. r = (1 .. r - 1) \union {r} OBVIOUS
  <2>3. CASE r = 1
    <3>1. 1 .. r = {r} BY <2>1, <2>3
    <3> QED BY <2>0, <2>3, <3>1
  <2>4. CASE r # 1
    <3>1. 1 .. r = (1 .. r - 1) \union {r} BY <2>2, <2>4
    <3>2. Upto(r) = Upto(r - 1) \union {x \in [row : {r}, rule : 1 .. m] : x.rule \in K[x.row]} BY <3>1
    <3> QED BY <2>0, <2>2, <2>4, <3>2
  <2> QED BY <2>3, <2>4
<1>5. \A r \in 1 .. n : \A x \in Upto(r - 1), y \in Of(r) : Precedes(x, y)
  <2> TAKE r \in 1 .. n
  <2> TAKE x \in Upto(r - 1), y \in Of(r)
  <2>1. x.row \in 1 .. r - 1 /\ y.row = r OBVIOUS
  <2> QED BY <2>1 DEF Precedes
<1> HIDE DEF Upto, Of
<1>6. ASSUME n # 0 PROVE \E p \in Nat : Enumerates(f[n], p, Upto(n))
  <2> DEFINE T == {r \in 1 .. n : ~ \E p \in Nat : Enumerates(f[r], p, Upto(r))}
  <2> SUFFICES ASSUME T # {} PROVE FALSE BY <1>6
  <2>1. PICK r \in T : \A j \in T : r <= j
    <3>1. T \in SUBSET Nat OBVIOUS
    <3> HIDE DEF T
    <3> QED BY <3>1, LeastNatural
  <2>2. r \in 1 .. n /\ ~ \E p \in Nat : Enumerates(f[r], p, Upto(r)) BY <2>1
  <2>3. f[r] = IF r = 1 THEN seqs[r] ELSE f[r - 1] \o seqs[r] BY <1>2, <2>2 DEF JoinedTo
  <2>4. PICK q \in Nat : Enumerates(seqs[r], q, Of(r)) BY <1>3, <2>2
  <2>5. CASE r = 1 BY <1>4, <2>2, <2>3, <2>4, <2>5
  <2>6. CASE r # 1
    <3>1. r - 1 \in 1 .. n /\ ~ (r <= r - 1) BY <1>4, <2>2, <2>6
    <3>2. PICK p \in Nat : Enumerates(f[r - 1], p, Upto(r - 1)) BY <2>1, <3>1
    <3>3. \A x \in Upto(r - 1), y \in Of(r) : Precedes(x, y) BY <1>5, <2>2
    <3>4. Enumerates(f[r - 1] \o seqs[r], p + q, Upto(r - 1) \union Of(r))
      BY <2>4, <3>2, <3>3, EnumeratesMore
    <3>5. Upto(r) = Upto(r - 1) \union Of(r) BY <1>4, <2>2, <2>6
    <3> QED BY <2>2, <2>3, <2>6, <3>4, <3>5
  <2> QED BY <2>5, <2>6
<1>7. ASSUME n = 0 PROVE Enumerates(seqs, 0, Upto(n))
  <2>1. Upto(n) = {}
    <3>1. \A x : x \notin 1 .. 0 OBVIOUS
    <3>2. \A x \in Upto(n) : x.row \in 1 .. 0 BY <1>7 DEF Upto
    <3> QED BY <3>1, <3>2
  <2> QED BY <1>1, <1>7, <2>1 DEF Enumerates
<1>8. PICK g : g = FlattenSeq(seqs) OBVIOUS
<1>9. \E p \in Nat : Enumerates(g, p, Upto(n))
  <2>1. CASE n = 0 BY <1>2, <1>7, <1>8, <2>1
  <2>2. CASE n # 0 BY <1>2, <1>6, <1>8, <2>2
  <2> QED BY <2>1, <2>2
<1> QED BY <1>8, <1>9 DEF Upto

\* The rows and rules that match.
MatchesOf(rules, samples) ==
  {x \in [row : DOMAIN samples, rule : DOMAIN rules] : Matches(rules[x.rule], samples[x.row].values, Kinds)}

LEMMA TurnsEnumerate ==
  ASSUME NEW n, NEW samples, IsList(samples, n), NEW m, NEW rules, IsList(rules, m)
  PROVE  \E p \in Nat : Enumerates(MatchesInTurn(rules, samples), p, MatchesOf(rules, samples))
<1>1. n \in Nat /\ m \in Nat /\ DOMAIN samples = 1 .. n /\ DOMAIN rules = 1 .. m
  BY ListIsSequence DEF IsList
<1> DEFINE matched(row) == {k \in 1 .. m : Matches(rules[k], samples[row].values, Kinds)}
<1>2. PICK K : K = [row \in 1 .. n |-> matched(row)] OBVIOUS
<1>3. \A row \in 1 .. n : K[row] = matched(row) BY <1>2
<1>4. PICK seqs : seqs = [row \in 1 .. n |-> [i \in DOMAIN InOrder(K[row]) |->
                                               [row |-> row, rule |-> InOrder(K[row])[i]]]]
  OBVIOUS
<1>5. IsList(seqs, n) BY <1>1, <1>4 DEF IsList
<1>6. MatchesInTurn(rules, samples) = FlattenSeq(seqs)
  <2>1. seqs = [row \in 1 .. n |-> [i \in DOMAIN InOrder(matched(row)) |->
                                     [row |-> row, rule |-> InOrder(matched(row))[i]]]]
    <3> HIDE DEF matched
    <3> QED BY <1>3, <1>4
  <2>2. MatchesInTurn(rules, samples) = FlattenSeq(Listed(seqs)) BY <1>1, <2>1 DEF MatchesInTurn
  <2>3. Listed(seqs) = seqs BY <1>5, ListIsSequence
  <2> QED BY <2>2, <2>3
<1>7. \A row \in 1 .. n : K[row] \in SUBSET (1 .. m) BY <1>3
<1>8. PICK p \in Nat : Enumerates(FlattenSeq(seqs), p, {x \in [row : 1 .. n, rule : 1 .. m] : x.rule \in K[x.row]})
  BY <1>1, <1>4, <1>7, RowsEnumerate
<1>9. {x \in [row : 1 .. n, rule : 1 .. m] : x.rule \in K[x.row]} = MatchesOf(rules, samples)
  BY <1>1, <1>3 DEF MatchesOf
<1> QED BY <1>6, <1>8, <1>9

\* The rows of a batch that was built.
LEMMA BatchRows ==
  ASSUME NEW intents, IntentBatch(intents) # NoIntents
  PROVE  IntentBatch(intents).intents = intents /\ RowsOf(IntentBatch(intents)) = {intents[k].row : k \in DOMAIN intents}
<1>1. IntentBatch(intents) = [status |-> "BUILT", intents |-> intents] BY DEF IntentBatch
<1> QED BY <1>1 DEF RowsOf

\* The intents of matches are those of their rows and rules, at the same places.
LEMMA IntentsList ==
  ASSUME NEW found, NEW p, IsList(found, p), NEW rules, NEW samples
  PROVE  /\ IsList(IntentsAt(found, rules, samples), p)
         /\ \A i \in 1 .. p : IntentsAt(found, rules, samples)[i]
                                = Intent(rules[found[i].rule], found[i].row, samples[found[i].row])
<1>1. p \in Nat /\ DOMAIN found = 1 .. p BY ListIsSequence DEF IsList
<1>2. PICK f : f = [i \in 1 .. p |-> Intent(rules[found[i].rule], found[i].row, samples[found[i].row])] OBVIOUS
<1>3. IsList(f, p) BY <1>1, <1>2 DEF IsList
<1>4. IntentsAt(found, rules, samples) = Listed(f) BY <1>1, <1>2 DEF IntentsAt
<1>5. Listed(f) = f BY <1>3, ListIsSequence
<1> QED BY <1>2, <1>3, <1>4, <1>5

\* What the anchors of a dataset are.
Anchors(samples, n) ==
  /\ IsList(samples, n)
  /\ \A row \in 1 .. n : samples[row] = [values    |-> samples[row].values,
                                         reference |-> samples[row].reference,
                                         end       |-> row]

LEMMA RulesList ==
  ASSUME NEW rules \in Proposals
  PROVE  IsList(rules, Len(rules)) /\ DOMAIN rules = 1 .. Len(rules)
<1>1. rules \in Seq(Range(rules)) BY HypothesesAssumption
<1>2. Len(rules) \in Nat /\ DOMAIN rules = 1 .. Len(rules) BY <1>1
<1>3. rules \in [1 .. Len(rules) -> Range(rules)] BY <1>1, LenProperties
<1> QED BY <1>2, <1>3 DEF IsList

\* The query finds the intents of the evaluation in memory.
LEMMA QueryAgrees ==
  ASSUME NEW rules \in Proposals, Parsed(rules), NEW samples, NEW n, Anchors(samples, n),
         MaterializeView(samples) # NoIntents
  PROVE  MaterializedIntents(rules, MaterializeView(samples).rows) = CompiledIntents(rules, samples)
<1>1. n \in Nat /\ IsList(samples, n) /\ DOMAIN samples = 1 .. n BY ListIsSequence DEF Anchors, IsList
<1>2. PICK table : table = [row \in 1 .. n |-> [samples[row] EXCEPT !.values = Column(@)]] OBVIOUS
<1>3. IsList(table, n) BY <1>1, <1>2 DEF IsList
<1>4. DOMAIN table = 1 .. n BY <1>3, ListIsSequence
<1>5. /\ MaterializeView(samples).rows = table
      /\ \A row \in 1 .. n, f \in DOMAIN Kinds : Admissible(samples[row].values[f], Kinds[f])
  <2>1. MaterializeView(samples) = [status |-> "WRITTEN", rows |-> Listed(table)]
    <3>1. table = [row \in DOMAIN samples |->
                    [samples[row] EXCEPT !.values = [f \in DOMAIN Kinds |-> FieldValue(@[f], Kinds[f])]]]
      BY <1>1, <1>2 DEF Column
    <3> QED BY <3>1 DEF MaterializeView
  <2>2. Listed(table) = table BY <1>3, ListIsSequence
  <2>3. \A row \in DOMAIN samples, f \in DOMAIN Kinds : Admissible(samples[row].values[f], Kinds[f])
    BY DEF MaterializeView
  <2> QED BY <1>1, <2>1, <2>2, <2>3
<1>6. \A row \in 1 .. n : /\ table[row].values = Column(samples[row].values)
                          /\ table[row].reference = samples[row].reference /\ table[row].end = samples[row].end
  <2> TAKE row \in 1 .. n
  <2>1. PICK s, V : s = samples[row] /\ V = Column(samples[row].values) OBVIOUS
  <2>2. s = [values |-> s.values, reference |-> s.reference, end |-> row] BY <2>1 DEF Anchors
  <2>3. table[row] = [s EXCEPT !.values = V] BY <1>2, <2>1
  <2>4. table[row] = [values |-> V, reference |-> s.reference, end |-> row] BY <2>2, <2>3
  <2>5. s.end = row BY <2>2
  <2> QED BY <2>1, <2>4, <2>5
<1>7. PICK m \in Nat : IsList(rules, m) /\ DOMAIN rules = 1 .. m BY RulesList DEF IsList
<1>8. CASE \E c \in Conditions(rules) : ~ CheckCondition(c)
  BY <1>5, <1>8 DEF MaterializedIntents, CompiledIntents
<1>9. CASE \A c \in Conditions(rules) : CheckCondition(c)
  <2> DEFINE found == UNION {{[row |-> row, rule |-> k] : row \in QueryRule(rules[k], table)} : k \in DOMAIN rules}
  <2>1. \A row \in 1 .. n, f \in {c.field : c \in Conditions(rules)} : Admissible(samples[row].values[f], Kinds[f])
    BY <1>5 DEF Parsed
  <2>2. PICK L, p : L = MatchesInTurn(rules, samples) /\ Enumerates(L, p, MatchesOf(rules, samples))
    BY <1>1, <1>7, TurnsEnumerate
  <2>3. \A k \in 1 .. m, row \in 1 .. n : row \in QueryRule(rules[k], table) <=> Matches(rules[k], samples[row].values, Kinds)
    <3> TAKE k \in 1 .. m, row \in 1 .. n
    <3>1. ASSUME NEW i \in DOMAIN rules[k].conditions
          PROVE  /\ SqlCondition(rules[k].conditions[i], table[row].values)
                      <=> Satisfied(rules[k].conditions[i], samples[row].values, Kinds)
      <4>1. rules[k].conditions[i] \in Range(rules[k].conditions) BY DEF Range
      <4>2. CheckCondition(rules[k].conditions[i]) BY <1>7, <1>9, <4>1 DEF Conditions
      <4>3. SqlCondition(rules[k].conditions[i], Column(samples[row].values))
              <=> Satisfied(rules[k].conditions[i], samples[row].values, Kinds)
        BY <1>7, <4>2, SqlAgrees
      <4> QED BY <1>6, <4>3
    <3> QED BY <1>4, <3>1 DEF QueryRule, Matches
  <2>4. found = MatchesOf(rules, samples)
    <3>1. \A k \in 1 .. m : QueryRule(rules[k], table) \subseteq 1 .. n BY <1>4 DEF QueryRule
    <3>2. \A x \in found : x \in MatchesOf(rules, samples)
      <4> TAKE x \in found
      <4>0. PICK k \in 1 .. m : x \in {[row |-> row, rule |-> k] : row \in QueryRule(rules[k], table)} BY <1>7
      <4>1. PICK row \in QueryRule(rules[k], table) : x = [row |-> row, rule |-> k] BY <4>0
      <4>2. row \in 1 .. n BY <3>1, <4>1
      <4>3. Matches(rules[k], samples[row].values, Kinds) BY <2>3, <4>1, <4>2
      <4> QED BY <1>1, <1>7, <4>1, <4>2, <4>3 DEF MatchesOf
    <3>3. \A x \in MatchesOf(rules, samples) : x \in found
      <4> TAKE x \in MatchesOf(rules, samples)
      <4>1. PICK row \in 1 .. n, k \in 1 .. m : /\ x = [row |-> row, rule |-> k]
                                                /\ Matches(rules[k], samples[row].values, Kinds)
        BY <1>1, <1>7 DEF MatchesOf
      <4>2. row \in QueryRule(rules[k], table) BY <2>3, <4>1
      <4> QED BY <1>7, <4>1, <4>2
    <3> QED BY <3>2, <3>3
  <2> HIDE DEF found
  <2>5. InRowOrder(found) = L BY <2>2, <2>4, RowOrderUnique
  <2>6. IntentsAt(L, rules, table) = IntentsAt(L, rules, samples)
    <3>1. IsList(L, p) BY <2>2 DEF Enumerates
    <3>2. \A i \in 1 .. p : L[i].row \in 1 .. n BY <1>1, <2>2 DEF Enumerates, MatchesOf
    <3>3. \A i \in 1 .. p : Intent(rules[L[i].rule], L[i].row, table[L[i].row])
                              = Intent(rules[L[i].rule], L[i].row, samples[L[i].row])
      BY <1>6, <3>2 DEF Intent
    <3>4. PICK f, g : f = IntentsAt(L, rules, table) /\ g = IntentsAt(L, rules, samples) OBVIOUS
    <3>5. IsList(f, p) /\ IsList(g, p) BY <3>1, <3>4, IntentsList
    <3>6. \A i \in 1 .. p : f[i] = g[i] BY <3>1, <3>3, <3>4, IntentsList
    <3> QED BY <3>4, <3>5, <3>6, ListsEqual
  <2>7. MaterializedIntents(rules, table) = IntentBatch(IntentsAt(L, rules, table))
    BY <1>9, <2>5 DEF MaterializedIntents, found
  <2>8. CompiledIntents(rules, samples) = IntentBatch(IntentsAt(L, rules, samples))
    BY <1>1, <1>9, <2>1, <2>2 DEF CompiledIntents
  <2> QED BY <1>5, <2>6, <2>7, <2>8
<1> QED BY <1>8, <1>9

\* The rows that one rule alone matches.
LEMMA CompiledRows ==
  ASSUME NEW rule, NEW samples, NEW n, IsList(samples, n), CompiledIntents(<<rule>>, samples) # NoIntents
  PROVE  RowsOf(CompiledIntents(<<rule>>, samples)) = {row \in 1 .. n : Matches(rule, samples[row].values, Kinds)}
<1>1. PICK rules : rules = <<rule>> OBVIOUS
<1>2. IsList(rules, 1) /\ DOMAIN rules = {1} /\ rules[1] = rule
  <2>1. rules = [k \in 1 .. 1 |-> rules[k]] BY <1>1
  <2> QED BY <1>1, <2>1 DEF IsList
<1>3. n \in Nat /\ DOMAIN samples = 1 .. n BY ListIsSequence DEF IsList
<1>4. PICK L, p : L = MatchesInTurn(rules, samples) /\ Enumerates(L, p, MatchesOf(rules, samples))
  BY <1>2, TurnsEnumerate
<1>5. PICK I : I = IntentsAt(L, rules, samples) OBVIOUS
<1>6. CompiledIntents(rules, samples) = IntentBatch(I) BY <1>1, <1>4, <1>5 DEF CompiledIntents
<1>7. RowsOf(CompiledIntents(rules, samples)) = {I[k].row : k \in DOMAIN I} BY <1>1, <1>6, BatchRows
<1>8. IsList(L, p) BY <1>4 DEF Enumerates
<1>9. DOMAIN I = 1 .. p
  <2>1. IsList(I, p) BY <1>5, <1>8, IntentsList
  <2> QED BY <2>1, ListIsSequence
<1>10. \A k \in 1 .. p : I[k].row = L[k].row
  <2> TAKE k \in 1 .. p
  <2>1. I[k] = Intent(rules[L[k].rule], L[k].row, samples[L[k].row]) BY <1>5, <1>8, IntentsList
  <2> QED BY <2>1 DEF Intent, Placed
<1>11. {L[k].row : k \in 1 .. p} = {row \in 1 .. n : Matches(rule, samples[row].values, Kinds)}
  <2>1. \A k \in 1 .. p : L[k].row \in 1 .. n /\ Matches(rule, samples[L[k].row].values, Kinds)
    <3> TAKE k \in 1 .. p
    <3>1. L[k] \in MatchesOf(rules, samples) BY <1>4 DEF Enumerates
    <3> QED BY <1>2, <1>3, <3>1 DEF MatchesOf
  <2>2. ASSUME NEW row \in 1 .. n, Matches(rule, samples[row].values, Kinds)
        PROVE  \E k \in 1 .. p : L[k].row = row
    <3>1. PICK x : x = [row |-> row, rule |-> 1] OBVIOUS
    <3>2. x \in MatchesOf(rules, samples) BY <1>2, <1>3, <2>2, <3>1 DEF MatchesOf
    <3>3. PICK k \in 1 .. p : L[k] = x BY <1>4, <3>2 DEF Enumerates
    <3> QED BY <3>1, <3>3
  <2> QED BY <2>1, <2>2
<1> QED BY <1>1, <1>7, <1>9, <1>10, <1>11

\* The bars of a market in the order of time.
LEMMA PreparedList ==
  ASSUME NEW market, DOMAIN market \subseteq Int, IsFiniteSet(DOMAIN market), DOMAIN market # {}
  PROVE  \E m \in Nat \ {0} : /\ IsList(Prepared(market), m)
                              /\ \A i \in 1 .. m : Prepared(market)[i].t \in Int
                              /\ \A i, j \in 1 .. m : i < j => Prepared(market)[i].t < Prepared(market)[j].t
<1>1. PICK s, m : s = InOrder(DOMAIN market) /\ m = Cardinality(DOMAIN market) OBVIOUS
<1>2. m \in Nat /\ m # 0
  <2>1. m \in Nat BY <1>1, FS_CardinalityType
  <2>2. m # 0 BY <1>1, FS_EmptySet
  <2> QED BY <2>1, <2>2
<1>3. IsList(s, m) /\ (\A i \in 1 .. m : s[i] \in DOMAIN market) /\ \A i, j \in 1 .. m : i < j => s[i] < s[j]
  BY <1>1, InOrderLists
<1>4. DOMAIN s = 1 .. m BY <1>3, ListIsSequence
<1>5. PICK f : f = [i \in 1 .. m |-> [t |-> s[i], bar |-> market[s[i]]]] OBVIOUS
<1>6. IsList(f, m) BY <1>2, <1>5 DEF IsList
<1>7. Prepared(market) = f
  <2>1. Prepared(market) = Listed(f) BY <1>1, <1>4, <1>5 DEF Prepared
  <2> QED BY <1>6, <2>1, ListIsSequence
<1>8. \A i \in 1 .. m : f[i].t = s[i] BY <1>5
<1>9. \A i \in 1 .. m : f[i].t \in Int BY <1>3, <1>8
<1>10. \A i, j \in 1 .. m : i < j => f[i].t < f[j].t BY <1>3, <1>8
<1> QED BY <1>2, <1>6, <1>7, <1>9, <1>10

\* A bar follows an instant that is not after the last one's opening.
LEMMA FirstIsThere ==
  ASSUME NEW table, NEW m \in Nat \ {0}, IsList(table, m), \A i \in 1 .. m : table[i].t \in Int,
         \A i, j \in 1 .. m : i < j => table[i].t < table[j].t, NEW instant \in Int
  PROVE  FirstFrom(table, instant) <= Len(table) <=> instant <= table[Len(table)].t
<1>1. Len(table) = m /\ DOMAIN table = 1 .. m BY ListIsSequence
<1>2. PICK E : E = {i \in 1 .. m : table[i].t < instant} OBVIOUS
<1>3. FirstFrom(table, instant) = Cardinality(E) + 1 BY <1>1, <1>2 DEF FirstFrom
<1>4. IsFiniteSet(1 .. m) /\ Cardinality(1 .. m) = m BY FS_Interval
<1>5. E \subseteq 1 .. m BY <1>2
<1>6. /\ Cardinality(E) \in Nat /\ Cardinality(E) <= m
      /\ Cardinality(E) = m => E = 1 .. m
  BY <1>4, <1>5, FS_Subset, FS_CardinalityType
<1>7. m \in 1 .. m OBVIOUS
<1>8. CASE instant <= table[m].t
  <2>1. m \notin E BY <1>2, <1>7, <1>8
  <2>2. Cardinality(E) # m BY <1>6, <1>7, <2>1
  <2> QED BY <1>1, <1>3, <1>6, <1>8, <2>2
<1>9. CASE ~ (instant <= table[m].t)
  <2>1. \A i \in 1 .. m : table[i].t < instant
    <3> TAKE i \in 1 .. m
    <3>1. i < m \/ i = m OBVIOUS
    <3>2. table[i].t <= table[m].t
      <4>1. table[i].t \in Int /\ table[m].t \in Int BY <1>7
      <4>2. i < m => table[i].t < table[m].t BY <1>7
      <4> QED BY <3>1, <4>1, <4>2
    <3> QED BY <1>7, <1>9, <3>2
  <2>2. E = 1 .. m BY <1>2, <2>1
  <2>3. Cardinality(E) = m BY <1>4, <2>2
  <2> QED BY <1>1, <1>3, <1>9, <2>3
<1> QED BY <1>8, <1>9

\* The runner takes every field for what the packet says it is.
LEMMA RunnerMatches ==
  ASSUME NEW rule, \A c \in Range(rule.conditions) : RunnerKind(c) = Kinds[c.field], NEW values, NEW kinds,
         kinds = [f \in {c.field : c \in Range(rule.conditions)} |->
                    RunnerKind(CHOOSE c \in Range(rule.conditions) : c.field = f)]
  PROVE  Matches(rule, values, kinds) <=> Matches(rule, values, Kinds)
<1>1. ASSUME NEW i \in DOMAIN rule.conditions
      PROVE  Satisfied(rule.conditions[i], values, kinds) <=> Satisfied(rule.conditions[i], values, Kinds)
  <2>1. PICK c \in Range(rule.conditions) : c = rule.conditions[i] BY DEF Range
  <2>2. PICK d : d = CHOOSE b \in Range(rule.conditions) : b.field = c.field OBVIOUS
  <2>3. d \in Range(rule.conditions) /\ d.field = c.field BY <2>2
  <2>4. kinds[c.field] = RunnerKind(d) BY <2>2
  <2>5. kinds[c.field] = Kinds[c.field] BY <2>3, <2>4
  <2>6. Satisfied(c, values, kinds) <=> Satisfied(c, values, Kinds) BY <2>5 DEF Satisfied
  <2> QED BY <2>1, <2>6
<1> QED BY <1>1 DEF Matches

LEMMA RunnerAgrees ==
  ASSUME NEW rule, \A c \in Range(rule.conditions) : RunnerKind(c) = Kinds[c.field],
         NEW samples, NEW n, Anchors(samples, n), RunnerIntents(rule, samples, Session) # NoIntents,
         NEW table, table = Prepared(Session), NEW run, run = RunnerIntents(rule, samples, Session)
  PROVE  /\ RowsOf(run) = {row \in 1 .. n : /\ Matches(rule, samples[row].values, Kinds)
                                            /\ samples[row].end <= table[Len(table)].t}
         /\ \A i \in DOMAIN run.intents :
              EntryPrice(run.intents[i], table[EntryIndex(run.intents[i], table)]) = run.intents[i].price
<1>1. n \in Nat /\ DOMAIN samples = 1 .. n BY ListIsSequence DEF Anchors, IsList
<1>2. \A row \in 1 .. n : samples[row].end = row
  <2> TAKE row \in 1 .. n
  <2>1. PICK s : s = samples[row] OBVIOUS
  <2>2. s = [values |-> s.values, reference |-> s.reference, end |-> row] BY <2>1 DEF Anchors
  <2>3. s.end = row BY <2>2
  <2> QED BY <2>1, <2>3
<1>3. PICK m \in Nat \ {0} : /\ IsList(table, m) /\ \A i \in 1 .. m : table[i].t \in Int
                             /\ \A i, j \in 1 .. m : i < j => table[i].t < table[j].t
  BY HypothesesAssumption, PreparedList
<1>4. PICK kinds : kinds = [f \in {c.field : c \in Range(rule.conditions)} |->
                              RunnerKind(CHOOSE c \in Range(rule.conditions) : c.field = f)]
  OBVIOUS
<1> DEFINE next(row) == FirstFrom(table, samples[row].end)
           taken == {row \in DOMAIN samples : Matches(rule, samples[row].values, kinds) /\ next(row) <= Len(table)}
           placed(row) == Placed(rule, row, table[next(row)].bar.o, samples[row].end, "MARKET_NEXT_OPEN")
<1>5. taken = {row \in 1 .. n : /\ Matches(rule, samples[row].values, Kinds)
                                /\ samples[row].end <= table[Len(table)].t}
  <2>1. \A row \in 1 .. n : next(row) <= Len(table) <=> samples[row].end <= table[Len(table)].t
    BY <1>2, <1>3, FirstIsThere
  <2>2. \A row \in 1 .. n : Matches(rule, samples[row].values, kinds) <=> Matches(rule, samples[row].values, Kinds)
    BY <1>4, RunnerMatches
  <2> HIDE DEF next
  <2> QED BY <1>1, <2>1, <2>2
<1>6. taken \in SUBSET Int /\ IsFiniteSet(taken)
  <2>1. PICK T, U : T = taken /\ U = 1 .. n OBVIOUS
  <2>2. IsFiniteSet(U) BY <1>1, <2>1, FS_Interval
  <2>3. T \subseteq U /\ U \subseteq Int BY <1>1, <2>1
  <2>4. IsFiniteSet(T) BY <2>2, <2>3, FS_Subset
  <2> QED BY <2>1, <2>3, <2>4
<1> HIDE DEF taken
<1>7. PICK chosen, q : chosen = InOrder(taken) /\ q = Cardinality(taken) OBVIOUS
<1>8. /\ IsList(chosen, q) /\ \A k \in 1 .. q : chosen[k] \in taken
      /\ \A row \in taken : \E k \in 1 .. q : chosen[k] = row
  BY <1>6, <1>7, InOrderLists
<1>9. q \in Nat /\ DOMAIN chosen = 1 .. q BY <1>8, ListIsSequence DEF IsList
<1>10. PICK I : I = [k \in 1 .. q |-> placed(chosen[k])] OBVIOUS
<1>11. IsList(I, q) BY <1>9, <1>10 DEF IsList
<1>12. DOMAIN I = 1 .. q /\ Listed(I) = I BY <1>11, ListIsSequence
<1>13. RunnerIntents(rule, samples, Session) = IntentBatch(Listed(I))
  BY <1>4, <1>7, <1>9, <1>10 DEF RunnerIntents, taken
<1>14. run.intents = I /\ RowsOf(run) = {I[k].row : k \in 1 .. q}
  <2>1. run = IntentBatch(I) /\ IntentBatch(I) # NoIntents BY <1>12, <1>13
  <2>2. IntentBatch(I).intents = I /\ RowsOf(IntentBatch(I)) = {I[k].row : k \in DOMAIN I}
    BY <2>1, BatchRows
  <2> QED BY <1>12, <2>1, <2>2
<1>15. \A k \in 1 .. q : /\ I[k].row = chosen[k] /\ I[k].entry = "MARKET_NEXT_OPEN"
                         /\ I[k].signal = samples[chosen[k]].end
                         /\ I[k].price = table[next(chosen[k])].bar.o
  BY <1>10 DEF Placed
<1>16. {I[k].row : k \in 1 .. q} = taken BY <1>8, <1>15
<1>17. ASSUME NEW k \in 1 .. q
       PROVE  EntryPrice(I[k], table[EntryIndex(I[k], table)]) = I[k].price
  <2>1. next(chosen[k]) <= Len(table) BY <1>8 DEF taken
  <2>2. PICK x, j : x = I[k] /\ j = next(chosen[k]) OBVIOUS
  <2>3. x.entry = "MARKET_NEXT_OPEN" /\ FirstFrom(table, x.signal) = j /\ x.price = table[j].bar.o
    BY <1>15, <2>2
  <2>4. ~ (j > Len(table))
    <3>1. j <= Len(table) BY <2>1, <2>2
    <3>2. Len(table) \in Int BY <1>3, ListIsSequence
    <3>3. j \in Int
      <4>1. chosen[k] \in 1 .. n BY <1>5, <1>8
      <4>2. PICK E : E = {i \in DOMAIN table : table[i].t < samples[chosen[k]].end} OBVIOUS
      <4>3. DOMAIN table = 1 .. m /\ IsFiniteSet(1 .. m)
        <5>1. DOMAIN table = 1 .. m BY <1>3, ListIsSequence
        <5>2. IsFiniteSet(1 .. m) BY FS_Interval
        <5> QED BY <5>1, <5>2
      <4>4. E \subseteq 1 .. m BY <4>2, <4>3
      <4>5. Cardinality(E) \in Nat BY <4>3, <4>4, FS_Subset, FS_CardinalityType
      <4> QED BY <2>2, <4>2, <4>5 DEF FirstFrom
    <3> QED BY <3>1, <3>2, <3>3
  <2>5. EntryIndex(x, table) = j BY <2>3, <2>4 DEF EntryIndex
  <2>6. EntryPrice(x, table[j]) = table[j].bar.o BY <2>3 DEF EntryPrice
  <2> QED BY <2>2, <2>3, <2>5, <2>6
<1> QED BY <1>5, <1>12, <1>14, <1>16, <1>17

\* The intents of a hypothesis are the same whichever way they are built
\* (BuildersAgree).
THEOREM BuildersAgreeHolds == HypothesisSpec => []BuildersAgree
<1>1. HypothesisInv => BuildersAgree
  <2> SUFFICES ASSUME HypothesisInv, MaterializeView(dataset) # NoIntents PROVE BuildersAgree BY DEF BuildersAgree
  <2>1. PICK n \in Nat : Anchors(dataset, n) BY DEF HypothesisInv, Anchors
  <2>2. MaterializedIntents(proposal, MaterializeView(dataset).rows) = CompiledIntents(proposal, dataset)
    BY <2>1, QueryAgrees DEF HypothesisInv
  <2>3. ASSUME NEW k \in DOMAIN proposal, NEW rule, rule = proposal[k],
               NEW run, run = RunnerIntents(rule, dataset, Session),
               NEW compiled, compiled = CompiledIntents(<<rule>>, dataset),
               \A c \in Range(rule.conditions) : RunnerKind(c) = Kinds[c.field],
               NoIntents \notin {run, compiled},
               NEW table, table = Prepared(Session)
        PROVE  /\ RowsOf(run) = {row \in RowsOf(compiled) : dataset[row].end <= table[Len(table)].t}
               /\ \A i \in DOMAIN run.intents :
                    EntryPrice(run.intents[i], table[EntryIndex(run.intents[i], table)]) = run.intents[i].price
    <3>1. IsList(dataset, n) BY <2>1 DEF Anchors
    <3>2. RowsOf(compiled) = {row \in 1 .. n : Matches(rule, dataset[row].values, Kinds)}
      BY <2>3, <3>1, CompiledRows
    <3>3. RowsOf(run) = {row \in 1 .. n : /\ Matches(rule, dataset[row].values, Kinds)
                                          /\ dataset[row].end <= table[Len(table)].t}
      BY <2>1, <2>3, RunnerAgrees
    <3>4. \A i \in DOMAIN run.intents :
            EntryPrice(run.intents[i], table[EntryIndex(run.intents[i], table)]) = run.intents[i].price
      BY <2>1, <2>3, RunnerAgrees
    <3> QED BY <3>2, <3>3, <3>4
  <2> QED BY <2>2, <2>3 DEF BuildersAgree
<1> QED BY <1>1, HypothesisInvariant, PTL
=================================================================================
