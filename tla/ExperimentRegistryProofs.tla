----------------------- MODULE ExperimentRegistryProofs -----------------------
(***************************************************************************)
(* Theorems about ExperimentRegistry, for any number of sessions, any      *)
(* calls of each and any stops.                                            *)
(***************************************************************************)
EXTENDS ExperimentRegistry, TLAPS

\* Labels of the transactions that use the record the session carries.
Holding == {"insert", "updateEdit", "duplicates", "update", "audit",
            "insertAudit", "gate", "replication", "link"}
Auditing == {"audit", "insertAudit", "gate"}
Linking == {"replication", "link", "result"}

\* What a session that is about to run transaction l with locals e, r and x
\* knows of its locals and of rows that are never deleted.
Known(l, e, r, x) ==
  /\ l # "idle" => e \in Experiments
  /\ l \in Holding => r \in Record
  /\ l \in Auditing => record[e] # Absent
  /\ l \in {"insertAudit", "gate"} => x \in Audit
  /\ l = "gate" => x \in audits
  /\ l \in Linking => x \in Runs
  /\ l = "result" => Linked(e, x)
  /\ l = "verdict" => x \in Runs \X Values

TablesTyped ==
  /\ record \in [Experiments -> Record \union {Absent}]
  /\ fingerprint \in [Experiments -> Specs \union {NoSpec}]
  /\ column \in [Experiments -> Statuses \union {"ABSENT"}]
  /\ audits \subseteq Audit
  /\ overrides \subseteq audits
  /\ links \subseteq Link
  /\ results \in [Runs -> Experiments \union {NoExperiment}]
  /\ verdicts \in [Runs -> Seq(Values)]

Extras == Audit \union Runs \union (Runs \X Values) \union {Nothing}

LocalsTyped ==
  /\ at \in [Sessions -> Labels]
  /\ exp \in [Sessions -> Experiments \union {NoExperiment}]
  /\ snap \in [Sessions -> Record \union {Absent}]
  /\ extra \in [Sessions -> Extras]

SessionsKnow == \A s \in Sessions : Known(at[s], exp[s], snap[s], extra[s])

RegistryInv ==
  /\ TablesTyped
  /\ LocalsTyped
  /\ SessionsKnow
  /\ ResultLinked
  /\ VerdictOnce

-----------------------------------------------------------------------------
(* Lemmas about the data. *)

\* The statuses an experiment that exists may have.
LEMMA StatusNames ==
  Statuses = {"DRAFT", "APPROVED", "RUNNING", "COMPLETED", "REVIEWED", "FAILED",
              "CANCELLED", "CLOSED"}
BY DEF Statuses, Transitions

\* An experiment that does not exist has no record.
LEMMA AbsentNotRecord == Absent \notin Record
BY StatusNames DEF Absent, Record

\* A row that is present holds a record, and a record a specification.
LEMMA PresentIsRecord ==
  ASSUME NEW r \in Record \union {Absent}
  PROVE  /\ r.status # "ABSENT" => r \in Record
         /\ r # Absent => r \in Record
         /\ r \in Record => r # Absent /\ r.status # "ABSENT" /\ r.spec \in Specs
         /\ r.status \in Statuses \union {"ABSENT"}
BY AbsentNotRecord, StatusNames DEF Absent, Record

\* A transition starts from a status of the lifecycle and leads to another.
LEMMA TransitionSource ==
  ASSUME NEW from \in Statuses \union {"ABSENT"}, NEW target \in Transitions[from]
  PROVE  /\ from # "ABSENT"
         /\ target \in Statuses
         /\ target # "DRAFT"
         /\ target = "RUNNING" => from = "APPROVED"
         /\ target \in Started \ {"RUNNING"} => from \in Started
         /\ from = "DRAFT" => target \in {"APPROVED", "CANCELLED"}
         /\ target = "APPROVED" => from = "DRAFT"
BY StatusNames DEF Transitions, Started

-----------------------------------------------------------------------------
(* One session moves; the rows the others know of stay. *)

RowsStay ==
  /\ \A e \in Experiments : record[e] # Absent => record'[e] # Absent
  /\ audits \subseteq audits'
  /\ links \subseteq links'

\* What a session knows stays true while other sessions move.
LEMMA KnowledgeStays ==
  ASSUME LocalsTyped, RowsStay, NEW t \in Sessions,
         Known(at[t], exp[t], snap[t], extra[t]),
         at'[t] = at[t], exp'[t] = exp[t], snap'[t] = snap[t], extra'[t] = extra[t]
  PROVE  Known(at[t], exp[t], snap[t], extra[t])'
<1>1. at'[t] \in Auditing => record'[exp'[t]] # Absent
  <2>1. at[t] \in Auditing => exp[t] \in Experiments /\ record[exp[t]] # Absent
    BY DEF Known, Auditing
  <2>2. QED
    BY <2>1 DEF RowsStay
<1>2. at'[t] = "gate" => extra'[t] \in audits'
  BY DEF Known, RowsStay
<1>3. at'[t] = "result" => Linked(exp[t], extra[t])'
  BY DEF Known, RowsStay, Linked
<1>4. QED
  BY <1>1, <1>2, <1>3 DEF Known

\* A session that moves to transaction l must know what l relies on.
LEMMA SessionMoves ==
  ASSUME LocalsTyped, SessionsKnow, RowsStay,
         NEW s \in Sessions, NEW l \in Labels,
         NEW e \in Experiments \union {NoExperiment},
         NEW r \in Record \union {Absent}, NEW x \in Extras,
         at' = [at EXCEPT ![s] = l], exp' = [exp EXCEPT ![s] = e],
         snap' = [snap EXCEPT ![s] = r], extra' = [extra EXCEPT ![s] = x],
         Known(l, e, r, x)'
  PROVE  LocalsTyped' /\ SessionsKnow'
<1>1. LocalsTyped'
  BY DEF LocalsTyped
<1>2. ASSUME NEW t \in Sessions
      PROVE  Known(at[t], exp[t], snap[t], extra[t])'
  <2>1. CASE t = s
    <3>1. at'[t] = l /\ exp'[t] = e /\ snap'[t] = r /\ extra'[t] = x
      BY <2>1 DEF LocalsTyped
    <3>2. QED
      BY <3>1 DEF Known, Linked
  <2>2. CASE t # s
    <3>1. at'[t] = at[t] /\ exp'[t] = exp[t] /\ snap'[t] = snap[t] /\ extra'[t] = extra[t]
      BY <2>2 DEF LocalsTyped
    <3>2. Known(at[t], exp[t], snap[t], extra[t])
      BY DEF SessionsKnow
    <3>3. QED
      BY <3>1, <3>2, KnowledgeStays
  <2>3. QED
    BY <2>1, <2>2
<1>3. QED
  BY <1>1, <1>2 DEF SessionsKnow

\* A call that begins writes no table.
LEMMA BeginKeeps ==
  ASSUME RegistryInv, NEW s \in Sessions, NEW call, NEW l \in Labels,
         NEW e \in Experiments, NEW r \in Record \union {Absent}, NEW x \in Extras,
         Begin(s, call, l, e, r, x), UNCHANGED tables, Known(l, e, r, x)
  PROVE  RegistryInv'
<1>1. TablesTyped' /\ ResultLinked' /\ VerdictOnce'
  BY DEF RegistryInv, TablesTyped, ResultLinked, VerdictOnce, Linked, tables
<1>2. RowsStay
  BY DEF RowsStay, tables
<1>3. Known(l, e, r, x)'
  BY DEF Known, Linked, tables
<1>4. LocalsTyped' /\ SessionsKnow'
  BY <1>2, <1>3, SessionMoves DEF RegistryInv, Begin
<1>5. QED
  BY <1>1, <1>4 DEF RegistryInv

\* A session that returns knows nothing.
LEMMA ReturnKeeps ==
  ASSUME LocalsTyped, SessionsKnow, RowsStay, NEW s \in Sessions, Return(s)
  PROVE  LocalsTyped' /\ SessionsKnow'
<1>1. "idle" \in Labels /\ Nothing \in Extras
  BY DEF Labels, Extras
<1>2. Known("idle", NoExperiment, Absent, Nothing)'
  BY DEF Known, Holding, Auditing, Linking
<1>3. QED
  BY <1>1, <1>2, SessionMoves DEF Return

\* A session that goes on to transaction l with the locals it has.
LEMMA GotoKeeps ==
  ASSUME LocalsTyped, SessionsKnow, RowsStay, NEW s \in Sessions, NEW l \in Labels,
         Goto(s, l), Known(l, exp[s], snap[s], extra[s])'
  PROVE  LocalsTyped' /\ SessionsKnow'
<1>1. /\ exp' = [exp EXCEPT ![s] = exp[s]] /\ exp[s] \in Experiments \union {NoExperiment}
      /\ snap' = [snap EXCEPT ![s] = snap[s]] /\ snap[s] \in Record \union {Absent}
      /\ extra' = [extra EXCEPT ![s] = extra[s]] /\ extra[s] \in Extras
  BY DEF LocalsTyped, Goto
<1>2. \E e \in Experiments \union {NoExperiment}, r \in Record \union {Absent}, x \in Extras :
        e = exp[s] /\ r = snap[s] /\ x = extra[s]
  BY <1>1
<1>3. PICK e \in Experiments \union {NoExperiment}, r \in Record \union {Absent}, x \in Extras :
        e = exp[s] /\ r = snap[s] /\ x = extra[s]
  BY <1>2
<1>4. Known(l, e, r, x)'
  BY <1>3 DEF Known, Linked, Goto
<1>5. /\ at' = [at EXCEPT ![s] = l] /\ exp' = [exp EXCEPT ![s] = e]
      /\ snap' = [snap EXCEPT ![s] = r] /\ extra' = [extra EXCEPT ![s] = x]
  BY <1>1, <1>3 DEF Goto
<1>6. QED
  BY <1>4, <1>5, SessionMoves

-----------------------------------------------------------------------------
(* Every step keeps the invariant. *)

\* The calls keep the invariant: all but create_override only begin, with
\* locals that satisfy what their next transaction relies on.
LEMMA CallKeeps ==
  ASSUME RegistryInv, NEW s \in Sessions, Call(s)
  PROVE  RegistryInv'
<1> USE DEF RegistryInv, TablesTyped
<1>1. CASE \E e \in Experiments, spec \in Specs : CreateExperiment(s, e, spec)
  <2>1. PICK e \in Experiments, spec \in Specs : CreateExperiment(s, e, spec)
    BY <1>1
  <2>2. [status |-> "DRAFT", spec |-> spec] \in Record
    BY StatusNames DEF Record
  <2>3. Known("insert", e, [status |-> "DRAFT", spec |-> spec], Nothing)
    BY <2>2 DEF Known, Auditing, Linking
  <2>4. QED
    BY <2>1, <2>2, <2>3, BeginKeeps DEF CreateExperiment, Labels, Extras
<1>2. CASE \E e \in Experiments, spec \in Specs : EditExperiment(s, e, spec)
  <2>1. PICK e \in Experiments, spec \in Specs : EditExperiment(s, e, spec)
    BY <1>2
  <2>2. record[e] \in Record
    BY <2>1, PresentIsRecord DEF EditExperiment, Editable
  <2>3. [record[e] EXCEPT !.spec = spec] \in Record
    BY <2>2 DEF Record
  <2>4. Known("updateEdit", e, [record[e] EXCEPT !.spec = spec], Nothing)
    BY <2>3 DEF Known, Auditing, Linking
  <2>5. QED
    BY <2>1, <2>3, <2>4, BeginKeeps DEF EditExperiment, Labels, Extras
<1>3. CASE \E e \in Experiments : ApproveExperiment(s, e)
  <2>1. PICK e \in Experiments : ApproveExperiment(s, e)
    BY <1>3
  <2>2. record[e] \in Record
    BY <2>1, PresentIsRecord DEF ApproveExperiment
  <2>3. Known("duplicates", e, record[e], Nothing)
    BY <2>2 DEF Known, Auditing, Linking
  <2>4. QED
    BY <2>1, <2>2, <2>3, BeginKeeps DEF ApproveExperiment, Labels, Extras
<1>4. CASE \E e \in Experiments : StartExperiment(s, e)
  <2>1. PICK e \in Experiments : StartExperiment(s, e)
    BY <1>4
  <2>2. record[e].status # "ABSENT" /\ record[e] \in Record
    BY <2>1, PresentIsRecord, TransitionSource DEF StartExperiment
  <2>3. [record[e] EXCEPT !.status = "RUNNING"] \in Record /\ record[e] # Absent
    BY <2>2, StatusNames, PresentIsRecord DEF Record
  <2>4. Known("audit", e, [record[e] EXCEPT !.status = "RUNNING"], Nothing)
    BY <2>3 DEF Known, Linking
  <2>5. QED
    BY <2>1, <2>3, <2>4, BeginKeeps DEF StartExperiment, Labels, Extras
<1>5. CASE \E e \in Experiments, target \in Statuses : TransitionExperiment(s, e, target)
  <2>1. PICK e \in Experiments, target \in Statuses : TransitionExperiment(s, e, target)
    BY <1>5
  <2>2. record[e].status # "ABSENT" /\ record[e] \in Record
    BY <2>1, PresentIsRecord, TransitionSource DEF TransitionExperiment
  <2>3. [record[e] EXCEPT !.status = target] \in Record
    BY <2>2 DEF Record
  <2>4. Known("update", e, [record[e] EXCEPT !.status = target], Nothing)
    BY <2>3 DEF Known, Linking, Auditing
  <2>5. QED
    BY <2>1, <2>3, <2>4, BeginKeeps DEF TransitionExperiment, Labels, Extras
<1>6. CASE \E audit \in audits : CreateOverride(s, audit)
  <2>1. TablesTyped' /\ LocalsTyped' /\ ResultLinked' /\ VerdictOnce'
    BY <1>6 DEF CreateOverride, locals, LocalsTyped, ResultLinked, VerdictOnce, Linked
  <2>2. SessionsKnow'
    BY <1>6 DEF CreateOverride, locals, SessionsKnow, Known, Linked
  <2>3. QED
    BY <2>1, <2>2
<1>7. CASE \E e \in Experiments, r \in Runs : CreateReplication(s, e, r)
  <2>1. PICK e \in Experiments, r \in Runs : CreateReplication(s, e, r)
    BY <1>7
  <2>2. record[e] \in Record
    BY <2>1, PresentIsRecord DEF CreateReplication
  <2>3. Known("replication", e, record[e], r)
    BY <2>2 DEF Known, Auditing
  <2>4. QED
    BY <2>1, <2>2, <2>3, BeginKeeps DEF CreateReplication, Labels, Extras
<1>8. CASE \E e \in Experiments, r \in Runs : LinkRun(s, e, r)
  <2>1. PICK e \in Experiments, r \in Runs : LinkRun(s, e, r)
    BY <1>8
  <2>2. record[e] \in Record
    BY <2>1, PresentIsRecord DEF LinkRun
  <2>3. Known("link", e, record[e], r)
    BY <2>2 DEF Known, Auditing
  <2>4. QED
    BY <2>1, <2>2, <2>3, BeginKeeps DEF LinkRun, Labels, Extras
<1>9. CASE \E e \in Experiments, r \in Runs, v \in Values : RecordVerdict(s, e, r, v)
  <2>1. PICK e \in Experiments, r \in Runs, v \in Values : RecordVerdict(s, e, r, v)
    BY <1>9
  <2>2. Known("verdict", e, record[e], <<r, v>>)
    BY DEF Known, Holding, Auditing, Linking
  <2>3. QED
    BY <2>1, <2>2, BeginKeeps DEF RecordVerdict, Labels, Extras
<1>10. QED
  BY <1>1, <1>2, <1>3, <1>4, <1>5, <1>6, <1>7, <1>8, <1>9 DEF Call

\* The transactions that end or continue a call keep the invariant.
LEMMA ContinueKeeps ==
  ASSUME RegistryInv, NEW s \in Sessions, Continue(s)
  PROVE  RegistryInv'
<1> USE DEF RegistryInv, TablesTyped
<1>k. Known(at[s], exp[s], snap[s], extra[s])
  BY DEF SessionsKnow
<1>1. CASE InsertExperiment(s)
  <2>1. exp[s] \in Experiments /\ snap[s] \in Record
    BY <1>1, <1>k DEF InsertExperiment, Known, Holding
  <2>2. snap[s] # Absent /\ snap[s].spec \in Specs /\ snap[s].status \in Statuses
    BY <2>1, PresentIsRecord
  <2>3. TablesTyped' /\ RowsStay
    BY <1>1, <2>1, <2>2 DEF InsertExperiment, RowsStay
  <2>4. ResultLinked' /\ VerdictOnce'
    BY <1>1 DEF InsertExperiment, ResultLinked, VerdictOnce, Linked
  <2>5. QED
    BY <1>1, <2>3, <2>4, ReturnKeeps DEF InsertExperiment
<1>2. CASE UpdateEdit(s)
  <2>1. exp[s] \in Experiments /\ snap[s] \in Record
    BY <1>2, <1>k DEF UpdateEdit, Known, Holding
  <2>2. snap[s] # Absent /\ snap[s].spec \in Specs
    BY <2>1, PresentIsRecord
  <2>3. TablesTyped' /\ RowsStay
    BY <1>2, <2>1, <2>2 DEF UpdateEdit, RowsStay
  <2>4. ResultLinked' /\ VerdictOnce'
    BY <1>2 DEF UpdateEdit, ResultLinked, VerdictOnce, Linked
  <2>5. QED
    BY <1>2, <2>3, <2>4, ReturnKeeps DEF UpdateEdit
<1>3. CASE CheckDuplicates(s)
  <2>1. exp[s] \in Experiments /\ snap[s] \in Record
    BY <1>3, <1>k DEF CheckDuplicates, Known, Holding
  <2>2. TablesTyped' /\ RowsStay /\ ResultLinked' /\ VerdictOnce'
    BY <1>3 DEF CheckDuplicates, tables, RowsStay, ResultLinked, VerdictOnce, Linked
  <2>3. CASE Return(s)
    BY <2>2, <2>3, ReturnKeeps
  <2>4. CASE /\ at' = [at EXCEPT ![s] = "update"]
             /\ snap' = [snap EXCEPT ![s].status = "APPROVED"]
             /\ UNCHANGED <<exp, extra>>
    <3>1. PICK e \in Experiments, r \in Record, x \in Extras :
            e = exp[s] /\ r = [snap[s] EXCEPT !.status = "APPROVED"] /\ x = extra[s]
      <4>1. [snap[s] EXCEPT !.status = "APPROVED"] \in Record
        BY <2>1, StatusNames DEF Record
      <4>2. QED
        BY <2>1, <4>1 DEF LocalsTyped
    <3>2. /\ exp' = [exp EXCEPT ![s] = e] /\ snap' = [snap EXCEPT ![s] = r]
          /\ extra' = [extra EXCEPT ![s] = x]
      BY <2>4, <3>1 DEF LocalsTyped
    <3>3. Known("update", e, r, x)'
      BY DEF Known, Auditing, Linking
    <3>4. "update" \in Labels
      BY DEF Labels
    <3>5. LocalsTyped' /\ SessionsKnow'
      BY <2>2, <2>4, <3>2, <3>3, <3>4, SessionMoves
    <3>6. QED
      BY <2>2, <3>5
  <2>5. QED
    BY <1>3, <2>3, <2>4 DEF CheckDuplicates
<1>4. CASE UpdateStatus(s)
  <2>1. exp[s] \in Experiments /\ snap[s] \in Record
    BY <1>4, <1>k DEF UpdateStatus, Known, Holding
  <2>2. snap[s] # Absent /\ snap[s].status \in Statuses
    BY <2>1, PresentIsRecord DEF Record
  <2>3. TablesTyped' /\ RowsStay
    BY <1>4, <2>1, <2>2 DEF UpdateStatus, RowsStay
  <2>4. ResultLinked' /\ VerdictOnce'
    BY <1>4 DEF UpdateStatus, ResultLinked, VerdictOnce, Linked
  <2>5. QED
    BY <1>4, <2>3, <2>4, ReturnKeeps DEF UpdateStatus
<1>5. CASE \E f \in Findings : FindAudit(s, f)
  <2>1. PICK f \in Findings : FindAudit(s, f)
    BY <1>5
  <2>2. exp[s] \in Experiments /\ snap[s] \in Record /\ record[exp[s]] # Absent
    BY <2>1, <1>k DEF FindAudit, Known, Holding, Auditing
  <2>3. TablesTyped' /\ RowsStay /\ ResultLinked' /\ VerdictOnce'
    BY <2>1 DEF FindAudit, tables, RowsStay, ResultLinked, VerdictOnce, Linked
  <2>4. PICK e \in Experiments, r \in Record, x \in Audit, l \in {"gate", "insertAudit"} :
          /\ e = exp[s] /\ r = snap[s] /\ x = <<record[exp[s]].spec, f>>
          /\ l = IF x \in audits THEN "gate" ELSE "insertAudit"
    BY <2>2, PresentIsRecord DEF Audit
  <2>5. /\ at' = [at EXCEPT ![s] = l] /\ exp' = [exp EXCEPT ![s] = e]
        /\ snap' = [snap EXCEPT ![s] = r] /\ extra' = [extra EXCEPT ![s] = x]
    BY <2>1, <2>4 DEF FindAudit, LocalsTyped
  <2>6. Known(l, e, r, x)'
    BY <2>1, <2>2, <2>4 DEF FindAudit, tables, Known, Linking
  <2>7. l \in Labels /\ x \in Extras
    BY <2>4 DEF Labels, Extras
  <2>8. LocalsTyped' /\ SessionsKnow'
    BY <2>3, <2>5, <2>6, <2>7, SessionMoves
  <2>9. QED
    BY <2>3, <2>8
<1>6. CASE InsertAudit(s)
  <2>1. /\ exp[s] \in Experiments /\ snap[s] \in Record /\ record[exp[s]] # Absent
        /\ extra[s] \in Audit
    BY <1>6, <1>k DEF InsertAudit, Known, Holding, Auditing
  <2>2. TablesTyped' /\ RowsStay /\ ResultLinked' /\ VerdictOnce'
    BY <1>6, <2>1 DEF InsertAudit, RowsStay, ResultLinked, VerdictOnce, Linked
  <2>3. CASE Return(s)
    BY <2>2, <2>3, ReturnKeeps
  <2>4. CASE Goto(s, "gate")
    <3>1. Known("gate", exp[s], snap[s], extra[s])'
      BY <1>6, <2>1, <2>4 DEF InsertAudit, Goto, Known, Linking
    <3>2. "gate" \in Labels
      BY DEF Labels
    <3>3. QED
      BY <2>2, <2>4, <3>1, <3>2, GotoKeeps
  <2>5. QED
    BY <1>6, <2>3, <2>4 DEF InsertAudit
<1>7. CASE CanExecute(s)
  <2>1. exp[s] \in Experiments /\ snap[s] \in Record
    BY <1>7, <1>k DEF CanExecute, Known, Holding
  <2>2. TablesTyped' /\ RowsStay /\ ResultLinked' /\ VerdictOnce'
    BY <1>7 DEF CanExecute, tables, RowsStay, ResultLinked, VerdictOnce, Linked
  <2>3. CASE Return(s)
    BY <2>2, <2>3, ReturnKeeps
  <2>4. CASE Goto(s, "update")
    <3>1. Known("update", exp[s], snap[s], extra[s])'
      BY <2>1, <2>4 DEF Goto, Known, Linking, Auditing
    <3>2. "update" \in Labels
      BY DEF Labels
    <3>3. QED
      BY <2>2, <2>4, <3>1, <3>2, GotoKeeps
  <2>5. QED
    BY <1>7, <2>3, <2>4 DEF CanExecute
<1>8. CASE InsertReplication(s)
  <2>1. exp[s] \in Experiments /\ snap[s] \in Record /\ extra[s] \in Runs
    BY <1>8, <1>k DEF InsertReplication, Known, Holding, Linking
  <2>2. LinkRow(s, "REPLICATION") \in Link
    BY <2>1, PresentIsRecord DEF LinkRow, Link
  <2>3. TablesTyped' /\ RowsStay /\ VerdictOnce'
    BY <1>8, <2>2 DEF InsertReplication, RowsStay, VerdictOnce
  <2>4. ResultLinked'
    BY <1>8, <2>3 DEF InsertReplication, RowsStay, ResultLinked, Linked
  <2>5. QED
    BY <1>8, <2>3, <2>4, ReturnKeeps DEF InsertReplication
<1>9. CASE InsertLink(s)
  <2>1. exp[s] \in Experiments /\ snap[s] \in Record /\ extra[s] \in Runs
    BY <1>9, <1>k DEF InsertLink, Known, Holding, Linking
  <2>2. LinkRow(s, "PRIMARY") \in Link
    BY <2>1, PresentIsRecord DEF LinkRow, Link
  <2>3. TablesTyped' /\ RowsStay /\ VerdictOnce'
    BY <1>9, <2>2 DEF InsertLink, RowsStay, VerdictOnce
  <2>4. ResultLinked'
    BY <1>9, <2>3 DEF InsertLink, RowsStay, ResultLinked, Linked
  <2>5. Linked(exp[s], extra[s])'
    <3>1. \E l \in links' : l.exp = exp[s] /\ l.run = extra[s]
      <4>1. CASE Linked(exp[s], extra[s])
        BY <1>9, <4>1 DEF InsertLink, Linked
      <4>2. CASE ~ Linked(exp[s], extra[s])
        <5>1. LinkRow(s, "PRIMARY") \in links'
          BY <1>9, <4>2 DEF InsertLink
        <5>2. LinkRow(s, "PRIMARY").exp = exp[s] /\ LinkRow(s, "PRIMARY").run = extra[s]
          BY DEF LinkRow
        <5>3. QED
          BY <5>1, <5>2
      <4>3. QED
        BY <4>1, <4>2
    <3>2. exp' = exp /\ extra' = extra
      BY <1>9 DEF InsertLink, Goto
    <3>3. QED
      BY <3>1, <3>2 DEF Linked
  <2>6. Known("result", exp[s], snap[s], extra[s])'
    BY <1>9, <2>1, <2>5 DEF InsertLink, Goto, Known, Holding, Auditing
  <2>7. "result" \in Labels
    BY DEF Labels
  <2>8. QED
    BY <1>9, <2>3, <2>4, <2>6, <2>7, GotoKeeps DEF InsertLink
<1>10. CASE InsertResult(s)
  <2>1. exp[s] \in Experiments /\ extra[s] \in Runs /\ Linked(exp[s], extra[s])
    BY <1>10, <1>k DEF InsertResult, Known, Linking
  <2>2. TablesTyped' /\ RowsStay /\ VerdictOnce'
    BY <1>10, <2>1 DEF InsertResult, RowsStay, VerdictOnce
  <2>3. ResultLinked'
    BY <1>10, <2>1 DEF InsertResult, ResultLinked, Linked
  <2>4. QED
    BY <1>10, <2>2, <2>3, ReturnKeeps DEF InsertResult
<1>11. CASE InsertVerdict(s)
  <2>1. PICK r \in Runs, v \in Values : extra[s] = <<r, v>>
    BY <1>11, <1>k DEF InsertVerdict, Known
  <2>2. verdicts' = IF verdicts[r] = <<>>
                    THEN [verdicts EXCEPT ![r] = Append(verdicts[r], v)] ELSE verdicts
    BY <1>11, <2>1 DEF InsertVerdict, Unjudged
  <2>3. Append(verdicts[r], v) \in Seq(Values)
    BY <2>1
  <2>4. verdicts[r] = <<>> => Len(Append(verdicts[r], v)) = 1
    BY <2>1
  <2>5. TablesTyped' /\ RowsStay /\ ResultLinked'
    BY <1>11, <2>2, <2>3 DEF InsertVerdict, RowsStay, ResultLinked, Linked
  <2>6. VerdictOnce'
    BY <2>2, <2>3, <2>4 DEF VerdictOnce
  <2>7. QED
    BY <1>11, <2>5, <2>6, ReturnKeeps DEF InsertVerdict
<1>12. QED
  BY <1>1, <1>2, <1>3, <1>4, <1>5, <1>6, <1>7, <1>8, <1>9, <1>10, <1>11 DEF Continue

\* A session that stops writes nothing.
LEMMA CrashKeeps ==
  ASSUME RegistryInv, NEW s \in Sessions, Crash(s)
  PROVE  RegistryInv'
<1>1. TablesTyped' /\ RowsStay /\ ResultLinked' /\ VerdictOnce'
  BY DEF RegistryInv, Crash, tables, TablesTyped, RowsStay, ResultLinked, VerdictOnce, Linked
<1>2. QED
  BY <1>1, ReturnKeeps DEF RegistryInv, Crash

-----------------------------------------------------------------------------
(* The theorems. *)

\* The invariant holds of the empty catalog.
LEMMA RegistryInit == Init => RegistryInv
<1> SUFFICES ASSUME Init PROVE RegistryInv
  OBVIOUS
<1>1. TablesTyped
  BY DEF Init, TablesTyped
<1>2. LocalsTyped
  BY DEF Init, LocalsTyped, Labels, Extras
<1>3. SessionsKnow
  BY DEF Init, SessionsKnow, Known, Holding, Auditing, Linking
<1>4. ResultLinked /\ VerdictOnce
  BY DEF Init, ResultLinked, VerdictOnce
<1>5. QED
  BY <1>1, <1>2, <1>3, <1>4 DEF RegistryInv

\* Every step, and every stutter, keeps the invariant.
LEMMA RegistryStep == RegistryInv /\ [Next]_vars => RegistryInv'
<1> SUFFICES ASSUME RegistryInv, [Next]_vars PROVE RegistryInv'
  OBVIOUS
<1>1. CASE Next
  BY <1>1, CallKeeps, ContinueKeeps, CrashKeeps DEF Next
<1>2. CASE UNCHANGED vars
  BY <1>2 DEF vars, RegistryInv, TablesTyped, LocalsTyped, SessionsKnow, Known,
              ResultLinked, VerdictOnce, Linked
<1>3. QED
  BY <1>1, <1>2

\* The inductive invariant.
THEOREM RegistryInvariant == Spec => []RegistryInv
BY RegistryInit, RegistryStep, PTL DEF Spec

\* Every table and every local of a session keeps its type.
THEOREM RegistryTypeCorrect == Spec => []TypeOK
<1>1. RegistryInv => TypeOK
  BY DEF RegistryInv, TablesTyped, LocalsTyped, TypeOK, Extras
<1>2. QED
  BY <1>1, RegistryInvariant, PTL

\* record_verdict leaves at most one verdict per result, for any sessions
\* that race and wherever they stop.
THEOREM VerdictOnceHolds == Spec => []VerdictOnce
<1>1. RegistryInv => VerdictOnce
  BY DEF RegistryInv
<1>2. QED
  BY <1>1, RegistryInvariant, PTL

\* link_stage2_run never leaves a result without its link, though the two
\* rows are inserted by two transactions.
THEOREM ResultLinkedHolds == Spec => []ResultLinked
<1>1. RegistryInv => ResultLinked
  BY DEF RegistryInv
<1>2. QED
  BY <1>1, RegistryInvariant, PTL

-----------------------------------------------------------------------------
(* One author.  The specification invariants hold while one session drafts,  *)
(* edits, approves and cancels, whatever any number of others start,         *)
(* complete, review, link and judge; with two authors they fail.  No caller  *)
(* takes an experiment to APPROVED by transition_experiment.                 *)

AuthorCalls == {"create", "edit", "approve", "CANCELLED"}
IsAuthor(s) == Calls[s] \cap AuthorCalls # {}

OneAuthor ==
  /\ \A s, t \in Sessions : IsAuthor(s) /\ IsAuthor(t) => s = t
  /\ \A s \in Sessions : "APPROVED" \notin Calls[s]

\* No longer a draft: from now on its specification is not written.
Frozen(e) == record[e].status \notin {"DRAFT", "ABSENT"}

CopiesAgree ==
  \A e \in Experiments : column[e] = record[e].status /\ fingerprint[e] = record[e].spec

ClearedSpec(spec) == \E f \in Findings : <<spec, f>> \in audits /\ Cleared(<<spec, f>>)

\* Transactions of the author's calls.
Authoring(s) ==
  \/ at[s] \in {"insert", "updateEdit", "duplicates"}
  \/ at[s] = "update" /\ snap[s].status \in {"APPROVED", "CANCELLED"}

\* Transactions that lead to an experiment that runs, or ran.
Running(s) ==
  at[s] \in {"audit", "insertAudit", "gate"} \/ (at[s] = "update" /\ snap[s].status \in Started)

\* What the author knows of the draft at hand.
AuthorKnows(s) ==
  /\ IsAuthor(s)
  /\ at[s] = "insert" => snap[s].status = "DRAFT"
  /\ at[s] = "updateEdit" => snap[s].status = "DRAFT" /\ record[exp[s]].status = "DRAFT"
  /\ at[s] = "duplicates" => snap[s] = record[exp[s]] /\ snap[s].status = "DRAFT"
  /\ at[s] = "update" => record[exp[s]] # Absent /\ snap[s].spec = record[exp[s]].spec
  /\ at[s] = "update" /\ snap[s].status = "APPROVED" =>
       record[exp[s]].status = "DRAFT" /\ Duplicates(exp[s], snap[s].spec) = {}

\* What whoever executes knows: it reads what will not change.
RunnerKnows(s) ==
  /\ at[s] \in {"audit", "insertAudit", "gate", "replication", "link"} \/ Running(s) =>
       Frozen(exp[s]) /\ snap[s].spec = record[exp[s]].spec
  /\ at[s] \in {"audit", "insertAudit", "gate"} => snap[s].status = "RUNNING"
  /\ at[s] \in {"insertAudit", "gate"} => extra[s][1] = snap[s].spec
  /\ at[s] = "update" /\ snap[s].status \in Started => ClearedSpec(snap[s].spec)
  /\ at[s] \in {"link", "result", "verdict"} => Frozen(exp[s])
  /\ at[s] = "verdict" =>
       /\ results[extra[s][1]] = exp[s]
       /\ extra[s][2] = "PASS" => <<extra[s][1], record[exp[s]].spec>> \in Meets

CallerKnows(s) ==
  /\ Authoring(s) => AuthorKnows(s)
  /\ RunnerKnows(s)
  /\ at[s] = "update" => snap[s].status \in {"APPROVED", "CANCELLED"} \cup Started

CallersKnow == \A s \in Sessions : CallerKnows(s)

\* An experiment that is approved, or is about to be again.
Live(e) ==
  \/ record[e].status \in Started \cup {"APPROVED"}
  \/ \E s \in Sessions : Running(s) /\ exp[s] = e

LiveUnique == \A e, f \in Experiments : Live(e) /\ Live(f) /\ record[e].spec = record[f].spec => e = f

LinksFrozen == \A l \in links : Frozen(l.exp) /\ l.spec = record[l.exp].spec

VerdictsMeet ==
  \A r \in Runs : (\E i \in DOMAIN verdicts[r] : verdicts[r][i] = "PASS") =>
    results[r] \in Experiments /\ <<r, record[results[r]].spec>> \in Meets

AuthorInv ==
  /\ RegistryInv /\ CopiesAgree /\ CallersKnow
  /\ RunningIsCleared /\ LiveUnique /\ LinksFrozen /\ VerdictsMeet

-----------------------------------------------------------------------------
(* What a step of one session leaves to the others. *)

FrozenStays == \A e \in Experiments : Frozen(e) => Frozen(e)' /\ record'[e].spec = record[e].spec

DraftsStay == \A e \in Experiments : ~Frozen(e) => record'[e] = record[e]

ClearanceStays == audits \subseteq audits' /\ overrides \subseteq overrides'

ResultsStay == \A r \in Runs : results[r] # NoExperiment => results'[r] = results[r]

OthersRest(s) ==
  \A t \in Sessions \ {s} : at'[t] = at[t] /\ exp'[t] = exp[t] /\ snap'[t] = snap[t] /\ extra'[t] = extra[t]

\* A specification that was cleared stays cleared.
LEMMA ClearedStays ==
  ASSUME ClearanceStays, NEW spec, ClearedSpec(spec)
  PROVE  ClearedSpec(spec)'
BY DEF ClearanceStays, ClearedSpec, Cleared

\* Who runs an experiment knows that it is frozen, and so is everything live.
LEMMA LiveIsFrozen ==
  ASSUME AuthorInv, NEW e \in Experiments, Live(e)
  PROVE  Frozen(e)
<1>1. CASE record[e].status \in Started \cup {"APPROVED"}
  BY <1>1 DEF Frozen, Started
<1>2. CASE \E s \in Sessions : Running(s) /\ exp[s] = e
  BY <1>2 DEF AuthorInv, CallersKnow, CallerKnows, RunnerKnows
<1>3. QED
  BY <1>1, <1>2 DEF Live

\* What a session that executes knows stays true.
LEMMA RunnerStays ==
  ASSUME AuthorInv, FrozenStays, ClearanceStays, ResultsStay, NEW t \in Sessions,
         at'[t] = at[t], exp'[t] = exp[t], snap'[t] = snap[t], extra'[t] = extra[t]
  PROVE  RunnerKnows(t)'
<1>1. RunnerKnows(t)
  BY DEF AuthorInv, CallersKnow, CallerKnows
<1>2. at[t] # "idle" => exp[t] \in Experiments
  BY DEF AuthorInv, RegistryInv, SessionsKnow, Known
<1>3. Running(t)' <=> Running(t)
  BY DEF Running
<1>4. \/ at[t] \in {"audit", "insertAudit", "gate", "replication", "link", "result", "verdict"}
      \/ Running(t)
      => Frozen(exp[t]) /\ Frozen(exp[t])' /\ record'[exp'[t]].spec = record[exp[t]].spec
  BY <1>1, <1>2 DEF RunnerKnows, FrozenStays, Running, Frozen
<1>5. at[t] = "update" /\ snap[t].status \in Started => ClearedSpec(snap[t].spec)'
  BY <1>1, ClearedStays DEF RunnerKnows
<1>6. at[t] = "verdict" => results'[extra[t][1]] = exp[t]
  <2>1. SUFFICES ASSUME at[t] = "verdict" PROVE results'[extra[t][1]] = exp[t]
    OBVIOUS
  <2>2. extra[t] \in Runs \X Values /\ results[extra[t][1]] = exp[t] /\ exp[t] \in Experiments
    BY <1>1, <1>2, <2>1 DEF RunnerKnows, AuthorInv, RegistryInv, SessionsKnow, Known
  <2>3. QED
    BY <2>2, RegistryAssumption DEF ResultsStay
<1>7. /\ at'[t] \in {"audit", "insertAudit", "gate", "replication", "link"} \/ Running(t)' =>
           Frozen(exp[t])' /\ snap'[t].spec = record'[exp'[t]].spec
      /\ at'[t] \in {"link", "result", "verdict"} => Frozen(exp[t])'
  BY <1>1, <1>3, <1>4 DEF RunnerKnows
<1>8. at'[t] = "verdict" /\ extra'[t][2] = "PASS" => <<extra'[t][1], record'[exp'[t]].spec>> \in Meets
  BY <1>1, <1>4 DEF RunnerKnows
<1>9. /\ at'[t] \in {"audit", "insertAudit", "gate"} => snap'[t].status = "RUNNING"
      /\ at'[t] \in {"insertAudit", "gate"} => extra'[t][1] = snap'[t].spec
      /\ at'[t] = "update" /\ snap'[t].status \in Started => ClearedSpec(snap[t].spec)'
  BY <1>1, <1>5 DEF RunnerKnows, ClearedSpec, Cleared
<1>10. QED
  BY <1>6, <1>7, <1>8, <1>9 DEF RunnerKnows

\* What the author knows of the draft at hand stays true while others move.
LEMMA AuthorStays ==
  ASSUME AuthorInv, CopiesAgree', FrozenStays, DraftsStay, NEW t \in Sessions, Authoring(t),
         at'[t] = at[t], exp'[t] = exp[t], snap'[t] = snap[t], extra'[t] = extra[t]
  PROVE  AuthorKnows(t)'
<1>1. AuthorKnows(t)
  BY DEF AuthorInv, CallersKnow, CallerKnows
<1>2. exp[t] \in Experiments
  BY DEF AuthorInv, RegistryInv, SessionsKnow, Known, Authoring
<1>3. record[exp[t]].status = "DRAFT" => record'[exp[t]] = record[exp[t]]
  BY <1>2 DEF DraftsStay, Frozen
<1>4. record[exp[t]] # Absent => record'[exp[t]] # Absent /\ record'[exp[t]].spec = record[exp[t]].spec
  <2>1. CASE Frozen(exp[t])
    BY <1>2, <2>1 DEF FrozenStays, Frozen, Absent
  <2>2. CASE ~Frozen(exp[t])
    BY <1>2, <2>2 DEF DraftsStay
  <2>3. QED
    BY <2>1, <2>2
<1>5. ASSUME at[t] = "update", snap[t].status = "APPROVED"
      PROVE  Duplicates(exp[t], snap[t].spec)' = {}
  <2>1. SUFFICES ASSUME NEW f \in Experiments \ {exp[t]}, fingerprint'[f] = snap[t].spec, column'[f] # "DRAFT"
                 PROVE  FALSE
    BY <1>5 DEF Duplicates
  <2>2. record'[f].spec = snap[t].spec /\ record'[f].status # "DRAFT"
    BY <2>1 DEF CopiesAgree
  <2>3. record[f].spec = snap[t].spec /\ record[f].status # "DRAFT"
    <3>1. CASE Frozen(f)
      BY <2>2, <3>1 DEF FrozenStays, Frozen
    <3>2. CASE ~Frozen(f)
      BY <2>2, <3>2 DEF DraftsStay
    <3>3. QED
      BY <3>1, <3>2
  <2>4. f \in Duplicates(exp[t], snap[t].spec)
    BY <2>3 DEF Duplicates, AuthorInv, CopiesAgree
  <2>5. QED
    BY <1>1, <1>5, <2>4 DEF AuthorKnows
<1>6. (at[t] = "update" /\ snap[t].status = "APPROVED" => Duplicates(exp[t], snap[t].spec) = {})'
  BY <1>5 DEF Duplicates
<1>7. QED
  BY <1>1, <1>3, <1>4, <1>6 DEF AuthorKnows

\* The others keep what they know: of two authors one would rest.
LEMMA CallersStay ==
  ASSUME OneAuthor, AuthorInv, CopiesAgree', NEW s \in Sessions, OthersRest(s),
         FrozenStays, ClearanceStays, ResultsStay, Authoring(s) \/ DraftsStay, CallerKnows(s)'
  PROVE  CallersKnow'
<1>1. ASSUME NEW t \in Sessions, t # s PROVE CallerKnows(t)'
  <2>1. at'[t] = at[t] /\ exp'[t] = exp[t] /\ snap'[t] = snap[t] /\ extra'[t] = extra[t]
    BY <1>1 DEF OthersRest
  <2>2. RunnerKnows(t)'
    BY <2>1, RunnerStays
  <2>3. Authoring(t)' => AuthorKnows(t)'
    <3>1. SUFFICES ASSUME Authoring(t) PROVE AuthorKnows(t)'
      BY <2>1 DEF Authoring
    <3>2. \A u \in Sessions : Authoring(u) => IsAuthor(u)
      BY DEF AuthorInv, CallersKnow, CallerKnows, AuthorKnows
    <3>3. DraftsStay
      BY <1>1, <3>1, <3>2 DEF OneAuthor
    <3>4. QED
      BY <2>1, <3>1, <3>3, AuthorStays
  <2>4. CallerKnows(t)
    BY DEF AuthorInv, CallersKnow
  <2>5. QED
    BY <2>1, <2>2, <2>3, <2>4 DEF CallerKnows
<1>2. QED
  BY <1>1 DEF CallersKnow

\* Where nothing comes to life, what is live stays unique.
LEMMA LiveStays ==
  ASSUME AuthorInv, FrozenStays, \A e \in Experiments : Live(e)' => Live(e)
  PROVE  LiveUnique'
<1>1. SUFFICES ASSUME NEW e \in Experiments, NEW f \in Experiments, Live(e)', Live(f)',
                      record'[e].spec = record'[f].spec
               PROVE  e = f
  BY DEF LiveUnique
<1>2. Live(e) /\ Live(f) /\ Frozen(e) /\ Frozen(f)
  BY <1>1, LiveIsFrozen
<1>3. record[e].spec = record[f].spec
  BY <1>1, <1>2 DEF FrozenStays
<1>4. QED
  BY <1>2, <1>3 DEF AuthorInv, LiveUnique

\* A step that writes no experiment, and brings none to life.
LEMMA RowsRest ==
  ASSUME OneAuthor, AuthorInv, RegistryInv', NEW s \in Sessions, OthersRest(s),
         UNCHANGED <<record, fingerprint, column>>, ClearanceStays, ResultsStay,
         LinksFrozen', VerdictsMeet', CallerKnows(s)', Running(s)' => Live(exp'[s])
  PROVE  AuthorInv'
<1>1. CopiesAgree' /\ FrozenStays /\ DraftsStay
  BY DEF AuthorInv, CopiesAgree, FrozenStays, Frozen, DraftsStay
<1>2. RunningIsCleared'
  BY DEF AuthorInv, RunningIsCleared, Cleared, ClearanceStays
<1>3. CallersKnow'
  BY <1>1, CallersStay
<1>4. ASSUME NEW e \in Experiments, Live(e)' PROVE Live(e)
  <2>1. CASE record'[e].status \in Started \cup {"APPROVED"}
    BY <2>1 DEF Live
  <2>2. CASE \E t \in Sessions : Running(t)' /\ exp'[t] = e
    <3>1. PICK t \in Sessions : Running(t)' /\ exp'[t] = e
      BY <2>2
    <3>2. CASE t = s
      BY <3>1, <3>2
    <3>3. CASE t # s
      BY <3>1, <3>3 DEF OthersRest, Running, Live
    <3>4. QED
      BY <3>2, <3>3
  <2>3. QED
    BY <1>4, <2>1, <2>2 DEF Live
<1>5. LiveUnique'
  BY <1>1, <1>4, LiveStays
<1>6. QED
  BY <1>1, <1>2, <1>3, <1>5 DEF AuthorInv

\* A step that writes no table.
LEMMA DecisionKeeps ==
  ASSUME OneAuthor, AuthorInv, RegistryInv', NEW s \in Sessions, OthersRest(s), UNCHANGED tables,
         CallerKnows(s)', Running(s)' => Live(exp'[s])
  PROVE  AuthorInv'
<1>1. LinksFrozen' /\ VerdictsMeet'
  BY DEF tables, AuthorInv, LinksFrozen, Frozen, VerdictsMeet
<1>2. ClearanceStays /\ ResultsStay
  BY DEF tables, ClearanceStays, ResultsStay
<1>3. QED
  BY <1>1, <1>2, RowsRest DEF tables

\* The locals of a session that begins a call.
LEMMA BeginSets ==
  ASSUME RegistryInv, NEW s \in Sessions, NEW call, NEW l, NEW e, NEW r, NEW x, Begin(s, call, l, e, r, x)
  PROVE  /\ call \in Calls[s] /\ OthersRest(s)
         /\ at'[s] = l /\ exp'[s] = e /\ snap'[s] = r /\ extra'[s] = x
BY DEF RegistryInv, LocalsTyped, Begin, OthersRest

\* Everybody is at rest but one, who returns.
LEMMA ReturnSets ==
  ASSUME RegistryInv, NEW s \in Sessions, Return(s)
  PROVE  OthersRest(s) /\ at'[s] = "idle" /\ CallerKnows(s)' /\ ~Running(s)'
<1>1. OthersRest(s) /\ at'[s] = "idle"
  BY DEF RegistryInv, LocalsTyped, Return, OthersRest
<1>2. QED
  BY <1>1 DEF CallerKnows, Authoring, RunnerKnows, Running

LEMMA CallKeepsAuthor ==
  ASSUME OneAuthor, AuthorInv, RegistryInv', NEW s \in Sessions, Call(s)
  PROVE  AuthorInv'
<1>0. RegistryInv
  BY DEF AuthorInv
<1>1. CASE \E e \in Experiments, spec \in Specs : CreateExperiment(s, e, spec)
  <2>1. PICK e \in Experiments, spec \in Specs : CreateExperiment(s, e, spec)
    BY <1>1
  <2>2. /\ "create" \in Calls[s] /\ OthersRest(s) /\ at'[s] = "insert"
        /\ snap'[s] = [status |-> "DRAFT", spec |-> spec]
    BY <1>0, <2>1, BeginSets DEF CreateExperiment
  <2>3. CallerKnows(s)' /\ ~Running(s)'
    BY <2>2 DEF CallerKnows, AuthorKnows, IsAuthor, AuthorCalls, RunnerKnows, Running
  <2>4. QED
    BY <2>1, <2>2, <2>3, DecisionKeeps DEF CreateExperiment
<1>2. CASE \E e \in Experiments, spec \in Specs : EditExperiment(s, e, spec)
  <2>1. PICK e \in Experiments, spec \in Specs : EditExperiment(s, e, spec)
    BY <1>2
  <2>2. /\ "edit" \in Calls[s] /\ OthersRest(s) /\ at'[s] = "updateEdit" /\ exp'[s] = e
        /\ snap'[s] = [record[e] EXCEPT !.spec = spec]
    BY <1>0, <2>1, BeginSets DEF EditExperiment
  <2>3. record[e] \in Record /\ record[e].status = "DRAFT"
    BY <1>0, <2>1, PresentIsRecord DEF EditExperiment, Editable, RegistryInv, TablesTyped
  <2>4. snap'[s].status = "DRAFT" /\ record'[e].status = "DRAFT"
    BY <2>1, <2>2, <2>3 DEF Record, EditExperiment, tables
  <2>5. CallerKnows(s)' /\ ~Running(s)'
    BY <2>2, <2>4 DEF CallerKnows, AuthorKnows, IsAuthor, AuthorCalls, RunnerKnows, Running
  <2>6. QED
    BY <2>1, <2>2, <2>5, DecisionKeeps DEF EditExperiment
<1>3. CASE \E e \in Experiments : ApproveExperiment(s, e)
  <2>1. PICK e \in Experiments : ApproveExperiment(s, e)
    BY <1>3
  <2>2. /\ "approve" \in Calls[s] /\ OthersRest(s) /\ at'[s] = "duplicates" /\ exp'[s] = e
        /\ snap'[s] = record[e] /\ record[e].status = "DRAFT" /\ record' = record
    BY <1>0, <2>1, BeginSets DEF ApproveExperiment, tables
  <2>3. CallerKnows(s)' /\ ~Running(s)'
    BY <2>2 DEF CallerKnows, AuthorKnows, IsAuthor, AuthorCalls, RunnerKnows, Running
  <2>4. QED
    BY <2>1, <2>2, <2>3, DecisionKeeps DEF ApproveExperiment
<1>4. CASE \E e \in Experiments : StartExperiment(s, e)
  <2>1. PICK e \in Experiments : StartExperiment(s, e)
    BY <1>4
  <2>2. /\ OthersRest(s) /\ at'[s] = "audit" /\ exp'[s] = e
        /\ snap'[s] = [record[e] EXCEPT !.status = "RUNNING"] /\ record' = record
    BY <1>0, <2>1, BeginSets DEF StartExperiment, tables
  <2>3. record[e].status = "APPROVED" /\ record[e] \in Record
    BY <1>0, <2>1, PresentIsRecord, TransitionSource DEF StartExperiment, RegistryInv, TablesTyped
  <2>4. snap'[s].status = "RUNNING" /\ snap'[s].spec = record[e].spec /\ Frozen(e)'
    BY <2>2, <2>3 DEF Record, Frozen
  <2>5. CallerKnows(s)'
    BY <2>2, <2>4 DEF CallerKnows, Authoring, RunnerKnows, Running, Frozen
  <2>6. Live(e)
    BY <2>3 DEF Live
  <2>7. QED
    BY <2>1, <2>2, <2>5, <2>6, DecisionKeeps DEF StartExperiment
<1>5. CASE \E e \in Experiments, target \in Statuses : TransitionExperiment(s, e, target)
  <2>1. PICK e \in Experiments, target \in Statuses : TransitionExperiment(s, e, target)
    BY <1>5
  <2>2. /\ target \in Calls[s] /\ OthersRest(s) /\ at'[s] = "update" /\ exp'[s] = e
        /\ snap'[s] = [record[e] EXCEPT !.status = target] /\ UNCHANGED tables
    BY <1>0, <2>1, BeginSets DEF TransitionExperiment
  <2>3. /\ target # "APPROVED" /\ target # "RUNNING" /\ target # "DRAFT"
        /\ record[e] \in Record /\ record[e] # Absent
        /\ target \in Started => record[e].status \in Started
    <3>1. record[e] \in Record \union {Absent} /\ target \in Transitions[record[e].status] \ {"RUNNING"}
      BY <1>0, <2>1 DEF TransitionExperiment, RegistryInv, TablesTyped
    <3>2. record[e].status # "ABSENT" /\ target # "DRAFT"
          /\ (target \in Started \ {"RUNNING"} => record[e].status \in Started)
      BY <3>1, PresentIsRecord, TransitionSource
    <3>3. QED
      BY <2>2, <3>1, <3>2, PresentIsRecord DEF OneAuthor
  <2>4. snap'[s].status = target /\ snap'[s].spec = record[e].spec
    BY <2>2, <2>3 DEF Record
  <2>5. target \in {"CANCELLED"} \cup Started
    BY <2>3, StatusNames DEF Started
  <2>6. CASE target = "CANCELLED"
    <3>1. CallerKnows(s)' /\ ~Running(s)'
      BY <2>2, <2>3, <2>4, <2>6
      DEF CallerKnows, AuthorKnows, IsAuthor, AuthorCalls, RunnerKnows, Running, Started, tables
    <3>2. QED
      BY <2>2, <3>1, DecisionKeeps
  <2>7. CASE target \in Started
    <3>1. Frozen(e) /\ Live(e) /\ ClearedSpec(record[e].spec)
      BY <2>3, <2>7 DEF Frozen, Live, Started, AuthorInv, RunningIsCleared, ClearedSpec
    <3>2. Frozen(e)' /\ record'[e] = record[e] /\ ClearedSpec(record[e].spec)'
      BY <2>2, <3>1 DEF Frozen, tables, ClearedSpec, Cleared
    <3>3. RunnerKnows(s)'
      BY <2>2, <2>4, <2>7, <3>2 DEF RunnerKnows, Running, Frozen, ClearedSpec, Cleared
    <3>4. CallerKnows(s)'
      BY <2>2, <2>4, <2>7, <3>3 DEF CallerKnows, Authoring, Started
    <3>5. QED
      BY <2>2, <3>1, <3>4, DecisionKeeps
  <2>8. QED
    BY <2>5, <2>6, <2>7
<1>6. CASE \E audit \in audits : CreateOverride(s, audit)
  <2>1. UNCHANGED <<record, fingerprint, column, audits, links, results, verdicts, locals>> /\ overrides \subseteq overrides'
    BY <1>6 DEF CreateOverride
  <2>2. FrozenStays /\ DraftsStay /\ ClearanceStays /\ ResultsStay /\ CopiesAgree'
    BY <2>1 DEF FrozenStays, Frozen, DraftsStay, ClearanceStays, ResultsStay, CopiesAgree, AuthorInv
  <2>3. OthersRest(s)
    BY <2>1 DEF locals, OthersRest
  <2>4. CallerKnows(s)'
    <3>1. CallerKnows(s) /\ RunnerKnows(s)'
      BY <2>1, <2>2, RunnerStays DEF AuthorInv, CallersKnow, locals
    <3>2. AuthorKnows(s) => AuthorKnows(s)'
      BY <2>1 DEF locals, AuthorKnows, Duplicates
    <3>3. QED
      BY <2>1, <3>1, <3>2 DEF CallerKnows, Authoring, locals
  <2>5. CallersKnow'
    BY <2>2, <2>3, <2>4, CallersStay
  <2>6. \A e \in Experiments : Live(e)' => Live(e)
    BY <2>1 DEF locals, Live, Running
  <2>7. LiveUnique'
    BY <2>2, <2>6, LiveStays
  <2>8. RunningIsCleared' /\ LinksFrozen' /\ VerdictsMeet'
    BY <2>1 DEF AuthorInv, RunningIsCleared, Cleared, LinksFrozen, Frozen, VerdictsMeet
  <2>9. QED
    BY <2>2, <2>5, <2>7, <2>8 DEF AuthorInv
<1>7. CASE \E e \in Experiments, r \in Runs : CreateReplication(s, e, r)
  <2>1. PICK e \in Experiments, r \in Runs : CreateReplication(s, e, r)
    BY <1>7
  <2>2. /\ OthersRest(s) /\ at'[s] = "replication" /\ exp'[s] = e /\ snap'[s] = record[e] /\ record' = record
        /\ Frozen(e)
    BY <1>0, <2>1, BeginSets DEF CreateReplication, tables, Frozen
  <2>3. CallerKnows(s)' /\ ~Running(s)'
    BY <2>2 DEF CallerKnows, Authoring, RunnerKnows, Running, Frozen
  <2>4. QED
    BY <2>1, <2>2, <2>3, DecisionKeeps DEF CreateReplication
<1>8. CASE \E e \in Experiments, r \in Runs : LinkRun(s, e, r)
  <2>1. PICK e \in Experiments, r \in Runs : LinkRun(s, e, r)
    BY <1>8
  <2>2. /\ OthersRest(s) /\ at'[s] = "link" /\ exp'[s] = e /\ snap'[s] = record[e] /\ record' = record
        /\ Frozen(e)
    BY <1>0, <2>1, BeginSets DEF LinkRun, tables, Frozen
  <2>3. CallerKnows(s)' /\ ~Running(s)'
    BY <2>2 DEF CallerKnows, Authoring, RunnerKnows, Running, Frozen
  <2>4. QED
    BY <2>1, <2>2, <2>3, DecisionKeeps DEF LinkRun
<1>9. CASE \E e \in Experiments, r \in Runs, v \in Values : RecordVerdict(s, e, r, v)
  <2>1. PICK e \in Experiments, r \in Runs, v \in Values : RecordVerdict(s, e, r, v)
    BY <1>9
  <2>2. /\ OthersRest(s) /\ at'[s] = "verdict" /\ exp'[s] = e /\ extra'[s] = <<r, v>> /\ UNCHANGED tables
        /\ results[r] = e /\ (v = "PASS" => <<r, record[e].spec>> \in Meets)
    BY <1>0, <2>1, BeginSets DEF RecordVerdict
  <2>3. Frozen(e)
    <3>1. Linked(e, r)
      BY <1>0, <2>2, RegistryAssumption DEF RegistryInv, ResultLinked
    <3>2. QED
      BY <3>1 DEF Linked, AuthorInv, LinksFrozen
  <2>4. CallerKnows(s)' /\ ~Running(s)'
    BY <2>2, <2>3 DEF CallerKnows, Authoring, RunnerKnows, Running, Frozen, tables
  <2>5. QED
    BY <2>2, <2>4, DecisionKeeps
<1>10. QED
  BY <1>1, <1>2, <1>3, <1>4, <1>5, <1>6, <1>7, <1>8, <1>9 DEF Call

\* The locals of a session that goes on with those it has.
LEMMA GotoSets ==
  ASSUME RegistryInv, NEW s \in Sessions, NEW l, Goto(s, l)
  PROVE  /\ OthersRest(s)
         /\ at'[s] = l /\ exp'[s] = exp[s] /\ snap'[s] = snap[s] /\ extra'[s] = extra[s]
BY DEF RegistryInv, LocalsTyped, Goto, OthersRest

\* The writes of the author: a new draft, an edited one.
LEMMA DraftKeeps ==
  ASSUME OneAuthor, AuthorInv, RegistryInv', NEW s \in Sessions, Return(s), Authoring(s),
         NEW e \in Experiments, NEW r \in Record, ~Frozen(e), r.status = "DRAFT",
         record' = [record EXCEPT ![e] = r], CopiesAgree',
         UNCHANGED <<audits, overrides, links, results, verdicts>>
  PROVE  AuthorInv'
<1>0. RegistryInv /\ record \in [Experiments -> Record \union {Absent}]
  BY DEF AuthorInv, RegistryInv, TablesTyped
<1>1. /\ record'[e] = r /\ ~Frozen(e)'
      /\ \A f \in Experiments : f # e => record'[f] = record[f]
  BY <1>0 DEF Frozen
<1>2. FrozenStays /\ ClearanceStays /\ ResultsStay
  BY <1>1 DEF FrozenStays, Frozen, ClearanceStays, ResultsStay
<1>3. OthersRest(s) /\ CallerKnows(s)' /\ ~Running(s)'
  BY <1>0, ReturnSets
<1>4. CallersKnow'
  BY <1>2, <1>3, CallersStay
<1>5. ASSUME NEW f \in Experiments, Live(f)' PROVE Live(f)
  <2>1. CASE record'[f].status \in Started \cup {"APPROVED"}
    <3>1. f # e
      BY <1>1, <2>1 DEF Started
    <3>2. QED
      BY <1>1, <2>1, <3>1 DEF Live
  <2>2. CASE \E t \in Sessions : Running(t)' /\ exp'[t] = f
    <3>1. PICK t \in Sessions : Running(t)' /\ exp'[t] = f
      BY <2>2
    <3>2. t # s
      BY <1>3, <3>1
    <3>3. QED
      BY <1>3, <3>1, <3>2 DEF OthersRest, Running, Live
  <2>3. QED
    BY <1>5, <2>1, <2>2 DEF Live
<1>6. LiveUnique'
  BY <1>2, <1>5, LiveStays
<1>7. RunningIsCleared'
  <2>1. ASSUME NEW f \in Experiments, record'[f].status \in Started PROVE ClearedSpec(record'[f].spec)
    <3>1. f # e
      BY <1>1, <2>1 DEF Started
    <3>2. QED
      BY <1>1, <2>1, <3>1 DEF AuthorInv, RunningIsCleared, ClearedSpec
  <2>2. QED
    BY <2>1 DEF RunningIsCleared, ClearedSpec, Cleared
<1>8. LinksFrozen'
  BY <1>0, <1>2 DEF AuthorInv, LinksFrozen, FrozenStays, RegistryInv, TablesTyped, Link
<1>9. VerdictsMeet'
  <2>1. ASSUME NEW q \in Runs, \E i \in DOMAIN verdicts[q] : verdicts[q][i] = "PASS"
        PROVE  results[q] \in Experiments /\ <<q, record'[results[q]].spec>> \in Meets
    <3>1. results[q] \in Experiments /\ <<q, record[results[q]].spec>> \in Meets
      BY <2>1 DEF AuthorInv, VerdictsMeet
    <3>2. Frozen(results[q])
      BY <1>0, <3>1, RegistryAssumption DEF RegistryInv, ResultLinked, Linked, AuthorInv, LinksFrozen
    <3>3. QED
      BY <1>2, <3>1, <3>2 DEF FrozenStays
  <2>2. QED
    BY <2>1 DEF VerdictsMeet
<1>10. QED
  BY <1>4, <1>6, <1>7, <1>8, <1>9 DEF AuthorInv

\* UPDATE experiments of a status, by the author or by who executes: the
\* specification it carries is the one in the row.
LEMMA StatusKeeps ==
  ASSUME OneAuthor, AuthorInv, RegistryInv', NEW s \in Sessions, UpdateStatus(s)
  PROVE  AuthorInv'
<1>0. RegistryInv /\ record \in [Experiments -> Record \union {Absent}]
      /\ column \in [Experiments -> Statuses \union {"ABSENT"}]
  BY DEF AuthorInv, RegistryInv, TablesTyped
<1>k. CallerKnows(s) /\ exp[s] \in Experiments /\ at[s] = "update"
  BY <1>0 DEF AuthorInv, CallersKnow, UpdateStatus, RegistryInv, SessionsKnow, Known
<1>e. PICK e \in Experiments : e = exp[s]
  BY <1>k
<1>1. snap[s].status \in {"APPROVED", "CANCELLED"} \cup Started /\ snap[s].spec = record[e].spec
  BY <1>e, <1>k DEF CallerKnows, Authoring, AuthorKnows, RunnerKnows, Running
<1>2. /\ record'[e] = snap[s] /\ Frozen(e)' /\ record'[e].spec = record[e].spec
      /\ \A f \in Experiments : f # e => record'[f] = record[f]
  BY <1>0, <1>e, <1>k, <1>1 DEF UpdateStatus, Frozen, Started
<1>3. FrozenStays /\ ClearanceStays /\ ResultsStay
  BY <1>2 DEF FrozenStays, Frozen, ClearanceStays, ResultsStay, UpdateStatus
<1>4. CopiesAgree'
  <2>1. ASSUME NEW f \in Experiments
        PROVE  column'[f] = record'[f].status /\ fingerprint'[f] = record'[f].spec
    <3>1. CASE f = e
      BY <1>0, <1>e, <1>2, <3>1 DEF UpdateStatus, AuthorInv, CopiesAgree
    <3>2. CASE f # e
      BY <1>0, <1>e, <1>2, <3>2 DEF UpdateStatus, AuthorInv, CopiesAgree
    <3>3. QED
      BY <3>1, <3>2
  <2>2. QED
    BY <2>1 DEF CopiesAgree
<1>5. OthersRest(s) /\ CallerKnows(s)' /\ ~Running(s)'
  BY <1>0, ReturnSets DEF UpdateStatus
<1>6. Authoring(s) \/ DraftsStay
  <2>1. CASE snap[s].status \in Started
    <3>1. Frozen(e)
      BY <1>e, <1>k, <2>1 DEF CallerKnows, RunnerKnows, Running
    <3>2. QED
      BY <1>2, <3>1 DEF DraftsStay
  <2>2. CASE snap[s].status \in {"APPROVED", "CANCELLED"}
    BY <1>e, <1>k, <2>2 DEF Authoring
  <2>3. QED
    BY <1>1, <2>1, <2>2
<1>7. CallersKnow'
  BY <1>3, <1>4, <1>5, <1>6, CallersStay
<1>8. ASSUME NEW f \in Experiments, f # e, Live(f)' PROVE Live(f)
  <2>1. CASE record'[f].status \in Started \cup {"APPROVED"}
    BY <1>2, <1>8, <2>1 DEF Live
  <2>2. CASE \E t \in Sessions : Running(t)' /\ exp'[t] = f
    <3>1. PICK t \in Sessions : Running(t)' /\ exp'[t] = f
      BY <2>2
    <3>2. t # s
      BY <1>5, <3>1
    <3>3. QED
      BY <1>5, <3>1, <3>2 DEF OthersRest, Running, Live
  <2>3. QED
    BY <1>8, <2>1, <2>2 DEF Live
<1>9. LiveUnique'
  <2>1. CASE snap[s].status \in Started
    <3>1. Live(e)
      BY <1>e, <1>k, <2>1 DEF Live, Running
    <3>2. \A f \in Experiments : Live(f)' => Live(f)
      BY <1>8, <3>1
    <3>3. QED
      BY <1>3, <3>2, LiveStays
  <2>2. CASE snap[s].status = "CANCELLED"
    <3>1. Live(e)' => Live(e)
      BY <1>2, <1>5, <2>2 DEF Live, Started, OthersRest, Running
    <3>2. \A f \in Experiments : Live(f)' => Live(f)
      BY <1>8, <3>1
    <3>3. QED
      BY <1>3, <3>2, LiveStays
  <2>3. CASE snap[s].status = "APPROVED"
    <3>1. Duplicates(e, snap[s].spec) = {}
      BY <1>e, <1>k, <2>3 DEF CallerKnows, Authoring, AuthorKnows
    <3>2. ASSUME NEW f \in Experiments, f # e, Live(f)' PROVE record'[f].spec # record'[e].spec
      <4>1. Live(f) /\ Frozen(f)
        BY <1>8, <3>2, LiveIsFrozen
      <4>2. column[f] # "DRAFT" /\ fingerprint[f] = record[f].spec
        BY <4>1 DEF Frozen, AuthorInv, CopiesAgree
      <4>3. fingerprint[f] # snap[s].spec
        BY <3>1, <3>2, <4>2 DEF Duplicates
      <4>4. QED
        BY <1>2, <3>2, <4>2, <4>3
    <3>3. SUFFICES ASSUME NEW f \in Experiments, NEW g \in Experiments, Live(f)', Live(g)',
                          record'[f].spec = record'[g].spec, f # g
                   PROVE  FALSE
      BY DEF LiveUnique
    <3>4. f # e /\ g # e
      BY <3>2, <3>3
    <3>5. Live(f) /\ Live(g) /\ record[f].spec = record[g].spec
      BY <1>2, <1>8, <3>3, <3>4
    <3>6. QED
      BY <3>3, <3>5 DEF AuthorInv, LiveUnique
  <2>4. QED
    BY <1>1, <2>1, <2>2, <2>3
<1>10. RunningIsCleared'
  <2>1. ASSUME NEW f \in Experiments, record'[f].status \in Started PROVE ClearedSpec(record'[f].spec)
    <3>1. CASE f = e
      BY <1>e, <1>k, <1>2, <2>1, <3>1 DEF CallerKnows, RunnerKnows
    <3>2. CASE f # e
      BY <1>2, <2>1, <3>2 DEF AuthorInv, RunningIsCleared, ClearedSpec
    <3>3. QED
      BY <3>1, <3>2
  <2>2. UNCHANGED <<audits, overrides>>
    BY DEF UpdateStatus
  <2>3. QED
    BY <2>1, <2>2 DEF RunningIsCleared, ClearedSpec, Cleared
<1>11. LinksFrozen'
  BY <1>0, <1>3 DEF UpdateStatus, AuthorInv, LinksFrozen, FrozenStays, RegistryInv, TablesTyped, Link
<1>12. VerdictsMeet'
  <2>1. ASSUME NEW q \in Runs, results[q] \in Experiments
        PROVE  record'[results[q]].spec = record[results[q]].spec
    BY <1>2, <2>1
  <2>2. UNCHANGED <<results, verdicts>>
    BY DEF UpdateStatus
  <2>3. QED
    BY <2>1, <2>2 DEF AuthorInv, VerdictsMeet
<1>13. QED
  BY <1>4, <1>7, <1>9, <1>10, <1>11, <1>12 DEF AuthorInv

\* The two transactions of the author that write a draft.
LEMMA AuthorWrites ==
  ASSUME OneAuthor, AuthorInv, RegistryInv', NEW s \in Sessions, InsertExperiment(s) \/ UpdateEdit(s)
  PROVE  AuthorInv'
<1>0. /\ RegistryInv /\ CopiesAgree /\ record \in [Experiments -> Record \union {Absent}]
      /\ column \in [Experiments -> Statuses \union {"ABSENT"}]
      /\ fingerprint \in [Experiments -> Specs \union {NoSpec}]
  BY DEF AuthorInv, RegistryInv, TablesTyped
<1>k. /\ at[s] \in {"insert", "updateEdit"} /\ Authoring(s) /\ AuthorKnows(s)
      /\ exp[s] \in Experiments /\ snap[s] \in Record
  BY <1>0 DEF AuthorInv, CallersKnow, CallerKnows, Authoring, InsertExperiment, UpdateEdit,
              RegistryInv, SessionsKnow, Known, Holding
<1>e. PICK e \in Experiments, r \in Record : e = exp[s] /\ r = snap[s]
  BY <1>k
<1>1. r.status = "DRAFT"
  BY <1>k, <1>e DEF AuthorKnows
<1>2. CASE InsertExperiment(s) /\ record[exp[s]] # Absent
  <2>1. UNCHANGED tables /\ Return(s)
    BY <1>2 DEF InsertExperiment, tables
  <2>2. QED
    BY <1>0, <2>1, ReturnSets, DecisionKeeps
<1>3. CASE InsertExperiment(s) /\ record[exp[s]] = Absent
  <2>1. /\ record' = [record EXCEPT ![e] = r] /\ fingerprint' = [fingerprint EXCEPT ![e] = r.spec]
        /\ column' = [column EXCEPT ![e] = r.status] /\ Return(s)
        /\ UNCHANGED <<audits, overrides, links, results, verdicts>>
    BY <1>3, <1>e DEF InsertExperiment
  <2>2. CopiesAgree'
    BY <1>0, <2>1 DEF CopiesAgree
  <2>3. ~Frozen(e)
    BY <1>3, <1>e DEF Frozen, Absent
  <2>4. QED
    BY <1>k, <1>1, <2>1, <2>2, <2>3, DraftKeeps
<1>4. CASE UpdateEdit(s)
  <2>1. /\ record' = [record EXCEPT ![e] = r] /\ fingerprint' = [fingerprint EXCEPT ![e] = r.spec]
        /\ column' = column /\ Return(s)
        /\ UNCHANGED <<audits, overrides, links, results, verdicts>>
    BY <1>4, <1>e DEF UpdateEdit
  <2>2. record[e].status = "DRAFT"
    BY <1>4, <1>k, <1>e DEF UpdateEdit, AuthorKnows
  <2>3. CopiesAgree'
    BY <1>0, <1>1, <2>1, <2>2 DEF CopiesAgree
  <2>4. ~Frozen(e)
    BY <2>2 DEF Frozen
  <2>5. QED
    BY <1>k, <1>1, <2>1, <2>3, <2>4, DraftKeeps
<1>5. QED
  BY <1>2, <1>3, <1>4

\* The decisions between the transactions of a call: the look for duplicates,
\* the look for an audit, the gate.
LEMMA DecisionsKeep ==
  ASSUME OneAuthor, AuthorInv, RegistryInv', NEW s \in Sessions,
         CheckDuplicates(s) \/ (\E f \in Findings : FindAudit(s, f)) \/ CanExecute(s)
  PROVE  AuthorInv'
<1>0. RegistryInv
  BY DEF AuthorInv
<1>k. CallerKnows(s) /\ Known(at[s], exp[s], snap[s], extra[s])
  BY DEF AuthorInv, CallersKnow, RegistryInv, SessionsKnow
<1>1. CASE Return(s) /\ UNCHANGED tables
  BY <1>0, <1>1, ReturnSets, DecisionKeeps
<1>2. CASE CheckDuplicates(s) /\ ~Return(s)
  <2>1. /\ at[s] = "duplicates" /\ AuthorKnows(s) /\ snap[s] \in Record /\ UNCHANGED tables
        /\ Duplicates(exp[s], snap[s].spec) = {}
    BY <1>2, <1>k DEF CheckDuplicates, CallerKnows, Authoring, Known, Holding
  <2>2. /\ OthersRest(s) /\ at'[s] = "update" /\ exp'[s] = exp[s] /\ extra'[s] = extra[s]
        /\ snap'[s] = [snap[s] EXCEPT !.status = "APPROVED"]
    BY <1>0, <1>2 DEF CheckDuplicates, RegistryInv, LocalsTyped, OthersRest
  <2>3. snap'[s].status = "APPROVED" /\ snap'[s].spec = snap[s].spec
    BY <2>1, <2>2 DEF Record
  <2>4. record'[exp'[s]] = snap[s] /\ snap[s].status = "DRAFT" /\ snap[s] # Absent
    BY <2>1, <2>2 DEF tables, AuthorKnows, Absent
  <2>5. (Duplicates(exp[s], snap[s].spec) = {})'
    BY <2>1, <2>2, <2>3 DEF Duplicates, tables
  <2>6. AuthorKnows(s)'
    BY <2>1, <2>2, <2>3, <2>4, <2>5 DEF AuthorKnows
  <2>7. CallerKnows(s)' /\ ~Running(s)'
    BY <2>2, <2>3, <2>6 DEF CallerKnows, RunnerKnows, Running, Started
  <2>8. QED
    BY <2>1, <2>2, <2>7, DecisionKeeps
<1>3. CASE \E f \in Findings : FindAudit(s, f)
  <2>1. PICK f \in Findings : FindAudit(s, f)
    BY <1>3
  <2>2. /\ OthersRest(s) /\ UNCHANGED tables /\ at'[s] \in {"gate", "insertAudit"}
        /\ exp'[s] = exp[s] /\ snap'[s] = snap[s] /\ extra'[s] = <<record[exp[s]].spec, f>>
    BY <1>0, <2>1 DEF FindAudit, RegistryInv, LocalsTyped, OthersRest
  <2>3. /\ at[s] = "audit" /\ Running(s) /\ Frozen(exp[s]) /\ snap[s].spec = record[exp[s]].spec
        /\ snap[s].status = "RUNNING" /\ exp[s] \in Experiments
    BY <1>k, <2>1 DEF FindAudit, CallerKnows, RunnerKnows, Running, Known
  <2>4. CallerKnows(s)'
    BY <2>2, <2>3 DEF CallerKnows, Authoring, RunnerKnows, Running, Frozen, tables
  <2>5. Live(exp'[s])
    BY <2>2, <2>3 DEF Live
  <2>6. QED
    BY <2>2, <2>4, <2>5, DecisionKeeps
<1>4. CASE CanExecute(s) /\ ~Return(s)
  <2>1. at[s] = "gate" /\ Cleared(extra[s]) /\ Goto(s, "update") /\ UNCHANGED tables
    BY <1>4 DEF CanExecute
  <2>2. /\ OthersRest(s) /\ at'[s] = "update"
        /\ exp'[s] = exp[s] /\ snap'[s] = snap[s]
    BY <1>0, <2>1, GotoSets
  <2>3. /\ Running(s) /\ Frozen(exp[s]) /\ snap[s].spec = record[exp[s]].spec /\ snap[s].status = "RUNNING"
        /\ extra[s][1] = snap[s].spec /\ extra[s] \in audits /\ extra[s] \in Audit /\ exp[s] \in Experiments
    BY <1>k, <2>1 DEF CallerKnows, RunnerKnows, Running, Known
  <2>4. ClearedSpec(snap[s].spec)
    <3>1. PICK f \in Findings : extra[s] = <<snap[s].spec, f>>
      BY <2>3 DEF Audit
    <3>2. QED
      BY <2>1, <2>3, <3>1 DEF ClearedSpec
  <2>5. ClearedSpec(snap[s].spec)'
    BY <2>1, <2>2, <2>4 DEF ClearedSpec, Cleared, tables
  <2>6. RunnerKnows(s)'
    BY <2>1, <2>2, <2>3, <2>5 DEF RunnerKnows, Running, Frozen, tables
  <2>7. CallerKnows(s)'
    BY <2>2, <2>3, <2>6 DEF CallerKnows, Authoring, Started
  <2>8. Live(exp'[s])
    BY <2>2, <2>3 DEF Live
  <2>9. QED
    BY <2>1, <2>2, <2>7, <2>8, DecisionKeeps
<1>5. QED
  BY <1>1, <1>2, <1>3, <1>4 DEF CheckDuplicates, CanExecute

\* The rows inserted on behalf of an experiment that is frozen: its audit, its
\* links, its results and their verdicts.
LEMMA InsertsKeep ==
  ASSUME OneAuthor, AuthorInv, RegistryInv', NEW s \in Sessions,
         InsertAudit(s) \/ InsertReplication(s) \/ InsertLink(s) \/ InsertResult(s) \/ InsertVerdict(s)
  PROVE  AuthorInv'
<1>0. RegistryInv /\ LinksFrozen /\ VerdictsMeet
  BY DEF AuthorInv
<1>k. CallerKnows(s) /\ Known(at[s], exp[s], snap[s], extra[s])
  BY DEF AuthorInv, CallersKnow, RegistryInv, SessionsKnow
<1>1. CASE InsertAudit(s)
  <2>1. /\ at[s] = "insertAudit" /\ (Return(s) \/ Goto(s, "gate")) /\ audits \subseteq audits'
        /\ UNCHANGED <<record, fingerprint, column, overrides, links, results, verdicts>>
    BY <1>1 DEF InsertAudit
  <2>2. LinksFrozen' /\ VerdictsMeet' /\ ClearanceStays /\ ResultsStay
    BY <1>0, <2>1 DEF LinksFrozen, Frozen, VerdictsMeet, ClearanceStays, ResultsStay
  <2>3. CASE Return(s)
    BY <1>0, <2>1, <2>2, <2>3, ReturnSets, RowsRest
  <2>4. CASE Goto(s, "gate")
    <3>1. /\ OthersRest(s) /\ at'[s] = "gate"
          /\ exp'[s] = exp[s] /\ snap'[s] = snap[s] /\ extra'[s] = extra[s]
      BY <1>0, <2>4, GotoSets
    <3>2. /\ Running(s) /\ Frozen(exp[s]) /\ snap[s].spec = record[exp[s]].spec
          /\ snap[s].status = "RUNNING" /\ extra[s][1] = snap[s].spec /\ exp[s] \in Experiments
      BY <1>k, <2>1 DEF CallerKnows, RunnerKnows, Running, Known
    <3>3. CallerKnows(s)'
      BY <2>1, <3>1, <3>2 DEF CallerKnows, Authoring, RunnerKnows, Running, Frozen
    <3>4. Live(exp'[s])
      BY <3>1, <3>2 DEF Live
    <3>5. QED
      BY <2>1, <2>2, <3>1, <3>3, <3>4, RowsRest
  <2>5. QED
    BY <2>1, <2>3, <2>4
<1>2. ASSUME NEW kind, at[s] \in {"replication", "link"},
             links' = IF Linked(exp[s], extra[s]) THEN links ELSE links \union {LinkRow(s, kind)},
             UNCHANGED <<record, fingerprint, column, audits, overrides, results, verdicts>>
      PROVE  LinksFrozen' /\ VerdictsMeet' /\ ClearanceStays /\ ResultsStay
  <2>1. Frozen(exp[s]) /\ snap[s].spec = record[exp[s]].spec
    BY <1>k, <1>2 DEF CallerKnows, RunnerKnows
  <2>2. ASSUME NEW l \in links' PROVE record'[l.exp].status \notin {"DRAFT", "ABSENT"} /\ l.spec = record'[l.exp].spec
    <3>1. CASE l \in links
      BY <1>0, <1>2, <3>1 DEF LinksFrozen, Frozen
    <3>2. CASE l = LinkRow(s, kind)
      BY <1>2, <2>1, <3>2 DEF LinkRow, Frozen
    <3>3. QED
      BY <1>2, <3>1, <3>2
  <2>3. QED
    BY <1>0, <1>2, <2>2 DEF LinksFrozen, Frozen, VerdictsMeet, ClearanceStays, ResultsStay
<1>3. CASE InsertReplication(s)
  <2>1. LinksFrozen' /\ VerdictsMeet' /\ ClearanceStays /\ ResultsStay
    BY <1>2, <1>3 DEF InsertReplication
  <2>2. QED
    BY <1>0, <1>3, <2>1, ReturnSets, RowsRest DEF InsertReplication
<1>4. CASE InsertLink(s)
  <2>1. LinksFrozen' /\ VerdictsMeet' /\ ClearanceStays /\ ResultsStay
    BY <1>2, <1>4 DEF InsertLink
  <2>2. OthersRest(s) /\ at'[s] = "result" /\ exp'[s] = exp[s]
    BY <1>0, <1>4, GotoSets DEF InsertLink
  <2>3. Frozen(exp[s])
    BY <1>k, <1>4 DEF InsertLink, CallerKnows, RunnerKnows
  <2>4. CallerKnows(s)' /\ ~Running(s)'
    BY <1>4, <2>2, <2>3 DEF InsertLink, CallerKnows, Authoring, RunnerKnows, Running, Frozen
  <2>5. QED
    BY <1>4, <2>1, <2>2, <2>4, RowsRest DEF InsertLink
<1>5. CASE InsertResult(s)
  <2>1. /\ at[s] = "result" /\ Return(s)
        /\ results' = IF results[extra[s]] = NoExperiment THEN [results EXCEPT ![extra[s]] = exp[s]] ELSE results
        /\ UNCHANGED <<record, fingerprint, column, audits, overrides, links, verdicts>>
    BY <1>5 DEF InsertResult
  <2>2. results \in [Runs -> Experiments \union {NoExperiment}]
    BY <1>0 DEF RegistryInv, TablesTyped
  <2>3. ResultsStay
    BY <2>1, <2>2 DEF ResultsStay
  <2>4. VerdictsMeet'
    <3>1. ASSUME NEW q \in Runs, \E i \in DOMAIN verdicts[q] : verdicts[q][i] = "PASS"
          PROVE  results'[q] = results[q] /\ results[q] \in Experiments /\ <<q, record[results[q]].spec>> \in Meets
      BY <1>0, <2>3, <3>1, RegistryAssumption DEF VerdictsMeet, ResultsStay
    <3>2. QED
      BY <2>1, <3>1 DEF VerdictsMeet
  <2>5. LinksFrozen' /\ ClearanceStays
    BY <1>0, <2>1 DEF LinksFrozen, Frozen, ClearanceStays
  <2>6. QED
    BY <1>0, <2>1, <2>3, <2>4, <2>5, ReturnSets, RowsRest
<1>6. CASE InsertVerdict(s)
  <2>1. PICK r \in Runs, v \in Values : extra[s] = <<r, v>>
    BY <1>6, <1>k DEF InsertVerdict, Known
  <2>2. /\ at[s] = "verdict" /\ Return(s)
        /\ verdicts' = IF verdicts[r] = <<>> THEN [verdicts EXCEPT ![r] = Append(verdicts[r], v)] ELSE verdicts
        /\ UNCHANGED <<record, fingerprint, column, audits, overrides, links, results>>
    BY <1>6, <2>1 DEF InsertVerdict, Unjudged
  <2>3. verdicts \in [Runs -> Seq(Values)] /\ exp[s] \in Experiments
    BY <1>0, <1>k, <2>2 DEF RegistryInv, TablesTyped, Known
  <2>4. results[r] = exp[s] /\ (v = "PASS" => <<r, record[exp[s]].spec>> \in Meets)
    BY <1>k, <2>1, <2>2 DEF CallerKnows, RunnerKnows
  <2>5. VerdictsMeet'
    <3>1. ASSUME NEW q \in Runs, \E i \in DOMAIN verdicts'[q] : verdicts'[q][i] = "PASS"
          PROVE  results[q] \in Experiments /\ <<q, record[results[q]].spec>> \in Meets
      <4>1. CASE verdicts'[q] = verdicts[q]
        BY <1>0, <3>1, <4>1 DEF VerdictsMeet
      <4>2. CASE verdicts'[q] # verdicts[q]
        <5>1. q = r /\ verdicts'[r] = Append(<<>>, v)
          BY <2>2, <2>3, <4>2
        <5>2. v = "PASS"
          BY <3>1, <5>1
        <5>3. QED
          BY <2>3, <2>4, <5>1, <5>2
      <4>3. QED
        BY <4>1, <4>2
    <3>2. QED
      BY <2>2, <3>1 DEF VerdictsMeet
  <2>6. LinksFrozen' /\ ClearanceStays /\ ResultsStay
    BY <1>0, <2>2 DEF LinksFrozen, Frozen, ClearanceStays, ResultsStay
  <2>7. QED
    BY <1>0, <2>2, <2>5, <2>6, ReturnSets, RowsRest
<1>7. QED
  BY <1>1, <1>3, <1>4, <1>5, <1>6

\* The empty catalog.
LEMMA AuthorInit == Init => AuthorInv
<1> SUFFICES ASSUME Init PROVE AuthorInv
  OBVIOUS
<1>1. RegistryInv
  BY RegistryInit
<1>2. CopiesAgree /\ LinksFrozen /\ RunningIsCleared /\ VerdictsMeet
  BY DEF Init, CopiesAgree, LinksFrozen, RunningIsCleared, Started, VerdictsMeet, Absent
<1>3. CallersKnow
  BY DEF Init, CallersKnow, CallerKnows, Authoring, RunnerKnows, Running
<1>4. LiveUnique
  BY DEF Init, LiveUnique, Live, Running, Started, Absent
<1>5. QED
  BY <1>1, <1>2, <1>3, <1>4 DEF AuthorInv

\* Every step, and every stutter, keeps what one author is enough for.
LEMMA AuthorStep == OneAuthor /\ AuthorInv /\ [Next]_vars => AuthorInv'
<1> SUFFICES ASSUME OneAuthor, AuthorInv, [Next]_vars PROVE AuthorInv'
  OBVIOUS
<1>1. RegistryInv'
  BY RegistryStep DEF AuthorInv
<1>2. ASSUME NEW s \in Sessions, Call(s) PROVE AuthorInv'
  BY <1>1, <1>2, CallKeepsAuthor
<1>3. ASSUME NEW s \in Sessions, Continue(s) PROVE AuthorInv'
  BY <1>1, <1>3, AuthorWrites, DecisionsKeep, StatusKeeps, InsertsKeep DEF Continue
<1>4. ASSUME NEW s \in Sessions, Crash(s) PROVE AuthorInv'
  BY <1>1, <1>4, ReturnSets, DecisionKeeps DEF Crash, AuthorInv
<1>5. CASE UNCHANGED vars
  <2>1. CopiesAgree' /\ RunningIsCleared' /\ LinksFrozen' /\ VerdictsMeet'
    BY <1>5 DEF vars, AuthorInv, CopiesAgree, RunningIsCleared, Cleared, LinksFrozen, Frozen, VerdictsMeet
  <2>2. CallersKnow'
    BY <1>5 DEF vars, AuthorInv, CallersKnow, CallerKnows, Authoring, AuthorKnows, Duplicates,
                RunnerKnows, Running, Frozen, ClearedSpec, Cleared
  <2>3. LiveUnique'
    BY <1>5 DEF vars, AuthorInv, LiveUnique, Live, Running
  <2>4. QED
    BY <1>1, <2>1, <2>2, <2>3 DEF AuthorInv
<1>6. QED
  BY <1>2, <1>3, <1>4, <1>5 DEF Next

\* The inductive invariant of a catalog with one author.
THEOREM AuthorInvariant == OneAuthor => (Spec => []AuthorInv)
<1> SUFFICES ASSUME OneAuthor PROVE Spec => []AuthorInv
  OBVIOUS
<1>1. AuthorInv /\ [Next]_vars => AuthorInv'
  BY AuthorStep
<1>2. QED
  BY <1>1, AuthorInit, PTL DEF Spec

\* transition_experiment: what runs was cleared by the pre-run audit of the
\* specification it has, wherever the start of it was interrupted.
THEOREM RunningIsClearedHolds == OneAuthor => (Spec => []RunningIsCleared)
<1>1. AuthorInv => RunningIsCleared
  BY DEF AuthorInv
<1>2. QED
  BY <1>1, AuthorInvariant, PTL

\* approve_experiment: no two approved experiments have one specification,
\* though the look for duplicates and the write are two transactions.
THEOREM ApprovedUniqueHolds == OneAuthor => (Spec => []ApprovedUnique)
<1>1. AuthorInv => ApprovedUnique
  BY DEF AuthorInv, LiveUnique, Live, ApprovedUnique
<1>2. QED
  BY <1>1, AuthorInvariant, PTL

\* record_verdict: a PASS meets the criteria of the specification under which
\* link_stage2_run linked the run.
THEOREM CriteriaFrozenHolds == OneAuthor => (Spec => []CriteriaFrozen)
<1>1. ASSUME AuthorInv PROVE CriteriaFrozen
  <2>1. SUFFICES ASSUME NEW r \in Runs, NEW e \in Experiments, results[r] = e,
                        \E i \in DOMAIN verdicts[r] : verdicts[r][i] = "PASS"
                 PROVE  \E l \in links : l.exp = e /\ l.run = r /\ <<r, l.spec>> \in Meets
    BY DEF CriteriaFrozen
  <2>2. <<r, record[e].spec>> \in Meets
    BY <1>1, <2>1 DEF AuthorInv, VerdictsMeet
  <2>3. PICK l \in links : l.exp = e /\ l.run = r
    BY <1>1, <2>1, RegistryAssumption DEF AuthorInv, RegistryInv, ResultLinked, Linked
  <2>4. l.spec = record[e].spec
    BY <1>1, <2>3 DEF AuthorInv, LinksFrozen
  <2>5. QED
    BY <2>2, <2>3, <2>4
<1>2. QED
  BY <1>1, AuthorInvariant, PTL

\* No step of any session writes another specification into an experiment that
\* is no longer a draft, or takes it back to one: an edit, or a transition
\* begun before, never overwrites what was approved.
SpecificationStays == [][FrozenStays]_vars

\* edit_experiment and transition_experiment write back the record they read
\* in an earlier transaction; with one author it is still the one in the row.
THEOREM SpecificationStaysHolds == OneAuthor => (Spec => SpecificationStays)
<1>1. ASSUME AuthorInv, [Next]_vars PROVE FrozenStays
  <2>0. CallersKnow /\ SessionsKnow /\ record \in [Experiments -> Record \union {Absent}]
    BY <1>1 DEF AuthorInv, RegistryInv, TablesTyped
  <2>1. CASE record' = record
    BY <2>1 DEF FrozenStays, Frozen
  <2>2. ASSUME NEW s \in Sessions, InsertExperiment(s) PROVE FrozenStays
    BY <2>0, <2>2 DEF InsertExperiment, FrozenStays, Frozen, Absent
  <2>3. ASSUME NEW s \in Sessions, UpdateEdit(s) PROVE FrozenStays
    BY <2>0, <2>3 DEF UpdateEdit, FrozenStays, Frozen, CallersKnow, CallerKnows, Authoring, AuthorKnows
  <2>4. ASSUME NEW s \in Sessions, UpdateStatus(s) PROVE FrozenStays
    <3>1. snap[s].status \in {"APPROVED", "CANCELLED"} \cup Started /\ snap[s].spec = record[exp[s]].spec
      BY <2>0, <2>4 DEF UpdateStatus, CallersKnow, CallerKnows, Authoring, AuthorKnows, RunnerKnows, Running
    <3>2. QED
      BY <2>0, <2>4, <3>1 DEF UpdateStatus, FrozenStays, Frozen, Started
  <2>5. \/ record' = record
        \/ \E s \in Sessions : InsertExperiment(s) \/ UpdateEdit(s) \/ UpdateStatus(s)
    <3>1. ASSUME NEW s \in Sessions, Call(s) PROVE record' = record
      BY <3>1 DEF Call, CreateExperiment, EditExperiment, ApproveExperiment, StartExperiment,
                  TransitionExperiment, CreateOverride, CreateReplication, LinkRun, RecordVerdict, tables
    <3>2. ASSUME NEW s \in Sessions, Continue(s)
          PROVE  record' = record \/ InsertExperiment(s) \/ UpdateEdit(s) \/ UpdateStatus(s)
      BY <3>2 DEF Continue, CheckDuplicates, FindAudit, InsertAudit, CanExecute, InsertReplication,
                  InsertLink, InsertResult, InsertVerdict, tables
    <3>3. ASSUME NEW s \in Sessions, Crash(s) PROVE record' = record
      BY <3>3 DEF Crash, tables
    <3>4. QED
      BY <1>1, <3>1, <3>2, <3>3 DEF Next, vars
  <2>6. QED
    BY <2>1, <2>2, <2>3, <2>4, <2>5
<1>2. AuthorInv /\ [Next]_vars => [FrozenStays]_vars
  BY <1>1
<1>3. QED
  BY <1>2, AuthorInvariant, PTL DEF Spec, SpecificationStays
=============================================================================
