------------------------ MODULE SealedPartitionsProofs ------------------------
(***************************************************************************)
(* Theorems about CandidateControl, whose labels are a parameter, and      *)
(* about SealedPartitions, which adds its own to them.  The invariants say *)
(* what each session knows between two transactions (LocalsKnown, Knows,   *)
(* SnapshotBacked, Logged) and, of each claim, which session holds it.     *)
(***************************************************************************)
EXTENDS SealedPartitions, TLAPS

-------------------------------------------------------------------------------
(* Candidates.  The set of labels is a parameter: the partitions add theirs. *)
\* Labels of the transactions that write the record a session carries.
Writers == {"insert", "update", "updateJson", "usage", "reject"}

\* Labels of the transactions of a call on a candidate that it found.
OnRow == {"request", "update", "updateJson", "usage", "reject"}

\* A row once inserted is never absent again, so what a session read of a
\* candidate stays of its type until the session uses it.
LocalsKnown ==
  \A s \in Sessions :
    /\ at[s] \in Writers => cand[s] \in Candidates /\ snap[s] \in Record
    /\ at[s] \in OnRow => cand[s] \in Candidates /\ record[cand[s]] \in Record

\* A session that inserts a version has seen all the versions before it.
InsertsNext ==
  \A s \in Sessions : at[s] = "insert" =>
    \A w \in 1..MaxVersion :
      w < Version(cand[s]) => Exists(<<Lineage(cand[s]), w>>)

\* A session that is to store a failure has marked the designated datasets.
RejectsMarked ==
  \A s \in Sessions : at[s] = "reject" =>
    snap[s].designated \X {"VALIDATION"} \subseteq usage

ControlInv(labels) ==
  /\ ControlTyped(labels)
  /\ LocalsKnown
  /\ InsertsNext
  /\ RejectsMarked
  /\ VersionsContiguous
  /\ FailureMarksDatasets

-----------------------------------------------------------------------------
(* Lemmas about the records. *)

LEMMA AbsentNotRecord == Absent \notin Record
BY ControlAssumption DEF Absent, Record

\* A row that is present is a record, and only an absent one is not.
LEMMA PresentIsRecord ==
  ASSUME NEW r \in Record \union {Absent}
  PROVE  /\ r.status # "ABSENT" => r \in Record
         /\ r # Absent => r \in Record
         /\ r \in Record => r # Absent
         /\ r.status \in Statuses \union {"ABSENT"}
BY AbsentNotRecord DEF Absent, Record

\* What the calls write is a record of the candidate table.
LEMMA WrittenRecords ==
  ASSUME NEW r \in Record, NEW spec \in Specs, NEW ds \in SUBSET Datasets
  PROVE  /\ NewRecord(spec) \in Record
         /\ [r EXCEPT !.status = "FROZEN", !.designated = ds] \in Record
         /\ [r EXCEPT !.spec = spec] \in Record
         /\ Requested(r) \in Record
         /\ [r EXCEPT !.status = "REJECTED", !.validation = "FAILED"] \in Record
BY DEF NewRecord, Requested, Record, Statuses, Verdicts

-----------------------------------------------------------------------------
(* Every step moves one session and changes the tables within their types. *)

\* A candidate row that exists keeps existing, as a record.
LEMMA RowsStay ==
  ASSUME record \in [Candidates -> Record \union {Absent}],
         NEW c \in Candidates, NEW r \in Record,
         record' = [record EXCEPT ![c] = r]
  PROVE  /\ record' \in [Candidates -> Record \union {Absent}]
         /\ \A d \in Candidates : Exists(d) => Exists(d)'
<1>1. r # Absent
  BY PresentIsRecord
<1>2. QED
  BY <1>1 DEF Exists

\* One session moves to label l with locals c and r; the tables keep their
\* types, their rows and the rows of usage.  What remains to be shown of a
\* step is then what it says of the session that moved.
LEMMA SessionMoves ==
  ASSUME NEW labels, ControlInv(labels),
         NEW s \in Sessions, NEW l \in labels,
         NEW c \in Candidates \union {NoCandidate}, NEW r \in Record \union {Absent},
         at' = [at EXCEPT ![s] = l],
         cand' = [cand EXCEPT ![s] = c],
         snap' = [snap EXCEPT ![s] = r],
         record' \in [Candidates -> Record \union {Absent}],
         column' \in [Candidates -> Statuses \union {"ABSENT"}],
         usage' \subseteq Datasets \X {"DISCOVERY", "VALIDATION"},
         failures' \subseteq Candidates \X SUBSET Datasets,
         usage \subseteq usage',
         \A d \in Candidates : Exists(d) => Exists(d)',
         l \in Writers => c \in Candidates /\ r \in Record,
         l \in OnRow => c \in Candidates /\ record'[c] \in Record,
         l = "insert" => \A w \in 1..MaxVersion :
                           w < Version(c) => Exists(<<Lineage(c), w>>)',
         l = "reject" => r.designated \X {"VALIDATION"} \subseteq usage'
  PROVE  /\ ControlTyped(labels)'
         /\ LocalsKnown'
         /\ InsertsNext'
         /\ RejectsMarked'
<1> USE DEF ControlInv
<1>1. ControlTyped(labels)'
  BY DEF ControlTyped
<1>2. \A t \in Sessions \ {s} :
        at'[t] = at[t] /\ cand'[t] = cand[t] /\ snap'[t] = snap[t]
  BY DEF ControlTyped
<1>3. at'[s] = l /\ cand'[s] = c /\ snap'[s] = r
  BY DEF ControlTyped
<1>4. \A d \in Candidates : record[d] \in Record => record'[d] \in Record
  BY PresentIsRecord DEF Exists, ControlTyped
<1>5. LocalsKnown'
  BY <1>2, <1>3, <1>4 DEF LocalsKnown
<1>6. InsertsNext'
  <2> SUFFICES ASSUME NEW t \in Sessions, at'[t] = "insert",
                      NEW w \in 1..MaxVersion, w < Version(cand'[t])
               PROVE  record'[<<Lineage(cand'[t]), w>>] # Absent
    BY DEF InsertsNext, Exists
  <2>1. CASE t = s
    BY <2>1, <1>3 DEF Exists
  <2>2. CASE t # s
    <3>1. cand[t] \in Candidates /\ Exists(<<Lineage(cand[t]), w>>)
      BY <2>2, <1>2 DEF LocalsKnown, Writers, InsertsNext
    <3>2. <<Lineage(cand[t]), w>> \in Candidates
      BY <3>1 DEF Candidates, Lineage
    <3>3. record'[<<Lineage(cand[t]), w>>] # Absent
      BY <3>1, <3>2 DEF Exists
    <3>4. QED
      BY <3>3, <2>2, <1>2
  <2>3. QED
    BY <2>1, <2>2
<1>7. RejectsMarked'
  BY <1>2, <1>3 DEF RejectsMarked
<1>8. QED
  BY <1>1, <1>5, <1>6, <1>7

\* The rows of a lineage stay contiguous when an existing row is rewritten.
LEMMA RewriteContiguous ==
  ASSUME record \in [Candidates -> Record \union {Absent}], VersionsContiguous,
         NEW c \in Candidates, record[c] \in Record, NEW r \in Record,
         record' = [record EXCEPT ![c] = r]
  PROVE  VersionsContiguous'
<1>1. \A d \in Candidates : (record'[d] # Absent) <=> (record[d] # Absent)
  BY PresentIsRecord
<1>2. \A b \in Lineages, v \in 1..MaxVersion : <<b, v>> \in Candidates
  BY DEF Candidates
<1>3. QED
  BY <1>1, <1>2 DEF VersionsContiguous, Exists

\* A session that starts a call on a row it found, or creates one.
LEMMA BeginInv ==
  ASSUME NEW labels, ControlLabels \subseteq labels, ControlInv(labels),
         NEW s \in Sessions, NEW call, NEW l \in ControlLabels \ {"reject"},
         NEW c \in Candidates, NEW r \in Record \union {Absent},
         Begin(s, call, l, c, r), UNCHANGED tables,
         l \in Writers => r \in Record,
         l \in OnRow => record[c] \in Record,
         l = "insert" => \A w \in 1..MaxVersion :
                           w < Version(c) => Exists(<<Lineage(c), w>>)
  PROVE  ControlInv(labels)'
<1>1. /\ ControlTyped(labels)'
      /\ LocalsKnown'
      /\ InsertsNext'
      /\ RejectsMarked'
  <2>1. \A d \in Candidates : Exists(d) => Exists(d)'
    BY DEF tables, Exists
  <2>2. l = "insert" => \A w \in 1..MaxVersion :
                          w < Version(c) => Exists(<<Lineage(c), w>>)'
    BY DEF tables, Exists
  <2>3. QED
    BY <2>1, <2>2, SessionMoves DEF Begin, tables, ControlInv, ControlTyped
<1>2. VersionsContiguous' /\ FailureMarksDatasets'
  BY DEF ControlInv, tables, VersionsContiguous, FailureMarksDatasets, Exists
<1>3. QED
  BY <1>1, <1>2 DEF ControlInv

\* A call returns, is refused or crashes: nothing else changes.
LEMMA ReturnInv ==
  ASSUME NEW labels, ControlLabels \subseteq labels, ControlInv(labels),
         NEW s \in Sessions, Return(s), UNCHANGED tables
  PROVE  ControlInv(labels)'
<1>1. /\ ControlTyped(labels)'
      /\ LocalsKnown'
      /\ InsertsNext'
      /\ RejectsMarked'
  <2>1. \A d \in Candidates : Exists(d) => Exists(d)'
    BY DEF tables, Exists
  <2>2. "idle" \in labels /\ "idle" \notin Writers \union OnRow
    BY DEF ControlLabels, Writers, OnRow
  <2>3. QED
    BY <2>1, <2>2, SessionMoves DEF Return, tables, ControlInv, ControlTyped
<1>2. VersionsContiguous' /\ FailureMarksDatasets'
  BY DEF ControlInv, tables, VersionsContiguous, FailureMarksDatasets, Exists
<1>3. QED
  BY <1>1, <1>2 DEF ControlInv

-----------------------------------------------------------------------------
(* One lemma per kind of transaction. *)

\* The calls start on a row that exists, or on the next version of a lineage.
LEMMA CallsInv ==
  ASSUME NEW labels, ControlLabels \subseteq labels, ControlInv(labels),
         NEW s \in Sessions,
         \/ \E b \in Lineages, spec \in Specs : CreateCandidate(s, b, spec)
         \/ \E c \in Candidates, spec \in Specs : NewCandidateVersion(s, c, spec)
         \/ \E c \in Candidates, ds \in SUBSET Datasets : FreezeCandidate(s, c, ds)
         \/ \E c \in Candidates, spec \in Specs : ModifyCandidate(s, c, spec)
         \/ \E c \in Candidates : RequestValidation(s, c)
         \/ \E c \in Candidates : ValidationFailed(s, c)
  PROVE  ControlInv(labels)'
<1>0. record \in [Candidates -> Record \union {Absent}]
  BY DEF ControlInv, ControlTyped
<1>1. ASSUME NEW b \in Lineages, NEW spec \in Specs, NEW v \in NextVersion(b),
             NEW call, UNCHANGED tables,
             Begin(s, call, "insert", <<b, v>>, NewRecord(spec))
      PROVE  ControlInv(labels)'
  <2>1. <<b, v>> \in Candidates
    BY <1>1 DEF NextVersion, Candidates
  <2>2. NewRecord(spec) \in Record
    BY DEF NewRecord, Record, Statuses, Verdicts
  <2>3. \A w \in 1..MaxVersion :
          w < Version(<<b, v>>) => Exists(<<Lineage(<<b, v>>), w>>)
    BY DEF NextVersion, Version, Lineage
  <2>4. "insert" \in ControlLabels \ {"reject"} /\ "insert" \notin OnRow
    BY DEF ControlLabels, OnRow
  <2>5. QED
    BY <1>1, <2>1, <2>2, <2>3, <2>4, BeginInv
<1>2. ASSUME NEW c \in Candidates, NEW l \in {"update", "updateJson", "request", "usage"},
             NEW r \in Record \union {Absent}, NEW call, UNCHANGED tables,
             Begin(s, call, l, c, r), record[c] \in Record,
             l \in Writers => r \in Record
      PROVE  ControlInv(labels)'
  <2>1. l \in ControlLabels \ {"reject"} /\ l # "insert"
    BY DEF ControlLabels
  <2>2. QED
    BY <1>2, <2>1, BeginInv
<1>3. ASSUME NEW b \in Lineages, NEW spec \in Specs, CreateCandidate(s, b, spec)
      PROVE  ControlInv(labels)'
  BY <1>1, <1>3 DEF CreateCandidate
<1>4. ASSUME NEW c \in Candidates, NEW spec \in Specs, NewCandidateVersion(s, c, spec)
      PROVE  ControlInv(labels)'
  <2>1. Lineage(c) \in Lineages
    BY DEF Candidates, Lineage
  <2>2. QED
    BY <1>1, <1>4, <2>1 DEF NewCandidateVersion
<1>5. ASSUME NEW c \in Candidates, NEW ds \in SUBSET Datasets, FreezeCandidate(s, c, ds)
      PROVE  ControlInv(labels)'
  <2>1. record[c] \in Record
    BY <1>0, <1>5, PresentIsRecord DEF FreezeCandidate, Modifiable
  <2>2. [record[c] EXCEPT !.status = "FROZEN", !.designated = ds] \in Record
    BY <2>1 DEF Record, Statuses
  <2>3. QED
    BY <1>2, <1>5, <2>1, <2>2 DEF FreezeCandidate
<1>6. ASSUME NEW c \in Candidates, NEW spec \in Specs, ModifyCandidate(s, c, spec)
      PROVE  ControlInv(labels)'
  <2>1. record[c] \in Record
    BY <1>0, <1>6, PresentIsRecord DEF ModifyCandidate, Modifiable
  <2>2. [record[c] EXCEPT !.spec = spec] \in Record
    BY <2>1 DEF Record
  <2>3. QED
    BY <1>2, <1>6, <2>1, <2>2 DEF ModifyCandidate
<1>7. ASSUME NEW c \in Candidates, RequestValidation(s, c)
      PROVE  ControlInv(labels)'
  <2>1. record[c] \in Record
    BY <1>0, <1>7, PresentIsRecord DEF RequestValidation, Eligible
  <2>2. "request" \notin Writers
    BY DEF Writers
  <2>3. QED
    BY <1>2, <1>7, <2>1, <2>2 DEF RequestValidation
<1>8. ASSUME NEW c \in Candidates, ValidationFailed(s, c)
      PROVE  ControlInv(labels)'
  <2>1. record[c] \in Record
    BY <1>0, <1>8, PresentIsRecord DEF ValidationFailed
  <2>2. [record[c] EXCEPT !.status = "REJECTED", !.validation = "FAILED"] \in Record
    BY <2>1 DEF Record, Statuses, Verdicts
  <2>3. QED
    BY <1>2, <1>8, <2>1, <2>2 DEF ValidationFailed
<1>9. QED
  BY <1>3, <1>4, <1>5, <1>6, <1>7, <1>8

\* A session writes the record it carries into a row that exists, or inserts
\* the next version of a lineage, and its call ends.
LEMMA WriteInv ==
  ASSUME NEW labels, ControlLabels \subseteq labels, ControlInv(labels),
         NEW s \in Sessions, Return(s), cand[s] \in Candidates, snap[s] \in Record,
         record' = [record EXCEPT ![cand[s]] = snap[s]],
         column' \in [Candidates -> Statuses \union {"ABSENT"}],
         usage' = usage,
         failures' \subseteq Candidates \X SUBSET Datasets,
         FailureMarksDatasets', VersionsContiguous'
  PROVE  ControlInv(labels)'
<1>1. record \in [Candidates -> Record \union {Absent}]
  BY DEF ControlInv, ControlTyped
<1>2. \A d \in Candidates : Exists(d) => Exists(d)'
  BY <1>1, RowsStay
<1>3. record' \in [Candidates -> Record \union {Absent}]
  BY <1>1, RowsStay
<1>4. "idle" \in labels /\ "idle" \notin Writers \union OnRow
  BY DEF ControlLabels, Writers, OnRow
<1>5. ControlTyped(labels)' /\ LocalsKnown' /\ InsertsNext' /\ RejectsMarked'
  BY <1>2, <1>3, <1>4, SessionMoves DEF Return, ControlInv, ControlTyped
<1>6. QED
  BY <1>5 DEF ControlInv

LEMMA InsertInv ==
  ASSUME NEW labels, ControlLabels \subseteq labels, ControlInv(labels),
         NEW s \in Sessions, InsertCandidate(s)
  PROVE  ControlInv(labels)'
<1>1. /\ record \in [Candidates -> Record \union {Absent}]
      /\ column \in [Candidates -> Statuses \union {"ABSENT"}]
  BY DEF ControlInv, ControlTyped
<1>2. cand[s] \in Candidates /\ snap[s] \in Record
  BY DEF ControlInv, LocalsKnown, InsertCandidate, Writers
<1>3. CASE Exists(cand[s])
  BY <1>3, ReturnInv DEF InsertCandidate, tables
<1>4. CASE ~ Exists(cand[s])
  <2>1. VersionsContiguous'
    <3> SUFFICES ASSUME NEW b \in Lineages, NEW v \in 1..MaxVersion,
                        NEW w \in 1..MaxVersion,
                        record'[<<b, v>>] # Absent, w < v
                 PROVE  record'[<<b, w>>] # Absent
      BY DEF VersionsContiguous, Exists
    <3>1. <<b, v>> \in Candidates /\ <<b, w>> \in Candidates
      BY DEF Candidates
    <3>2. record' = [record EXCEPT ![cand[s]] = snap[s]]
      BY <1>4 DEF InsertCandidate
    <3>3. Exists(<<b, w>>) => record'[<<b, w>>] # Absent
      BY <1>1, <1>2, <3>1, <3>2, PresentIsRecord DEF Exists
    <3>4. CASE cand[s] = <<b, v>>
      BY <3>3, <3>4 DEF ControlInv, InsertsNext, InsertCandidate, Version, Lineage
    <3>5. CASE cand[s] # <<b, v>>
      BY <1>1, <3>1, <3>2, <3>3, <3>5 DEF ControlInv, VersionsContiguous, Exists
    <3>6. QED
      BY <3>4, <3>5
  <2>2. FailureMarksDatasets' /\ failures' \subseteq Candidates \X SUBSET Datasets
    BY DEF InsertCandidate, ControlInv, ControlTyped, FailureMarksDatasets
  <2>3. column' \in [Candidates -> Statuses \union {"ABSENT"}]
    BY <1>1, <1>2, <1>4 DEF InsertCandidate, Record
  <2>4. QED
    BY <1>2, <1>4, <2>1, <2>2, <2>3, WriteInv DEF InsertCandidate
<1>5. QED
  BY <1>3, <1>4

LEMMA UpdateInv ==
  ASSUME NEW labels, ControlLabels \subseteq labels, ControlInv(labels),
         NEW s \in Sessions, UpdateCandidate(s) \/ UpdateCandidateJson(s)
  PROVE  ControlInv(labels)'
<1>1. /\ record \in [Candidates -> Record \union {Absent}]
      /\ column \in [Candidates -> Statuses \union {"ABSENT"}]
  BY DEF ControlInv, ControlTyped
<1>2. cand[s] \in Candidates /\ snap[s] \in Record /\ record[cand[s]] \in Record
  BY DEF ControlInv, LocalsKnown, UpdateCandidate, UpdateCandidateJson, Writers, OnRow
<1>3. record' = [record EXCEPT ![cand[s]] = snap[s]]
  BY DEF UpdateCandidate, UpdateCandidateJson
<1>4. VersionsContiguous'
  BY <1>1, <1>2, <1>3, RewriteContiguous DEF ControlInv
<1>5. FailureMarksDatasets' /\ failures' \subseteq Candidates \X SUBSET Datasets
  BY DEF UpdateCandidate, UpdateCandidateJson, ControlInv, ControlTyped,
         FailureMarksDatasets
<1>6. column' \in [Candidates -> Statuses \union {"ABSENT"}]
  BY <1>1, <1>2 DEF UpdateCandidate, UpdateCandidateJson, Record
<1>7. QED
  BY <1>2, <1>3, <1>4, <1>5, <1>6, WriteInv DEF UpdateCandidate, UpdateCandidateJson

LEMMA LoadInv ==
  ASSUME NEW labels, ControlLabels \subseteq labels, ControlInv(labels),
         NEW s \in Sessions, LoadRequested(s)
  PROVE  ControlInv(labels)'
<1>1. cand[s] \in Candidates /\ record[cand[s]] \in Record
  BY DEF ControlInv, LocalsKnown, LoadRequested, OnRow
<1>2. Requested(record[cand[s]]) \in Record
  BY <1>1 DEF Requested, Record, Statuses, Verdicts
<1>3. cand' = [cand EXCEPT ![s] = cand[s]]
  BY DEF LoadRequested, ControlInv, ControlTyped
<1>4. \A d \in Candidates : Exists(d) => Exists(d)'
  BY DEF LoadRequested, tables, Exists
<1>5. "update" \in labels
  BY DEF ControlLabels
<1>6. ControlTyped(labels)' /\ LocalsKnown' /\ InsertsNext' /\ RejectsMarked'
  <2>1. record'[cand[s]] \in Record
    BY <1>1 DEF LoadRequested, tables
  <2>2. /\ record' \in [Candidates -> Record \union {Absent}]
        /\ column' \in [Candidates -> Statuses \union {"ABSENT"}]
        /\ usage' \subseteq Datasets \X {"DISCOVERY", "VALIDATION"}
        /\ failures' \subseteq Candidates \X SUBSET Datasets
        /\ usage \subseteq usage'
    BY DEF LoadRequested, tables, ControlInv, ControlTyped
  <2>3. /\ at' = [at EXCEPT ![s] = "update"]
        /\ snap' = [snap EXCEPT ![s] = Requested(record[cand[s]])]
    BY DEF LoadRequested
  <2>4. QED
    BY <1>1, <1>2, <1>3, <1>4, <1>5, <2>1, <2>2, <2>3, SessionMoves
<1>7. VersionsContiguous' /\ FailureMarksDatasets'
  BY DEF LoadRequested, ControlInv, tables, VersionsContiguous, FailureMarksDatasets,
         Exists
<1>8. QED
  BY <1>6, <1>7 DEF ControlInv

LEMMA UsageInv ==
  ASSUME NEW labels, ControlLabels \subseteq labels, ControlInv(labels),
         NEW s \in Sessions, RecordFailureUsage(s)
  PROVE  ControlInv(labels)'
<1>1. /\ cand[s] \in Candidates /\ snap[s] \in Record
      /\ record[cand[s]] \in Record
  BY DEF ControlInv, LocalsKnown, RecordFailureUsage, Writers, OnRow
<1>2. snap[s].designated \subseteq Datasets
  BY <1>1 DEF Record
<1>3. UNCHANGED <<record, column, failures, cand, snap>>
  BY DEF RecordFailureUsage, Goto, locals
<1>4. /\ usage \subseteq usage'
      /\ usage' \subseteq Datasets \X {"DISCOVERY", "VALIDATION"}
  <2>1. usage \subseteq Datasets \X {"DISCOVERY", "VALIDATION"}
    BY DEF ControlInv, ControlTyped
  <2>2. CASE \E d \in snap[s].designated : usage' = usage \union {<<d, "VALIDATION">>}
    BY <1>2, <2>1, <2>2
  <2>3. CASE UNCHANGED usage
    BY <2>1, <2>3
  <2>4. QED
    BY <2>2, <2>3 DEF RecordFailureUsage
<1>5. PICK l \in {"usage", "reject"} :
        /\ at' = [at EXCEPT ![s] = l]
        /\ l = "reject" => snap[s].designated \X {"VALIDATION"} \subseteq usage'
  <2>1. CASE UNCHANGED locals
    <3>1. at' = [at EXCEPT ![s] = "usage"]
      BY <2>1 DEF RecordFailureUsage, locals, ControlInv, ControlTyped
    <3>2. QED
      BY <3>1
  <2>2. CASE /\ \A d \in snap[s].designated : <<d, "VALIDATION">> \in usage
             /\ UNCHANGED usage
             /\ Goto(s, "reject")
    BY <2>2 DEF Goto
  <2>3. QED
    BY <2>1, <2>2 DEF RecordFailureUsage
<1>6. l \in labels /\ l # "insert"
  BY DEF ControlLabels
<1>7. \A d \in Candidates : Exists(d) => Exists(d)'
  BY <1>3 DEF Exists
<1>8. /\ cand' = [cand EXCEPT ![s] = cand[s]]
      /\ snap' = [snap EXCEPT ![s] = snap[s]]
      /\ record' \in [Candidates -> Record \union {Absent}]
      /\ column' \in [Candidates -> Statuses \union {"ABSENT"}]
      /\ failures' \subseteq Candidates \X SUBSET Datasets
  BY <1>3 DEF ControlInv, ControlTyped
<1>9. ControlTyped(labels)' /\ LocalsKnown' /\ InsertsNext' /\ RejectsMarked'
  <2>1. record'[cand[s]] \in Record
    BY <1>1, <1>3
  <2>2. l \in labels
    BY <1>6
  <2>3. QED
    BY <1>1, <1>4, <1>5, <1>6, <1>7, <1>8, <2>1, <2>2, SessionMoves
<1>10. VersionsContiguous' /\ FailureMarksDatasets'
  BY <1>3, <1>4 DEF ControlInv, VersionsContiguous, FailureMarksDatasets, Exists
<1>11. QED
  BY <1>9, <1>10 DEF ControlInv

LEMMA RejectInv ==
  ASSUME NEW labels, ControlLabels \subseteq labels, ControlInv(labels),
         NEW s \in Sessions, RejectCandidate(s)
  PROVE  ControlInv(labels)'
<1>1. /\ record \in [Candidates -> Record \union {Absent}]
      /\ column \in [Candidates -> Statuses \union {"ABSENT"}]
      /\ failures \subseteq Candidates \X SUBSET Datasets
  BY DEF ControlInv, ControlTyped
<1>2. cand[s] \in Candidates /\ snap[s] \in Record /\ record[cand[s]] \in Record
  BY DEF ControlInv, LocalsKnown, RejectCandidate, Writers, OnRow
<1>3. VersionsContiguous'
  BY <1>1, <1>2, RewriteContiguous DEF ControlInv, RejectCandidate
<1>4. FailureMarksDatasets'
  <2>1. snap[s].designated \X {"VALIDATION"} \subseteq usage
    BY DEF RejectCandidate, ControlInv, RejectsMarked
  <2>2. \A f \in failures : f[2] \X {"VALIDATION"} \subseteq usage
    BY DEF ControlInv, FailureMarksDatasets
  <2>3. usage' = usage /\ failures' = failures \union {<<cand[s], snap[s].designated>>}
    BY DEF RejectCandidate
  <2>4. \A f \in failures' : f[2] \X {"VALIDATION"} \subseteq usage'
    <3> SUFFICES ASSUME NEW f \in failures'
                 PROVE  f[2] \X {"VALIDATION"} \subseteq usage
      BY <2>3
    <3>1. CASE f \in failures
      BY <3>1, <2>2
    <3>2. CASE f = <<cand[s], snap[s].designated>>
      <4>1. f[2] = snap[s].designated
        BY <3>2
      <4>2. QED
        BY <4>1, <2>1
    <3>3. QED
      BY <3>1, <3>2, <2>3
  <2>5. QED
    BY <2>4 DEF FailureMarksDatasets
<1>5. failures' \subseteq Candidates \X SUBSET Datasets
  BY <1>1, <1>2 DEF RejectCandidate, Record
<1>6. column' \in [Candidates -> Statuses \union {"ABSENT"}]
  BY <1>1, <1>2 DEF RejectCandidate, Record
<1>7. QED
  BY <1>2, <1>3, <1>4, <1>5, <1>6, WriteInv DEF RejectCandidate

LEMMA DiscoveryUsageInv ==
  ASSUME NEW labels, ControlInv(labels), NEW d \in Datasets, RecordDiscoveryUsage(d)
  PROVE  ControlInv(labels)'
<1>1. UNCHANGED <<record, column, failures, at, cand, snap>>
  BY DEF RecordDiscoveryUsage, locals
<1>2. /\ usage \subseteq usage'
      /\ usage' \subseteq Datasets \X {"DISCOVERY", "VALIDATION"}
  BY DEF RecordDiscoveryUsage, ControlInv, ControlTyped
<1>3. QED
  BY <1>1, <1>2 DEF ControlInv, ControlTyped, LocalsKnown, InsertsNext, RejectsMarked,
                    VersionsContiguous, FailureMarksDatasets, Exists

-----------------------------------------------------------------------------
(* The theorems. *)

LEMMA ControlInit ==
  ASSUME NEW labels, ControlLabels \subseteq labels, Init
  PROVE  ControlInv(labels)
<1>1. ControlTyped(labels)
  BY DEF Init, ControlTyped, ControlLabels
<1>2. LocalsKnown /\ InsertsNext /\ RejectsMarked
  BY DEF Init, LocalsKnown, InsertsNext, RejectsMarked, Writers, OnRow
<1>3. VersionsContiguous
  BY DEF Init, VersionsContiguous, Exists, Candidates
<1>4. FailureMarksDatasets
  BY DEF Init, FailureMarksDatasets
<1>5. QED
  BY <1>1, <1>2, <1>3, <1>4 DEF ControlInv

LEMMA ControlNextInv ==
  ASSUME NEW labels, ControlLabels \subseteq labels, ControlInv(labels), ControlNext
  PROVE  ControlInv(labels)'
<1>1. ASSUME NEW s \in Sessions, ControlStep(s)
      PROVE  ControlInv(labels)'
  BY <1>1, CallsInv, InsertInv, UpdateInv, LoadInv, UsageInv, RejectInv
     DEF ControlStep
<1>2. ASSUME NEW s \in Sessions, Crash(s)
      PROVE  ControlInv(labels)'
  BY <1>2, ReturnInv DEF Crash
<1>3. ASSUME NEW d \in Datasets, RecordDiscoveryUsage(d)
      PROVE  ControlInv(labels)'
  BY <1>3, DiscoveryUsageInv
<1>4. QED
  BY <1>1, <1>2, <1>3 DEF ControlNext

\* The invariant holds in every state that sessions making control calls reach.
THEOREM ControlInvariant == ControlSpec => []ControlInv(ControlLabels)
<1>1. Init => ControlInv(ControlLabels)
  BY ControlInit
<1>2. ControlInv(ControlLabels) /\ [ControlNext]_controlVars => ControlInv(ControlLabels)'
  <2> SUFFICES ASSUME ControlInv(ControlLabels), [ControlNext]_controlVars
               PROVE  ControlInv(ControlLabels)'
    OBVIOUS
  <2>1. CASE ControlNext
    BY <2>1, ControlNextInv
  <2>2. CASE UNCHANGED controlVars
    BY <2>2 DEF controlVars, ControlInv, ControlTyped, LocalsKnown, InsertsNext,
                RejectsMarked, VersionsContiguous, FailureMarksDatasets, Exists
  <2>3. QED
    BY <2>1, <2>2
<1>3. QED
  BY <1>1, <1>2, PTL DEF ControlSpec

\* Type correctness of the candidate tables and the sessions' locals.
THEOREM ControlTypeCorrect == ControlSpec => []ControlTypeOK
<1>1. ControlInv(ControlLabels) => ControlTypeOK
  BY DEF ControlInv, ControlTypeOK
<1>2. QED
  BY <1>1, ControlInvariant, PTL

\* The versions of a lineage are contiguous for any number of sessions that
\* compute max(version) + 1 concurrently (create_candidate).
THEOREM VersionsContiguousHolds == ControlSpec => []VersionsContiguous
<1>1. ControlInv(ControlLabels) => VersionsContiguous
  BY DEF ControlInv
<1>2. QED
  BY <1>1, ControlInvariant, PTL

\* A stored validation failure has marked its datasets (validation_failed),
\* for any number of datasets, sessions and crashes.
THEOREM FailureMarksDatasetsHolds == ControlSpec => []FailureMarksDatasets
<1>1. ControlInv(ControlLabels) => FailureMarksDatasets
  BY DEF ControlInv
<1>2. QED
  BY <1>1, ControlInvariant, PTL

-------------------------------------------------------------------------------
(* Partitions. *)

Labels == ControlLabels \union SealedLabels

\* Labels at which a session has checked that its candidate exists ...
OnCandidate == {"bindCheck", "bindInsert", "authCheck", "authInsert", "claim",
                "run", "commit", "ledger", "contaminate"}
\* ... at which it is inside a sealed execution or access() ...
Protected == {"preflight", "claim", "run", "commit", "ledger", "contaminate",
              "accessLedger", "accessContaminate", "denyLedger", "denyContaminate"}
\* ... and at which it holds a claim.
Holding == {"run", "commit"}

\* The locals of a session are what the transaction it runs next needs.
Knows(s) ==
  /\ at[s] \in SealedLabels => arg[s].part \in Partitions
  /\ at[s] \in Protected => arg[s].mode \in Contexts /\ arg[s].op \in Operations
  /\ at[s] \in {"authCheck", "authInsert"} => arg[s].via \in Partitions
  /\ at[s] \in OnCandidate => /\ cand[s] \in Candidates
                              /\ snap[s] \in Record
                              /\ record[cand[s]] \in Record
  /\ at[s] = "preflight" => /\ cand[s] \in Candidates
                            /\ snap[s] \in Record => record[cand[s]] \in Record
  /\ at[s] \in {"preflight", "claim", "run", "commit"} => arg[s].mode \in Kinds
  /\ /\ at[s] \in {"accessLedger", "accessContaminate"}
     /\ arg[s].mode = "VALIDATION" /\ arg[s].op = "EVALUATION"
     => cand[s] \in Candidates /\ record[cand[s]] \in Record

\* A record carried with status VALIDATED has its passed result, except the
\* verdict that CommitValidation is about to store together with its result.
Backed(c, spec) == \E v \in validated : v.cand = c /\ v.spec = spec /\ v.passed
SnapshotBacked(s) ==
  /\ snap[s].status = "VALIDATED" =>
       \/ Backed(cand[s], snap[s].spec)
       \/ at[s] = "commit" /\ arg[s].mode = "VALIDATION" /\ snap[s].validation = "PASSED"
  /\ at[s] \in {"claim", "run", "commit"} /\ arg[s].mode = "FINAL_TEST" =>
       snap[s].status = "VALIDATED"

\* A session that is to record a contamination has written its ledger row.
Logged(s) ==
  /\ at[s] = "denyContaminate" => LedgerRow(s, "DENIED") \in ledger
  /\ at[s] \in {"contaminate", "accessContaminate"} => LedgerRow(s, "ALLOWED") \in ledger

\* A claim has one holder, the data of a pair is read under its claim, and
\* results exist only for completed claims.
Claims ==
  /\ \A x \in Pairs : runs[x] <= 1 /\ (claim[x] = "NONE" => runs[x] = 0)
  /\ \A s \in Sessions : at[s] \in Holding =>
       claim[Here(s)] = "RUNNING" /\ runs[Here(s)] = (IF at[s] = "run" THEN 0 ELSE 1)
  /\ \A s, t \in Sessions :
       at[s] \in Holding /\ at[t] \in Holding /\ Here(s) = Here(t) => s = t
  /\ \A v \in validated \union tested : claim[<<v.cand, v.part>>] = "COMPLETED"

SealedInv ==
  /\ TypeOK
  /\ ControlInv(Labels)
  /\ \A s \in Sessions : Knows(s) /\ SnapshotBacked(s) /\ Logged(s)
  /\ Claims
  /\ ValidatedIsBacked
  /\ FinalTestOfValidatedSpec
  /\ ContaminationIsAudited
  /\ RevealedIsRecorded

-----------------------------------------------------------------------------
(* What a step leaves alone. *)

\* The sessions that do not move keep what they know, as rows are never
\* removed from the tables.
LEMMA OthersKeep ==
  ASSUME SealedInv, NEW s \in Sessions, NEW t \in Sessions, t # s,
         at'[t] = at[t], cand'[t] = cand[t], snap'[t] = snap[t], arg'[t] = arg[t],
         \A d \in Candidates : record[d] \in Record => record'[d] \in Record,
         validated \subseteq validated', ledger \subseteq ledger'
  PROVE  (Knows(t) /\ SnapshotBacked(t) /\ Logged(t))'
<1>1. Knows(t) /\ SnapshotBacked(t) /\ Logged(t)
  BY DEF SealedInv
<1>2. Knows(t)'
  BY <1>1 DEF Knows, OnCandidate
<1>3. SnapshotBacked(t)'
  BY <1>1 DEF SnapshotBacked, Backed
<1>4. Logged(t)'
  BY <1>1 DEF Logged, LedgerRow
<1>5. QED
  BY <1>2, <1>3, <1>4

\* A session that does not carry on knows nothing.
LEMMA IdleKnows ==
  ASSUME NEW s \in Sessions, at'[s] \in ControlLabels, snap'[s].status # "VALIDATED"
  PROVE  (Knows(s) /\ SnapshotBacked(s) /\ Logged(s))'
BY DEF ControlLabels, SealedLabels, Protected, OnCandidate, Knows, SnapshotBacked, Logged

\* The claims stay as they are when a session moves without holding one.
LEMMA ClaimsKept ==
  ASSUME SealedInv, NEW s \in Sessions, at'[s] \notin Holding,
         \A t \in Sessions \ {s} : at'[t] = at[t] /\ cand'[t] = cand[t] /\ arg'[t] = arg[t],
         UNCHANGED <<claim, runs, validated, tested>>
  PROVE  Claims'
<1>1. Claims
  BY DEF SealedInv
<1>2. \A t \in Sessions : at'[t] \in Holding =>
        t # s /\ at[t] \in Holding /\ Here(t)' = Here(t)
  BY DEF Here
<1>3. QED
  BY <1>1, <1>2 DEF Claims

\* The audit invariants hold as long as the ledger only grows.
LEMMA AuditKept ==
  ASSUME SealedInv, ledger \subseteq ledger', UNCHANGED <<contamination, revealed>>
  PROVE  ContaminationIsAudited' /\ RevealedIsRecorded'
BY DEF SealedInv, ContaminationIsAudited, RevealedIsRecorded

-----------------------------------------------------------------------------
(* Steps of partition calls that leave candidates and results alone. *)

LEMMA LabelsDisjoint ==
  /\ "idle" \in Labels /\ SealedLabels \subseteq Labels /\ ControlLabels \subseteq Labels
  /\ SealedLabels \cap ControlLabels = {}
  /\ \A l \in SealedLabels \union {"idle"} :
       l \notin Writers /\ l \notin OnRow /\ l # "insert" /\ l # "reject"
BY DEF Labels, ControlLabels, SealedLabels, Writers, OnRow

\* One session moves to l with locals c, r and a; candidates and results may
\* gain rows, and what the tables must satisfy is shown for each action.
LEMMA MoveInv ==
  ASSUME SealedInv, NEW s \in Sessions, NEW l \in SealedLabels \union {"idle"},
         NEW c \in Candidates \union {NoCandidate}, NEW r \in Record \union {Absent},
         NEW a \in Arg,
         at' = [at EXCEPT ![s] = l], cand' = [cand EXCEPT ![s] = c],
         snap' = [snap EXCEPT ![s] = r], arg' = [arg EXCEPT ![s] = a],
         record' \in [Candidates -> Record \union {Absent}],
         column' \in [Candidates -> Statuses \union {"ABSENT"}],
         UNCHANGED <<usage, failures>>,
         \A d \in Candidates : Exists(d) => Exists(d)',
         PartitionTyped', validated \subseteq validated', ledger \subseteq ledger',
         VersionsContiguous', ValidatedIsBacked', FinalTestOfValidatedSpec',
         (Knows(s) /\ SnapshotBacked(s) /\ Logged(s))',
         Claims', ContaminationIsAudited', RevealedIsRecorded'
  PROVE  SealedInv'
<1>1. ControlTyped(Labels) /\ ControlInv(Labels) /\ arg \in [Sessions -> Arg]
  BY DEF SealedInv, TypeOK, Labels
<1>2. l \in Labels /\ l \notin Writers \union OnRow /\ l # "insert" /\ l # "reject"
  BY LabelsDisjoint
<1>3. /\ usage' \subseteq Datasets \X {"DISCOVERY", "VALIDATION"}
      /\ failures' \subseteq Candidates \X SUBSET Datasets
      /\ usage \subseteq usage'
  BY <1>1 DEF ControlTyped
<1>4. ControlTyped(Labels)' /\ LocalsKnown' /\ InsertsNext' /\ RejectsMarked'
  BY <1>1, <1>2, <1>3, SessionMoves
<1>5. FailureMarksDatasets'
  BY <1>1 DEF ControlInv, FailureMarksDatasets
<1>6. ControlInv(Labels)'
  BY <1>4, <1>5 DEF ControlInv
<1>7. TypeOK'
  BY <1>1, <1>4 DEF TypeOK, Labels
<1>8. ASSUME NEW t \in Sessions
      PROVE  (Knows(t) /\ SnapshotBacked(t) /\ Logged(t))'
  <2>1. CASE t = s
    BY <2>1
  <2>2. CASE t # s
    <3>1. at'[t] = at[t] /\ cand'[t] = cand[t] /\ snap'[t] = snap[t] /\ arg'[t] = arg[t]
      BY <1>1, <2>2 DEF ControlTyped
    <3>2. \A d \in Candidates : record[d] \in Record => record'[d] \in Record
      BY PresentIsRecord DEF Exists
    <3>3. QED
      BY <2>2, <3>1, <3>2, OthersKeep
  <2>3. QED
    BY <2>1, <2>2
<1>9. QED
  BY <1>6, <1>7, <1>8 DEF SealedInv

\* The same when candidates and results stay as they are.
LEMMA QuietMoveInv ==
  ASSUME SealedInv, NEW s \in Sessions, NEW l \in SealedLabels \union {"idle"},
         NEW c \in Candidates \union {NoCandidate}, NEW r \in Record \union {Absent},
         NEW a \in Arg,
         at' = [at EXCEPT ![s] = l], cand' = [cand EXCEPT ![s] = c],
         snap' = [snap EXCEPT ![s] = r], arg' = [arg EXCEPT ![s] = a],
         UNCHANGED <<tables, validated, tested>>,
         PartitionTyped', ledger \subseteq ledger',
         (Knows(s) /\ SnapshotBacked(s) /\ Logged(s))',
         Claims', ContaminationIsAudited', RevealedIsRecorded'
  PROVE  SealedInv'
<1>1. /\ record' \in [Candidates -> Record \union {Absent}]
      /\ column' \in [Candidates -> Statuses \union {"ABSENT"}]
      /\ UNCHANGED <<usage, failures>> /\ validated \subseteq validated'
      /\ \A d \in Candidates : Exists(d) => Exists(d)'
  BY DEF tables, SealedInv, TypeOK, ControlTyped, Exists
<1>2. VersionsContiguous'
  BY DEF SealedInv, ControlInv, tables, VersionsContiguous, Exists
<1>3. ValidatedIsBacked' /\ FinalTestOfValidatedSpec'
  BY DEF SealedInv, tables, ValidatedIsBacked, FinalTestOfValidatedSpec
<1>4. QED
  BY <1>1, <1>2, <1>3, MoveInv

\* A session goes on to another transaction of its call.
LEMMA StepInv ==
  ASSUME SealedInv, NEW s \in Sessions, NEW l \in SealedLabels, Step(s, l),
         UNCHANGED <<tables, validated, tested>>,
         PartitionTyped', ledger \subseteq ledger',
         (Knows(s) /\ SnapshotBacked(s) /\ Logged(s))',
         Claims', ContaminationIsAudited', RevealedIsRecorded'
  PROVE  SealedInv'
<1>1. /\ cand' = [cand EXCEPT ![s] = cand[s]] /\ cand[s] \in Candidates \union {NoCandidate}
      /\ snap' = [snap EXCEPT ![s] = snap[s]] /\ snap[s] \in Record \union {Absent}
      /\ arg' = [arg EXCEPT ![s] = arg[s]] /\ arg[s] \in Arg
      /\ at' = [at EXCEPT ![s] = l]
  BY DEF Step, Goto, SealedInv, TypeOK, ControlTyped
<1>2. QED
  BY <1>1, QuietMoveInv

\* A call of a session that holds no claim any more returns or raises.
LEMMA FinishInv ==
  ASSUME SealedInv, NEW s \in Sessions, Finish(s),
         UNCHANGED <<tables, validated, tested>>,
         PartitionTyped', ledger \subseteq ledger',
         Claims', ContaminationIsAudited', RevealedIsRecorded'
  PROVE  SealedInv'
<1>1. /\ at' = [at EXCEPT ![s] = "idle"]
      /\ cand' = [cand EXCEPT ![s] = NoCandidate]
      /\ snap' = [snap EXCEPT ![s] = Absent]
      /\ arg' = [arg EXCEPT ![s] = NoArg]
  BY DEF Finish, Return
<1>2. at'[s] = "idle" /\ snap'[s] = Absent
  BY <1>1 DEF SealedInv, TypeOK, ControlTyped
<1>3. (Knows(s) /\ SnapshotBacked(s) /\ Logged(s))'
  BY <1>2, IdleKnows DEF ControlLabels, Absent
<1>4. NoArg \in Arg
  BY DEF NoArg, Arg
<1>5. QED
  BY <1>1, <1>3, <1>4, QuietMoveInv

-----------------------------------------------------------------------------
(* The calls start. *)

LEMMA BeginCallInv ==
  ASSUME SealedInv, NEW s \in Sessions, NEW call, NEW l \in SealedLabels \ Holding,
         NEW c \in Candidates \union {NoCandidate}, NEW r \in Record \union {Absent},
         NEW a \in Arg,
         BeginCall(s, call, l, c, r, a), UNCHANGED <<tables, partTables>>,
         (Knows(s) /\ SnapshotBacked(s) /\ Logged(s))'
  PROVE  SealedInv'
<1>1. /\ at' = [at EXCEPT ![s] = l] /\ cand' = [cand EXCEPT ![s] = c]
      /\ snap' = [snap EXCEPT ![s] = r] /\ arg' = [arg EXCEPT ![s] = a]
  BY DEF BeginCall, Begin
<1>2. at \in [Sessions -> Labels] /\ PartitionTyped
  BY DEF SealedInv, TypeOK, ControlTyped, Labels
<1>3. PartitionTyped' /\ ledger \subseteq ledger' /\ UNCHANGED <<contamination, revealed>>
  BY <1>2 DEF partTables, PartitionTyped
<1>4. Claims'
  BY <1>1, <1>2, ClaimsKept DEF partTables
<1>5. ContaminationIsAudited' /\ RevealedIsRecorded'
  BY <1>3, AuditKept
<1>6. UNCHANGED <<tables, validated, tested>>
  BY DEF partTables
<1>7. QED
  BY <1>1, <1>3, <1>4, <1>5, <1>6, QuietMoveInv

\* What holds of the session that has just begun a call.
LEMMA Begun ==
  ASSUME SealedInv, NEW s \in Sessions, NEW call, NEW l,
         NEW c, NEW r, NEW a, BeginCall(s, call, l, c, r, a)
  PROVE  at'[s] = l /\ cand'[s] = c /\ snap'[s] = r /\ arg'[s] = a
BY DEF BeginCall, Begin, SealedInv, TypeOK, ControlTyped

LEMMA ArgsTyped ==
  ASSUME NEW p \in Partitions, NEW mode \in Contexts \union {"NONE"},
         NEW op \in Operations \union {"NONE"}, NEW via \in Partitions \union {NoPartition}
  PROVE  /\ Args(p, mode, op, via) \in Arg
         /\ Args(p, mode, op, via).part = p /\ Args(p, mode, op, via).mode = mode
         /\ Args(p, mode, op, via).op = op /\ Args(p, mode, op, via).via = via
BY DEF Args, Arg

LEMMA BindInv ==
  ASSUME SealedInv, NEW s \in Sessions, NEW c \in Candidates, NEW p \in Partitions,
         BindValidation(s, c, p)
  PROVE  SealedInv'
<1>1. record[c] \in Record
  BY PresentIsRecord DEF BindValidation, SealedInv, TypeOK, ControlTyped
<1> DEFINE a == Args(p, "NONE", "NONE", NoPartition)
<1>2. a \in Arg /\ a.part = p
  BY ArgsTyped
<1>3. /\ BeginCall(s, "bind", "bindCheck", c, record[c], a)
      /\ UNCHANGED <<tables, partTables>> /\ record[c].status = "FROZEN"
  BY DEF BindValidation
<1>4. at'[s] = "bindCheck" /\ cand'[s] = c /\ snap'[s] = record[c] /\ arg'[s] = a
  BY <1>3, Begun
<1>5. (Knows(s) /\ SnapshotBacked(s) /\ Logged(s))'
  BY <1>1, <1>2, <1>3, <1>4
     DEF Knows, SnapshotBacked, Logged, Protected, OnCandidate, SealedLabels, tables
<1>6. "bindCheck" \in SealedLabels \ Holding
  BY DEF SealedLabels, Holding
<1>7. QED
  BY <1>1, <1>2, <1>3, <1>5, <1>6, BeginCallInv

LEMMA AuthorizeInv ==
  ASSUME SealedInv, NEW s \in Sessions, NEW c \in Candidates,
         NEW p \in Partitions, NEW via \in Partitions, AuthorizeFinal(s, c, p, via)
  PROVE  SealedInv'
<1>1. record[c] \in Record
  BY PresentIsRecord DEF AuthorizeFinal, IsValidated, SealedInv, TypeOK, ControlTyped
<1> DEFINE a == Args(p, "NONE", "NONE", via)
<1>2. a \in Arg /\ a.part = p /\ a.via = via
  BY ArgsTyped
<1>3. /\ BeginCall(s, "authorize", "authCheck", c, record[c], a)
      /\ UNCHANGED <<tables, partTables>>
  BY DEF AuthorizeFinal
<1>4. at'[s] = "authCheck" /\ cand'[s] = c /\ snap'[s] = record[c] /\ arg'[s] = a
  BY <1>3, Begun
<1>5. SnapshotBacked(s)'
  BY <1>3, <1>4 DEF SnapshotBacked, Backed, SealedInv, ValidatedIsBacked, partTables
<1>6. (Knows(s) /\ Logged(s))'
  BY <1>1, <1>2, <1>3, <1>4
     DEF Knows, Logged, Protected, OnCandidate, SealedLabels, tables
<1>7. "authCheck" \in SealedLabels \ Holding
  BY DEF SealedLabels, Holding
<1>8. QED
  BY <1>1, <1>2, <1>3, <1>5, <1>6, <1>7, BeginCallInv

LEMMA SealedExecuteInv ==
  ASSUME SealedInv, NEW s \in Sessions, NEW c \in Candidates,
         NEW p \in Partitions, NEW kind \in Kinds, SealedExecute(s, c, p, kind)
  PROVE  SealedInv'
<1>1. record[c] \in Record \union {Absent}
  BY DEF SealedInv, TypeOK, ControlTyped
<1> DEFINE a == Args(p, kind, "EVALUATION", NoPartition)
<1>2. a \in Arg /\ a.part = p /\ a.mode = kind /\ a.op = "EVALUATION"
  BY ArgsTyped DEF Kinds, Contexts, Operations
<1>3. /\ BeginCall(s, "sealed", "preflight", c, record[c], a)
      /\ UNCHANGED <<tables, partTables>>
  BY DEF SealedExecute
<1>4. at'[s] = "preflight" /\ cand'[s] = c /\ snap'[s] = record[c] /\ arg'[s] = a
  BY <1>3, Begun
<1>5. SnapshotBacked(s)'
  BY <1>3, <1>4 DEF SnapshotBacked, Backed, SealedInv, ValidatedIsBacked, partTables
<1>6. (Knows(s) /\ Logged(s))'
  BY <1>2, <1>3, <1>4 DEF Knows, Logged, Protected, OnCandidate, SealedLabels,
                          Kinds, Contexts, Operations, tables
<1>7. "preflight" \in SealedLabels \ Holding
  BY DEF SealedLabels, Holding
<1>8. QED
  BY <1>1, <1>2, <1>3, <1>5, <1>6, <1>7, BeginCallInv

LEMMA AbsentCarried ==
  Absent.status # "VALIDATED" /\ Absent \in Record \union {Absent}
BY DEF Absent

LEMMA AccessInv ==
  ASSUME SealedInv, NEW s \in Sessions, NEW c \in Candidates \union {NoCandidate},
         NEW p \in Partitions, NEW q \in Requests, Access(s, c, p, q[1], q[2])
  PROVE  SealedInv'
<1>1. q[1] \in Contexts /\ q[2] \in Operations
  BY PartitionAssumption
<1> DEFINE a == Args(p, q[1], q[2], NoPartition)
           l == IF AccessAllowed(c, p, q[1], q[2]) THEN "accessLedger" ELSE "denyLedger"
<1>2. a \in Arg /\ a.part = p /\ a.mode = q[1] /\ a.op = q[2]
  BY <1>1, ArgsTyped
<1>3. /\ BeginCall(s, "access", l, c, Absent, a)
      /\ UNCHANGED <<tables, partTables>>
  BY DEF Access
<1>4. at'[s] = l /\ cand'[s] = c /\ snap'[s] = Absent /\ arg'[s] = a
  <2> HIDE DEF l, a
  <2>1. QED
    BY <1>3, Begun
<1>5. l \in SealedLabels \ Holding /\ l \in {"accessLedger", "denyLedger"}
  BY DEF SealedLabels, Holding
<1>6. l = "accessLedger" /\ q[1] = "VALIDATION" /\ q[2] = "EVALUATION" =>
        c \in Candidates /\ record[c] \in Record
  <2> SUFFICES ASSUME AccessAllowed(c, p, "VALIDATION", "EVALUATION")
               PROVE  c \in Candidates /\ record[c] \in Record
    OBVIOUS
  <2>1. ValidationReadAllowed(c, p)
    BY DEF AccessAllowed
  <2>2. c \in Candidates /\ <<c, p>> \in Pairs
    BY <2>1 DEF ValidationReadAllowed, Pairs
  <2>3. record[c].spec \in Specs
    BY <2>1, <2>2 DEF ValidationReadAllowed, SealedInv, TypeOK, PartitionTyped
  <2>4. record[c] # Absent
    BY <2>3, ControlAssumption DEF Absent
  <2>5. QED
    BY <2>2, <2>4 DEF SealedInv, TypeOK, ControlTyped
<1> HIDE DEF l, a
<1>7. (Knows(s) /\ SnapshotBacked(s) /\ Logged(s))'
  <2>1. SnapshotBacked(s)'
    BY <1>4, <1>5, AbsentCarried DEF SnapshotBacked
  <2>2. Logged(s)'
    BY <1>4, <1>5 DEF Logged
  <2>3. Knows(s)'
    BY <1>1, <1>2, <1>3, <1>4, <1>5, <1>6 DEF Knows, OnCandidate, tables
  <2>4. QED
    BY <2>1, <2>2, <2>3
<1>8. QED
  BY <1>2, <1>3, <1>5, <1>7, AbsentCarried, BeginCallInv

LEMMA WarmupInv ==
  ASSUME SealedInv, NEW s \in Sessions, NEW c \in Candidates,
         NEW p \in Partitions, NEW q \in Partitions, Warmup(s, c, p, q)
  PROVE  SealedInv'
<1> DEFINE a == Args(p, "VALIDATION", "WARMUP", NoPartition)
<1>1. a \in Arg /\ a.part = p /\ a.mode = "VALIDATION" /\ a.op = "WARMUP"
  BY ArgsTyped DEF Contexts, Operations
<1>2. /\ BeginCall(s, "warmup", "accessLedger", c, Absent, a)
      /\ UNCHANGED <<tables, partTables>>
  BY DEF Warmup
<1>3. at'[s] = "accessLedger" /\ cand'[s] = c /\ snap'[s] = Absent /\ arg'[s] = a
  BY <1>2, Begun
<1>4. "accessLedger" \in SealedLabels \ Holding
  BY DEF SealedLabels, Holding
<1>5. (Knows(s) /\ SnapshotBacked(s) /\ Logged(s))'
  BY <1>1, <1>3, AbsentCarried
     DEF Knows, SnapshotBacked, Logged, OnCandidate, Contexts, Operations
<1>6. QED
  BY <1>1, <1>2, <1>4, <1>5, AbsentCarried, BeginCallInv

-----------------------------------------------------------------------------
(* The transactions that only read, and those that write one table.         *)

\* The session goes on without writing, or its call ends.
LEMMA ReadInv ==
  ASSUME SealedInv, NEW s \in Sessions, NEW l \in SealedLabels \ Holding,
         Step(s, l) \/ Finish(s), UNCHANGED <<tables, partTables>>,
         Step(s, l) => (Knows(s) /\ SnapshotBacked(s) /\ Logged(s))'
  PROVE  SealedInv'
<1>1. at \in [Sessions -> Labels] /\ PartitionTyped
  BY DEF SealedInv, TypeOK, ControlTyped, Labels
<1>2. PartitionTyped' /\ ledger \subseteq ledger' /\ UNCHANGED <<contamination, revealed>>
  BY <1>1 DEF partTables, PartitionTyped
<1>3. ContaminationIsAudited' /\ RevealedIsRecorded'
  BY <1>2, AuditKept
<1>4. UNCHANGED <<tables, validated, tested>>
  BY DEF partTables
<1>5. at'[s] \notin Holding /\
      \A t \in Sessions \ {s} : at'[t] = at[t] /\ cand'[t] = cand[t] /\ arg'[t] = arg[t]
  BY <1>1 DEF Step, Goto, Finish, Return, Holding, SealedInv, TypeOK, ControlTyped
<1>6. Claims'
  BY <1>5, ClaimsKept DEF partTables
<1>7. QED
  BY <1>2, <1>3, <1>4, <1>6, StepInv, FinishInv

\* What a session that goes on to l keeps.
LEMMA Stepped ==
  ASSUME SealedInv, NEW s \in Sessions, NEW l, Step(s, l)
  PROVE  at'[s] = l /\ cand'[s] = cand[s] /\ snap'[s] = snap[s] /\ arg'[s] = arg[s]
BY DEF Step, Goto, SealedInv, TypeOK, ControlTyped

\* A refused execution knows enough to be logged.
LEMMA DenyKnows ==
  ASSUME SealedInv, NEW s \in Sessions, at[s] \in {"preflight", "claim", "run"},
         Step(s, "denyLedger"), UNCHANGED validated
  PROVE  (Knows(s) /\ SnapshotBacked(s) /\ Logged(s))'
<1>1. Knows(s) /\ SnapshotBacked(s)
  BY DEF SealedInv
<1>2. /\ at'[s] = "denyLedger" /\ cand'[s] = cand[s] /\ snap'[s] = snap[s]
      /\ arg'[s] = arg[s]
  BY Stepped
<1>3. QED
  BY <1>1, <1>2 DEF Knows, SnapshotBacked, Logged, Backed, Protected, OnCandidate,
                    SealedLabels

LEMMA ChecksInv ==
  ASSUME SealedInv, NEW s \in Sessions,
         CheckBinding(s) \/ CheckAuthorization(s) \/ Preflight(s)
  PROVE  SealedInv'
<1>1. Knows(s) /\ SnapshotBacked(s)
  BY DEF SealedInv
<1>2. ASSUME NEW l \in {"bindInsert", "authInsert"}, Step(s, l) \/ Finish(s),
             UNCHANGED <<tables, partTables>>,
             at[s] = IF l = "bindInsert" THEN "bindCheck" ELSE "authCheck"
      PROVE  SealedInv'
  <2>1. Step(s, l) => (Knows(s) /\ SnapshotBacked(s) /\ Logged(s))'
    <3> SUFFICES ASSUME Step(s, l) PROVE (Knows(s) /\ SnapshotBacked(s) /\ Logged(s))'
      OBVIOUS
    <3>1. at'[s] = l /\ cand'[s] = cand[s] /\ snap'[s] = snap[s] /\ arg'[s] = arg[s]
      BY Stepped
    <3>2. QED
      BY <1>1, <1>2, <3>1 DEF Knows, SnapshotBacked, Logged, Backed, Protected,
                              OnCandidate, SealedLabels, tables, partTables
  <2>2. l \in SealedLabels \ Holding
    BY DEF SealedLabels, Holding
  <2>3. QED
    BY <1>2, <2>1, <2>2, ReadInv
<1>3. CASE CheckBinding(s)
  BY <1>2, <1>3 DEF CheckBinding
<1>4. CASE CheckAuthorization(s)
  BY <1>2, <1>4 DEF CheckAuthorization
<1>5. CASE Preflight(s)
  <2>1. CASE PreflightPasses(s)
    <3>1. Step(s, "claim") /\ at[s] = "preflight" /\ UNCHANGED <<tables, partTables>>
      BY <1>5, <2>1 DEF Preflight
    <3>2. /\ at'[s] = "claim" /\ cand'[s] = cand[s] /\ snap'[s] = snap[s]
          /\ arg'[s] = arg[s]
      BY <3>1, Stepped
    <3>3. snap[s] \in Record
      BY <2>1, PresentIsRecord DEF PreflightPasses, SealedInv, TypeOK, ControlTyped
    <3>4. arg[s].mode = "FINAL_TEST" => snap[s].status = "VALIDATED"
      BY <2>1 DEF PreflightPasses, AuthorizedAndValidated, IsValidated
    <3>5. (Knows(s) /\ SnapshotBacked(s) /\ Logged(s))'
      BY <1>1, <3>1, <3>2, <3>3, <3>4 DEF Knows, SnapshotBacked, Logged, Backed,
           Protected, OnCandidate, SealedLabels, tables, partTables
    <3>6. "claim" \in SealedLabels \ Holding
      BY DEF SealedLabels, Holding
    <3>7. QED
      BY <3>1, <3>5, <3>6, ReadInv
  <2>2. CASE ~ PreflightPasses(s)
    <3>1. Step(s, "denyLedger") \/ Finish(s)
      BY <1>5, <2>2 DEF Preflight, Deny
    <3>2. Step(s, "denyLedger") => (Knows(s) /\ SnapshotBacked(s) /\ Logged(s))'
      BY <1>5, DenyKnows DEF Preflight, partTables
    <3>3. "denyLedger" \in SealedLabels \ Holding
      BY DEF SealedLabels, Holding
    <3>4. QED
      BY <1>5, <3>1, <3>2, <3>3, ReadInv DEF Preflight
  <2>3. QED
    BY <2>1, <2>2
<1>6. QED
  BY <1>3, <1>4, <1>5

\* A call that ends after writing a table other than claims and results.
LEMMA WriteFinishInv ==
  ASSUME SealedInv, NEW s \in Sessions, Finish(s),
         UNCHANGED <<tables, claim, runs, validated, tested>>,
         PartitionTyped', ledger \subseteq ledger',
         ContaminationIsAudited', RevealedIsRecorded'
  PROVE  SealedInv'
<1>1. at'[s] \notin Holding /\
      \A t \in Sessions \ {s} : at'[t] = at[t] /\ cand'[t] = cand[t] /\ arg'[t] = arg[t]
  BY DEF Finish, Return, Holding, SealedInv, TypeOK, ControlTyped
<1>2. Claims'
  BY <1>1, ClaimsKept
<1>3. QED
  BY <1>2, FinishInv

LEMMA InsertBindingInv ==
  ASSUME SealedInv, NEW s \in Sessions, InsertBinding(s)
  PROVE  SealedInv'
<1>1. at[s] = "bindInsert" /\ PartitionTyped /\ Knows(s)
  BY DEF InsertBinding, SealedInv, TypeOK
<1>2. snap[s].spec \in Specs
  BY <1>1 DEF Knows, OnCandidate, Record
<1>3. PartitionTyped'
  BY <1>1, <1>2 DEF InsertBinding, PartitionTyped
<1>4. ContaminationIsAudited' /\ RevealedIsRecorded'
  BY AuditKept DEF InsertBinding
<1>5. QED
  BY <1>3, <1>4, WriteFinishInv DEF InsertBinding

LEMMA InsertAuthorizationInv ==
  ASSUME SealedInv, NEW s \in Sessions, InsertAuthorization(s)
  PROVE  SealedInv'
<1>1. at[s] = "authInsert" /\ PartitionTyped /\ Knows(s)
  BY DEF InsertAuthorization, SealedInv, TypeOK
<1>2. [cand |-> cand[s], part |-> arg[s].part, spec |-> snap[s].spec, via |-> arg[s].via]
        \in [cand : Candidates, part : Partitions, spec : Specs, via : Partitions]
  BY <1>1 DEF Knows, OnCandidate, Record, SealedLabels
<1>3. PartitionTyped'
  BY <1>1, <1>2 DEF InsertAuthorization, PartitionTyped
<1>4. ContaminationIsAudited' /\ RevealedIsRecorded'
  BY AuditKept DEF InsertAuthorization
<1>5. QED
  BY <1>3, <1>4, WriteFinishInv DEF InsertAuthorization

-----------------------------------------------------------------------------
(* Claims, executions and refusals. *)

\* The pair a sealed execution works on.
LEMMA HereIsPair ==
  ASSUME SealedInv, NEW s \in Sessions,
         at[s] \in {"preflight", "claim", "run", "commit", "ledger", "contaminate"}
  PROVE  Here(s) \in Pairs
BY DEF SealedInv, Knows, Here, Pairs, OnCandidate, SealedLabels

\* The sessions that do not move stay where they are.
LEMMA OthersStay ==
  ASSUME SealedInv, NEW s \in Sessions,
         (\E l : Step(s, l)) \/ Finish(s) \/ RunSealed(s)
  PROVE  \A t \in Sessions \ {s} :
           at'[t] = at[t] /\ cand'[t] = cand[t] /\ arg'[t] = arg[t] /\ Here(t)' = Here(t)
BY DEF Step, Goto, Finish, Return, RunSealed, SealedInv, TypeOK, ControlTyped, Here

LEMMA ClaimInv ==
  ASSUME SealedInv, NEW s \in Sessions, Claim(s)
  PROVE  SealedInv'
<1>1. /\ at[s] = "claim" /\ PartitionTyped /\ Knows(s) /\ SnapshotBacked(s) /\ Claims
      /\ Here(s) \in Pairs
  BY HereIsPair DEF Claim, SealedInv, TypeOK
<1>2. ContaminationIsAudited' /\ RevealedIsRecorded'
  BY AuditKept DEF Claim
<1>3. CASE Unclaimed(Here(s))
  <2>1. Step(s, "run") /\ claim' = [claim EXCEPT ![Here(s)] = "RUNNING"]
        /\ UNCHANGED <<tables, binding, validated, authorized, tested, contamination,
                       ledger, runs, revealed>>
    BY <1>3 DEF Claim
  <2>2. PartitionTyped'
    BY <1>1, <2>1 DEF PartitionTyped, ClaimStatuses
  <2>3. /\ at'[s] = "run" /\ cand'[s] = cand[s] /\ snap'[s] = snap[s]
        /\ arg'[s] = arg[s] /\ Here(s)' = Here(s)
    BY <2>1, Stepped DEF Here
  <2>4. (Knows(s) /\ SnapshotBacked(s) /\ Logged(s))'
    BY <1>1, <2>1, <2>3 DEF Knows, SnapshotBacked, Logged, Backed, Protected,
                            OnCandidate, SealedLabels, tables
  <2>5. \A t \in Sessions \ {s} : at'[t] = at[t] /\ Here(t)' = Here(t)
    BY <2>1, OthersStay
  <2>6. \A t \in Sessions \ {s} : at[t] \in Holding => Here(t) # Here(s)
    BY <1>1, <1>3 DEF Claims, Unclaimed
  <2>7. Claims'
    <3>1. \A x \in Pairs : runs'[x] <= 1 /\ (claim'[x] = "NONE" => runs'[x] = 0)
      BY <1>1, <2>1 DEF Claims, PartitionTyped
    <3>2. \A t \in Sessions : at'[t] \in Holding =>
            claim'[Here(t)'] = "RUNNING"
            /\ runs'[Here(t)'] = (IF at'[t] = "run" THEN 0 ELSE 1)
      <4> SUFFICES ASSUME NEW t \in Sessions, at'[t] \in Holding
                   PROVE  /\ claim'[Here(t)'] = "RUNNING"
                          /\ runs'[Here(t)'] = (IF at'[t] = "run" THEN 0 ELSE 1)
        OBVIOUS
      <4>1. CASE t = s
        BY <1>1, <1>3, <2>1, <2>3, <4>1 DEF Claims, Unclaimed, PartitionTyped
      <4>2. CASE t # s
        BY <1>1, <2>1, <2>5, <2>6, <4>2 DEF Claims, PartitionTyped
      <4>3. QED
        BY <4>1, <4>2
    <3>3. \A t, u \in Sessions :
            at'[t] \in Holding /\ at'[u] \in Holding /\ Here(t)' = Here(u)' => t = u
      BY <1>1, <2>3, <2>5, <2>6 DEF Claims
    <3>4. \A v \in validated' \union tested' : claim'[<<v.cand, v.part>>] = "COMPLETED"
      <4> SUFFICES ASSUME NEW v \in validated \union tested
                   PROVE  claim'[<<v.cand, v.part>>] = "COMPLETED"
        BY <2>1
      <4>1. <<v.cand, v.part>> \in Pairs /\ claim[<<v.cand, v.part>>] = "COMPLETED"
        BY <1>1 DEF Claims, PartitionTyped, Pairs
      <4>2. QED
        BY <1>1, <1>3, <2>1, <4>1 DEF Unclaimed, PartitionTyped
    <3>5. QED
      BY <3>1, <3>2, <3>3, <3>4 DEF Claims
  <2>8. "run" \in SealedLabels
    BY DEF SealedLabels
  <2>9. QED
    BY <1>2, <2>1, <2>2, <2>4, <2>7, <2>8, StepInv
<1>4. CASE ~ Unclaimed(Here(s))
  <2>1. (Step(s, "denyLedger") \/ Finish(s)) /\ UNCHANGED <<tables, partTables>>
    BY <1>4 DEF Claim, Deny, partTables
  <2>2. Step(s, "denyLedger") => (Knows(s) /\ SnapshotBacked(s) /\ Logged(s))'
    BY <1>1, <2>1, DenyKnows DEF partTables
  <2>3. "denyLedger" \in SealedLabels \ Holding
    BY DEF SealedLabels, Holding
  <2>4. QED
    BY <2>1, <2>2, <2>3, ReadInv
<1>5. QED
  BY <1>3, <1>4

\* The holder of a claim reads the data: nobody else holds that claim, and
\* nobody has read the pair before.
LEMMA RunClaims ==
  ASSUME SealedInv, NEW s \in Sessions, at[s] = "run", NEW n \in {0, 1},
         runs' = [runs EXCEPT ![Here(s)] = @ + n],
         UNCHANGED <<claim, validated, tested>>,
         at'[s] \in Holding => n = 1 /\ at'[s] = "commit" /\ Here(s)' = Here(s),
         \A t \in Sessions \ {s} : at'[t] = at[t] /\ Here(t)' = Here(t)
  PROVE  Claims'
<1>1. Claims /\ PartitionTyped /\ Here(s) \in Pairs
  BY HereIsPair DEF SealedInv, TypeOK
<1>2. runs[Here(s)] = 0 /\ claim[Here(s)] = "RUNNING"
  BY <1>1 DEF Claims, Holding
<1>3. runs'[Here(s)] = n /\ \A x \in Pairs \ {Here(s)} : runs'[x] = runs[x]
  BY <1>1, <1>2 DEF PartitionTyped
<1>4. \A t \in Sessions \ {s} : at[t] \in Holding => Here(t) # Here(s)
  BY <1>1 DEF Claims, Holding
<1>5. \A x \in Pairs : runs'[x] <= 1 /\ (claim'[x] = "NONE" => runs'[x] = 0)
  BY <1>1, <1>2, <1>3 DEF Claims
<1>6. \A t \in Sessions : at'[t] \in Holding =>
        claim'[Here(t)'] = "RUNNING"
        /\ runs'[Here(t)'] = (IF at'[t] = "run" THEN 0 ELSE 1)
  <2> SUFFICES ASSUME NEW t \in Sessions, at'[t] \in Holding
               PROVE  /\ claim'[Here(t)'] = "RUNNING"
                      /\ runs'[Here(t)'] = (IF at'[t] = "run" THEN 0 ELSE 1)
    OBVIOUS
  <2>1. CASE t = s
    BY <1>2, <1>3, <2>1
  <2>2. CASE t # s
    <3>1. at[t] \in Holding /\ Here(t)' = Here(t) /\ at'[t] = at[t]
      BY <2>2
    <3>2. Here(t) \in Pairs
      BY <3>1, HereIsPair DEF Holding
    <3>3. QED
      BY <1>1, <1>3, <1>4, <2>2, <3>1, <3>2 DEF Claims
  <2>3. QED
    BY <2>1, <2>2
<1>7. \A t, u \in Sessions :
        at'[t] \in Holding /\ at'[u] \in Holding /\ Here(t)' = Here(u)' => t = u
  BY <1>1, <1>4 DEF Claims
<1>8. \A v \in validated' \union tested' : claim'[<<v.cand, v.part>>] = "COMPLETED"
  BY <1>1 DEF Claims
<1>9. QED
  BY <1>5, <1>6, <1>7, <1>8 DEF Claims

LEMMA RunTyped ==
  ASSUME SealedInv, NEW s \in Sessions, at[s] = "run", NEW n \in {0, 1},
         runs' = [runs EXCEPT ![Here(s)] = @ + n],
         UNCHANGED <<binding, claim, validated, authorized, tested, contamination,
                     ledger, revealed>>
  PROVE  PartitionTyped'
<1>1. PartitionTyped
  BY DEF SealedInv, TypeOK
<1>2. runs' \in [Pairs -> Nat]
  <2>1. \A m \in Nat : m + n \in Nat
    OBVIOUS
  <2>2. QED
    BY <1>1, <2>1 DEF PartitionTyped
<1>3. QED
  BY <1>1, <1>2 DEF PartitionTyped

LEMMA JudgedTyped ==
  ASSUME NEW r \in Record, NEW passed \in BOOLEAN
  PROVE  /\ Judged(r, passed) \in Record
         /\ Judged(r, passed).status = "VALIDATED" =>
              Judged(r, passed).validation = "PASSED"
BY DEF Judged, Record, Statuses, Verdicts

LEMMA RunSealedInv ==
  ASSUME SealedInv, NEW s \in Sessions, RunSealed(s)
  PROVE  SealedInv'
<1>1. at[s] = "run" /\ Knows(s) /\ SnapshotBacked(s)
  BY DEF RunSealed, SealedInv
<1>2. PICK r \in Record :
        /\ snap' = [snap EXCEPT ![s] = r]
        /\ arg[s].mode = "VALIDATION" =>
             (r.status = "VALIDATED" => r.validation = "PASSED")
        /\ arg[s].mode # "VALIDATION" => r = snap[s]
  <2>1. snap[s] \in Record
    BY <1>1 DEF Knows, OnCandidate
  <2>2. CASE arg[s].mode = "VALIDATION"
    <3>1. PICK passed \in BOOLEAN : snap' = [snap EXCEPT ![s] = Judged(@, passed)]
      BY <2>2 DEF RunSealed
    <3>2. snap' = [snap EXCEPT ![s] = Judged(snap[s], passed)]
      BY <3>1 DEF SealedInv, TypeOK, ControlTyped
    <3>3. QED
      BY <2>1, <2>2, <3>2, JudgedTyped
  <2>3. CASE arg[s].mode # "VALIDATION"
    <3>1. snap' = [snap EXCEPT ![s] = snap[s]]
      BY <2>3 DEF RunSealed, SealedInv, TypeOK, ControlTyped
    <3>2. QED
      BY <2>1, <2>3, <3>1
  <2>4. QED
    BY <2>2, <2>3
<1>3. /\ at' = [at EXCEPT ![s] = "commit"]
      /\ cand' = [cand EXCEPT ![s] = cand[s]] /\ arg' = [arg EXCEPT ![s] = arg[s]]
      /\ cand[s] \in Candidates \union {NoCandidate} /\ arg[s] \in Arg
      /\ UNCHANGED <<tables, validated, tested>> /\ ledger \subseteq ledger'
  BY DEF RunSealed, SealedInv, TypeOK, ControlTyped
<1>4. /\ at'[s] = "commit" /\ cand'[s] = cand[s] /\ arg'[s] = arg[s] /\ snap'[s] = r
      /\ Here(s)' = Here(s)
  BY <1>2, <1>3 DEF SealedInv, TypeOK, ControlTyped, Here
<1>5. Knows(s)'
  BY <1>1, <1>3, <1>4 DEF Knows, Protected, OnCandidate, SealedLabels, tables
<1>6. SnapshotBacked(s)'
  BY <1>1, <1>2, <1>3, <1>4 DEF Knows, SnapshotBacked, Backed, Kinds
<1>7. Logged(s)'
  BY <1>4 DEF Logged
<1>8. PartitionTyped'
  BY <1>1, RunTyped DEF RunSealed
<1>9. \A t \in Sessions \ {s} : at'[t] = at[t] /\ Here(t)' = Here(t)
  BY OthersStay
<1>10. Claims'
  BY <1>1, <1>4, <1>9, RunClaims DEF RunSealed
<1>11. ContaminationIsAudited' /\ RevealedIsRecorded'
  BY AuditKept DEF RunSealed
<1>12. "commit" \in SealedLabels
  BY DEF SealedLabels
<1>13. QED
  BY <1>2, <1>3, <1>5, <1>6, <1>7, <1>8, <1>10, <1>11, <1>12, QuietMoveInv

LEMMA SealedRunFailsInv ==
  ASSUME SealedInv, NEW s \in Sessions, SealedRunFails(s)
  PROVE  SealedInv'
<1>1. PICK n \in {0, 1} : runs' = [runs EXCEPT ![Here(s)] = @ + n]
  BY DEF SealedRunFails
<1>2. /\ at[s] = "run" /\ (Step(s, "denyLedger") \/ Finish(s))
      /\ UNCHANGED <<tables, binding, claim, validated, authorized, tested,
                     contamination, ledger, revealed>>
  BY DEF SealedRunFails, Deny
<1>3. PartitionTyped'
  BY <1>1, <1>2, RunTyped
<1>4. \A t \in Sessions \ {s} : at'[t] = at[t] /\ Here(t)' = Here(t)
  BY <1>2, OthersStay
<1>5. at'[s] \notin Holding
  BY <1>2 DEF Step, Goto, Finish, Return, Holding, SealedInv, TypeOK, ControlTyped
<1>6. Claims'
  BY <1>1, <1>2, <1>4, <1>5, RunClaims
<1>7. ContaminationIsAudited' /\ RevealedIsRecorded'
  BY <1>2, AuditKept
<1>8. Step(s, "denyLedger") => (Knows(s) /\ SnapshotBacked(s) /\ Logged(s))'
  BY <1>2, DenyKnows
<1>9. "denyLedger" \in SealedLabels
  BY DEF SealedLabels
<1>10. QED
  BY <1>2, <1>3, <1>6, <1>7, <1>8, <1>9, StepInv, FinishInv

-----------------------------------------------------------------------------
(* The ledger and the contamination records. *)

\* A ledger row of a session has the type of the ledger.
LEMMA LedgerRowTyped ==
  ASSUME SealedInv, NEW s \in Sessions, at[s] \in Protected,
         NEW decision \in {"ALLOWED", "DENIED"}
  PROVE  LedgerRow(s, decision) \in
           [part : Partitions, cand : Candidates \union {NoCandidate},
            mode : Contexts, op : Operations, decision : {"ALLOWED", "DENIED"}]
<1>1. at[s] \in SealedLabels
  BY DEF Protected, SealedLabels
<1>2. arg[s].part \in Partitions /\ arg[s].mode \in Contexts /\ arg[s].op \in Operations
  BY <1>1 DEF SealedInv, Knows
<1>3. cand[s] \in Candidates \union {NoCandidate}
  BY DEF SealedInv, TypeOK, ControlTyped
<1>4. QED
  BY <1>2, <1>3 DEF LedgerRow

\* A session writes its ledger row and goes on, or its call ends.
LEMMA LedgerInv ==
  ASSUME SealedInv, NEW s \in Sessions, at[s] \in Protected \ Holding,
         NEW decision \in {"ALLOWED", "DENIED"},
         NEW l \in {"contaminate", "accessContaminate", "denyContaminate"},
         ledger' = ledger \union {LedgerRow(s, decision)},
         Step(s, l) \/ Finish(s),
         UNCHANGED <<tables, binding, claim, validated, authorized, tested,
                     contamination, runs>>,
         revealed' \subseteq [part : Partitions, cand : Candidates \union {NoCandidate},
                              mode : Contexts, op : Operations],
         RevealedIsRecorded',
         Step(s, l) => /\ decision = (IF l = "denyContaminate" THEN "DENIED" ELSE "ALLOWED")
                       /\ Knows(s)' /\ SnapshotBacked(s)'
  PROVE  SealedInv'
<1>1. PartitionTyped
  BY DEF SealedInv, TypeOK
<1>2. PartitionTyped'
  BY <1>1, LedgerRowTyped DEF PartitionTyped
<1>3. ContaminationIsAudited'
  BY DEF SealedInv, ContaminationIsAudited
<1>4. \A t \in Sessions \ {s} : at'[t] = at[t] /\ cand'[t] = cand[t] /\ arg'[t] = arg[t]
  BY OthersStay
<1>5. at'[s] \notin Holding
  BY DEF Step, Goto, Finish, Return, Holding, SealedInv, TypeOK, ControlTyped
<1>6. Claims'
  BY <1>4, <1>5, ClaimsKept
<1>7. Step(s, l) => Logged(s)'
  <2> SUFFICES ASSUME Step(s, l) PROVE Logged(s)'
    OBVIOUS
  <2>1. at'[s] = l /\ cand'[s] = cand[s] /\ arg'[s] = arg[s]
    BY Stepped
  <2>2. LedgerRow(s, decision)' = LedgerRow(s, decision)
    BY <2>1 DEF LedgerRow
  <2>3. QED
    BY <2>1, <2>2 DEF Logged
<1>8. l \in SealedLabels
  BY DEF SealedLabels
<1>9. QED
  BY <1>2, <1>3, <1>6, <1>7, <1>8, StepInv, FinishInv

\* After the ledger row the session knows what it knew.
LEMMA LedgerKnows ==
  ASSUME SealedInv, NEW s \in Sessions, UNCHANGED <<tables, validated>>,
         NEW l, Step(s, l),
         \/ at[s] = "denyLedger" /\ l = "denyContaminate"
         \/ at[s] = "ledger" /\ l = "contaminate"
         \/ at[s] = "accessLedger" /\ l = "accessContaminate"
  PROVE  (Knows(s) /\ SnapshotBacked(s))'
<1>1. Knows(s) /\ SnapshotBacked(s)
  BY DEF SealedInv
<1>2. at'[s] = l /\ cand'[s] = cand[s] /\ snap'[s] = snap[s] /\ arg'[s] = arg[s]
  BY Stepped
<1>3. QED
  BY <1>1, <1>2 DEF Knows, SnapshotBacked, Backed, Protected, OnCandidate,
                    SealedLabels, tables

LEMMA DenyLedgerInv ==
  ASSUME SealedInv, NEW s \in Sessions, DenyLedger(s)
  PROVE  SealedInv'
<1>1. /\ at[s] = "denyLedger" /\ ledger' = ledger \union {LedgerRow(s, "DENIED")}
      /\ Step(s, "denyContaminate") \/ Finish(s)
      /\ UNCHANGED <<tables, binding, claim, validated, authorized, tested,
                     contamination, runs, revealed>>
  BY DEF DenyLedger
<1>2. "denyLedger" \in Protected \ Holding
  BY DEF Protected, Holding
<1>3. RevealedIsRecorded'
  BY <1>1, AuditKept
<1>4. revealed' \subseteq [part : Partitions, cand : Candidates \union {NoCandidate},
                           mode : Contexts, op : Operations]
  BY <1>1 DEF SealedInv, TypeOK, PartitionTyped
<1>5. Step(s, "denyContaminate") => (Knows(s) /\ SnapshotBacked(s))'
  BY <1>1, LedgerKnows
<1>6. QED
  BY <1>1, <1>2, <1>3, <1>4, <1>5, LedgerInv

LEMMA LedgerSealedInv ==
  ASSUME SealedInv, NEW s \in Sessions, LedgerSealed(s)
  PROVE  SealedInv'
<1>1. /\ at[s] = "ledger" /\ ledger' = ledger \union {LedgerRow(s, "ALLOWED")}
      /\ Step(s, "contaminate")
      /\ UNCHANGED <<tables, binding, claim, validated, authorized, tested,
                     contamination, runs, revealed>>
  BY DEF LedgerSealed
<1>2. "ledger" \in Protected \ Holding
  BY DEF Protected, Holding
<1>3. RevealedIsRecorded'
  BY <1>1, AuditKept
<1>4. revealed' \subseteq [part : Partitions, cand : Candidates \union {NoCandidate},
                           mode : Contexts, op : Operations]
  BY <1>1 DEF SealedInv, TypeOK, PartitionTyped
<1>5. (Knows(s) /\ SnapshotBacked(s))'
  BY <1>1, LedgerKnows
<1>6. QED
  BY <1>1, <1>2, <1>3, <1>4, <1>5, LedgerInv

\* What access() is about to return has the type of a revealed row.
LEMMA RevealedRowTyped ==
  ASSUME SealedInv, NEW s \in Sessions, at[s] \in {"accessLedger", "accessContaminate"}
  PROVE  RevealedRow(s) \in
           [part : Partitions, cand : Candidates \union {NoCandidate},
            mode : Contexts, op : Operations]
<1>1. arg[s].part \in Partitions /\ arg[s].mode \in Contexts /\ arg[s].op \in Operations
  BY DEF SealedInv, Knows, Protected, SealedLabels
<1>2. cand[s] \in Candidates \union {NoCandidate}
  BY DEF SealedInv, TypeOK, ControlTyped
<1>3. QED
  BY <1>1, <1>2 DEF RevealedRow

LEMMA AccessLedgerInv ==
  ASSUME SealedInv, NEW s \in Sessions, AccessLedger(s)
  PROVE  SealedInv'
<1>1. /\ at[s] = "accessLedger" /\ ledger' = ledger \union {LedgerRow(s, "ALLOWED")}
      /\ Step(s, "accessContaminate") \/ Finish(s)
      /\ UNCHANGED <<tables, binding, claim, validated, authorized, tested,
                     contamination, runs>>
  BY DEF AccessLedger
<1>2. "accessLedger" \in Protected \ Holding
  BY DEF Protected, Holding
<1>3. revealed' = revealed \/
      /\ ~ Contaminates(arg[s].mode, arg[s].op) /\ Shows(arg[s].mode, arg[s].op)
      /\ revealed' = revealed \union {RevealedRow(s)}
  BY DEF AccessLedger
<1>4. revealed' \subseteq [part : Partitions, cand : Candidates \union {NoCandidate},
                           mode : Contexts, op : Operations]
  BY <1>1, <1>3, RevealedRowTyped DEF SealedInv, TypeOK, PartitionTyped
<1>5. RevealedIsRecorded'
  <2> SUFFICES ASSUME NEW r \in revealed'
               PROVE  /\ \E e \in ledger' : /\ e.part = r.part /\ e.cand = r.cand
                                            /\ e.op = r.op /\ e.decision = "ALLOWED"
                      /\ r.mode = "DISCOVERY" =>
                           \E x \in contamination : x.part = r.part /\ x.kind = "DISCOVERY_EXPOSURE"
                      /\ r.mode = "VALIDATION" /\ r.op = "EVALUATION" =>
                           \E x \in contamination : /\ x.part = r.part
                                                   /\ x.kind = "VALIDATION_EXPOSURE"
                                                   /\ x.lineage = Lineage(r.cand)
    BY <1>1 DEF RevealedIsRecorded
  <2>1. CASE r \in revealed
    BY <1>1, <2>1 DEF SealedInv, RevealedIsRecorded
  <2>2. CASE /\ ~ Contaminates(arg[s].mode, arg[s].op) /\ Shows(arg[s].mode, arg[s].op)
             /\ r = RevealedRow(s)
    <3>1. LedgerRow(s, "ALLOWED") \in ledger'
      BY <1>1
    <3>2. r.mode # "DISCOVERY" /\ ~ (r.mode = "VALIDATION" /\ r.op = "EVALUATION")
      BY <2>2 DEF Contaminates, RevealedRow
    <3>3. QED
      BY <2>2, <3>1, <3>2 DEF RevealedRow, LedgerRow
  <2>3. QED
    BY <1>3, <2>1, <2>2
<1>6. Step(s, "accessContaminate") => (Knows(s) /\ SnapshotBacked(s))'
  BY <1>1, LedgerKnows
<1>7. QED
  BY <1>1, <1>2, <1>4, <1>5, <1>6, LedgerInv

\* A session records the contamination its ledger row accounts for.
LEMMA ContaminateInv ==
  ASSUME SealedInv, NEW s \in Sessions,
         at[s] \in {"contaminate", "accessContaminate", "denyContaminate"},
         NEW kind \in ContaminationKinds,
         (kind = "UNAUTHORIZED_ACCESS_ATTEMPT") <=> (at[s] = "denyContaminate"),
         contamination' = contamination \union {ContaminationRow(s, kind)},
         Finish(s),
         UNCHANGED <<tables, binding, claim, validated, authorized, tested, ledger,
                     runs>>,
         revealed' \subseteq [part : Partitions, cand : Candidates \union {NoCandidate},
                              mode : Contexts, op : Operations],
         RevealedIsRecorded'
  PROVE  SealedInv'
<1>1. arg[s].part \in Partitions /\ PartitionTyped /\ Logged(s)
  BY DEF SealedInv, TypeOK, Knows, SealedLabels
<1>2. LineageOf(cand[s]) \in Lineages \union {NoLineage}
  BY DEF LineageOf, Lineage, Candidates, SealedInv, TypeOK, ControlTyped
<1>3. PartitionTyped'
  BY <1>1, <1>2 DEF PartitionTyped, ContaminationRow
<1>4. LedgerRow(s, IF kind = "UNAUTHORIZED_ACCESS_ATTEMPT" THEN "DENIED" ELSE "ALLOWED")
        \in ledger
  BY <1>1 DEF Logged
<1>5. ContaminationIsAudited'
  <2> SUFFICES ASSUME NEW x \in contamination'
               PROVE  \E e \in ledger :
                        /\ e.part = x.part
                        /\ e.decision = IF x.kind = "UNAUTHORIZED_ACCESS_ATTEMPT"
                                        THEN "DENIED" ELSE "ALLOWED"
    BY DEF ContaminationIsAudited
  <2>1. CASE x \in contamination
    BY <2>1 DEF SealedInv, ContaminationIsAudited
  <2>2. CASE x = ContaminationRow(s, kind)
    BY <1>4, <2>2 DEF ContaminationRow, LedgerRow
  <2>3. QED
    BY <2>1, <2>2
<1>6. QED
  BY <1>3, <1>5, WriteFinishInv

LEMMA ContaminationsInv ==
  ASSUME SealedInv, NEW s \in Sessions,
         DenyContaminate(s) \/ ContaminateSealed(s) \/ AccessContaminate(s)
  PROVE  SealedInv'
<1>1. revealed \subseteq [part : Partitions, cand : Candidates \union {NoCandidate},
                          mode : Contexts, op : Operations]
  BY DEF SealedInv, TypeOK, PartitionTyped
<1>2. RevealedIsRecorded
  BY DEF SealedInv
<1>3. CASE DenyContaminate(s)
  <2>1. RevealedIsRecorded'
    BY <1>2, <1>3 DEF DenyContaminate, RevealedIsRecorded
  <2>2. QED
    BY <1>1, <1>3, <2>1, ContaminateInv DEF DenyContaminate, ContaminationKinds
<1>4. CASE ContaminateSealed(s)
  <2>1. RevealedIsRecorded'
    BY <1>2, <1>4 DEF ContaminateSealed, RevealedIsRecorded
  <2>2. QED
    BY <1>1, <1>4, <2>1, ContaminateInv DEF ContaminateSealed, ContaminationKinds
<1>5. CASE AccessContaminate(s)
  <2> DEFINE exposure == IF arg[s].mode = "DISCOVERY" THEN "DISCOVERY_EXPOSURE"
                                                    ELSE "VALIDATION_EXPOSURE"
  <2>1. /\ at[s] = "accessContaminate"
        /\ contamination' = contamination \union {ContaminationRow(s, exposure)}
        /\ revealed' = revealed \union {RevealedRow(s)}
        /\ UNCHANGED ledger
    BY <1>5 DEF AccessContaminate
  <2>2. LedgerRow(s, "ALLOWED") \in ledger
    BY <2>1 DEF SealedInv, Logged
  <2>3. arg[s].mode = "VALIDATION" /\ arg[s].op = "EVALUATION" =>
          LineageOf(cand[s]) = Lineage(cand[s])
    <3> SUFFICES ASSUME arg[s].mode = "VALIDATION", arg[s].op = "EVALUATION"
                 PROVE  LineageOf(cand[s]) = Lineage(cand[s])
      OBVIOUS
    <3>1. cand[s] \in Candidates /\ record[cand[s]] \in Record
      BY <2>1 DEF SealedInv, Knows
    <3>2. QED
      BY <3>1, PresentIsRecord, ControlAssumption DEF LineageOf, Exists
  <2>4. RevealedIsRecorded'
    <3> SUFFICES ASSUME NEW r \in revealed'
                 PROVE  /\ \E e \in ledger : /\ e.part = r.part /\ e.cand = r.cand
                                             /\ e.op = r.op /\ e.decision = "ALLOWED"
                        /\ r.mode = "DISCOVERY" =>
                             \E x \in contamination' :
                               x.part = r.part /\ x.kind = "DISCOVERY_EXPOSURE"
                        /\ r.mode = "VALIDATION" /\ r.op = "EVALUATION" =>
                             \E x \in contamination' : /\ x.part = r.part
                                                      /\ x.kind = "VALIDATION_EXPOSURE"
                                                      /\ x.lineage = Lineage(r.cand)
      BY <2>1 DEF RevealedIsRecorded
    <3>1. CASE r \in revealed
      BY <1>2, <2>1, <3>1 DEF RevealedIsRecorded
    <3>2. CASE r = RevealedRow(s)
      <4>1. /\ r.part = arg[s].part /\ r.cand = cand[s]
            /\ r.mode = arg[s].mode /\ r.op = arg[s].op
        BY <3>2 DEF RevealedRow
      <4>2. \E e \in ledger : /\ e.part = r.part /\ e.cand = r.cand
                              /\ e.op = r.op /\ e.decision = "ALLOWED"
        BY <2>2, <4>1 DEF LedgerRow
      <4>3. PICK x \in contamination' :
              x.part = arg[s].part /\ x.lineage = LineageOf(cand[s]) /\ x.kind = exposure
        <5>1. ContaminationRow(s, exposure) \in contamination'
          BY <2>1
        <5>2. /\ ContaminationRow(s, exposure).part = arg[s].part
              /\ ContaminationRow(s, exposure).lineage = LineageOf(cand[s])
              /\ ContaminationRow(s, exposure).kind = exposure
          BY DEF ContaminationRow
        <5>3. QED
          BY <5>1, <5>2
      <4>4. QED
        BY <2>3, <4>1, <4>2, <4>3
    <3>3. QED
      BY <2>1, <3>1, <3>2
  <2>5. exposure \in ContaminationKinds /\ exposure # "UNAUTHORIZED_ACCESS_ATTEMPT"
    BY DEF ContaminationKinds
  <2>6. revealed' \subseteq [part : Partitions, cand : Candidates \union {NoCandidate},
                             mode : Contexts, op : Operations]
    BY <1>1, <2>1, RevealedRowTyped
  <2> HIDE DEF exposure
  <2>7. QED
    BY <1>5, <2>1, <2>4, <2>5, <2>6, ContaminateInv DEF AccessContaminate
<1>6. QED
  BY <1>3, <1>4, <1>5

-----------------------------------------------------------------------------
(* The commits. *)

\* The holder of a claim completes it together with the result.
LEMMA CommitClaims ==
  ASSUME SealedInv, NEW s \in Sessions, at[s] = "commit", Step(s, "ledger"),
         claim' = [claim EXCEPT ![Here(s)] = "COMPLETED"], UNCHANGED runs,
         \A v \in (validated' \union tested') \ (validated \union tested) :
           <<v.cand, v.part>> = Here(s)
  PROVE  Claims'
<1>1. Claims /\ PartitionTyped /\ Here(s) \in Pairs
  BY HereIsPair DEF SealedInv, TypeOK
<1>2. \A x \in Pairs : claim'[x] = (IF x = Here(s) THEN "COMPLETED" ELSE claim[x])
  BY <1>1 DEF PartitionTyped
<1>3. \A t \in Sessions \ {s} : at'[t] = at[t] /\ Here(t)' = Here(t)
  BY OthersStay
<1>4. at'[s] \notin Holding
  BY Stepped DEF Holding
<1>5. \A t \in Sessions : at'[t] \in Holding =>
        t # s /\ at[t] \in Holding /\ Here(t)' = Here(t) /\ Here(t) \in Pairs
        /\ Here(t) # Here(s)
  <2> SUFFICES ASSUME NEW t \in Sessions, at'[t] \in Holding
               PROVE  t # s /\ at[t] \in Holding /\ Here(t)' = Here(t)
                      /\ Here(t) \in Pairs /\ Here(t) # Here(s)
    OBVIOUS
  <2>1. t # s /\ at[t] \in Holding /\ Here(t)' = Here(t)
    BY <1>3, <1>4
  <2>2. Here(t) \in Pairs
    BY <2>1, HereIsPair DEF Holding
  <2>3. Here(t) # Here(s)
    BY <1>1, <2>1 DEF Claims, Holding
  <2>4. QED
    BY <2>1, <2>2, <2>3
<1>6. \A x \in Pairs : runs'[x] <= 1 /\ (claim'[x] = "NONE" => runs'[x] = 0)
  BY <1>1, <1>2 DEF Claims
<1>7. \A t \in Sessions : at'[t] \in Holding =>
        claim'[Here(t)'] = "RUNNING"
        /\ runs'[Here(t)'] = (IF at'[t] = "run" THEN 0 ELSE 1)
  BY <1>1, <1>2, <1>3, <1>5 DEF Claims
<1>8. \A t, u \in Sessions :
        at'[t] \in Holding /\ at'[u] \in Holding /\ Here(t)' = Here(u)' => t = u
  BY <1>1, <1>5 DEF Claims
<1>9. \A v \in validated' \union tested' : claim'[<<v.cand, v.part>>] = "COMPLETED"
  <2> SUFFICES ASSUME NEW v \in validated' \union tested'
               PROVE  claim'[<<v.cand, v.part>>] = "COMPLETED"
    OBVIOUS
  <2>1. CASE v \in validated \union tested
    <3>1. <<v.cand, v.part>> \in Pairs
      BY <1>1, <2>1 DEF PartitionTyped, Pairs
    <3>2. QED
      BY <1>1, <1>2, <2>1, <3>1 DEF Claims
  <2>2. CASE v \notin validated \union tested
    BY <1>1, <1>2, <2>2
  <2>3. QED
    BY <2>1, <2>2
<1>10. QED
  BY <1>6, <1>7, <1>8, <1>9 DEF Claims

\* What a session knows after the commit.
LEMMA CommitKnows ==
  ASSUME SealedInv, NEW s \in Sessions, at[s] = "commit", Step(s, "ledger"),
         record'[cand[s]] \in Record, validated \subseteq validated',
         snap[s].status = "VALIDATED" => Backed(cand[s], snap[s].spec)'
  PROVE  (Knows(s) /\ SnapshotBacked(s) /\ Logged(s))'
<1>1. Knows(s)
  BY DEF SealedInv
<1>2. at'[s] = "ledger" /\ cand'[s] = cand[s] /\ snap'[s] = snap[s] /\ arg'[s] = arg[s]
  BY Stepped
<1>3. Knows(s)'
  BY <1>1, <1>2 DEF Knows, Protected, OnCandidate, SealedLabels
<1>4. SnapshotBacked(s)'
  BY <1>2 DEF SnapshotBacked, Backed
<1>5. Logged(s)'
  BY <1>2 DEF Logged
<1>6. QED
  BY <1>3, <1>4, <1>5

LEMMA CommitFinalInv ==
  ASSUME SealedInv, NEW s \in Sessions, CommitFinal(s)
  PROVE  SealedInv'
<1> DEFINE row == [cand |-> cand[s], part |-> arg[s].part, spec |-> snap[s].spec]
<1>1. /\ at[s] = "commit" /\ arg[s].mode = "FINAL_TEST" /\ Step(s, "ledger")
      /\ tested' = tested \union {row}
      /\ claim' = [claim EXCEPT ![Here(s)] = "COMPLETED"]
      /\ UNCHANGED <<tables, binding, validated, authorized, contamination, ledger,
                     runs, revealed>>
  BY DEF CommitFinal
<1>2. /\ cand[s] \in Candidates /\ snap[s] \in Record /\ record[cand[s]] \in Record
      /\ arg[s].part \in Partitions /\ Here(s) \in Pairs
  BY <1>1, HereIsPair DEF SealedInv, Knows, OnCandidate, SealedLabels
<1>3. Backed(cand[s], snap[s].spec)
  BY <1>1 DEF SealedInv, SnapshotBacked
<1>4. row \in [cand : Candidates, part : Partitions, spec : Specs]
  BY <1>2 DEF Record
<1>5. row.cand = cand[s] /\ row.spec = snap[s].spec /\ <<row.cand, row.part>> = Here(s)
  BY DEF Here
<1> HIDE DEF row
<1>6. PartitionTyped'
  BY <1>1, <1>4 DEF SealedInv, TypeOK, PartitionTyped, ClaimStatuses
<1>7. FinalTestOfValidatedSpec'
  BY <1>1, <1>3, <1>5 DEF SealedInv, FinalTestOfValidatedSpec, Backed
<1>8. Claims'
  BY <1>1, <1>5, CommitClaims
<1>9. ContaminationIsAudited' /\ RevealedIsRecorded'
  BY <1>1, AuditKept
<1>10. (Knows(s) /\ SnapshotBacked(s) /\ Logged(s))'
  <2>1. Backed(cand[s], snap[s].spec)'
    BY <1>1, <1>3, Stepped DEF Backed
  <2>2. record'[cand[s]] \in Record
    BY <1>1, <1>2 DEF tables
  <2>3. QED
    BY <1>1, <2>1, <2>2, CommitKnows
<1>11. /\ record' \in [Candidates -> Record \union {Absent}]
       /\ column' \in [Candidates -> Statuses \union {"ABSENT"}]
       /\ UNCHANGED <<usage, failures>>
       /\ \A d \in Candidates : Exists(d) => Exists(d)'
  BY <1>1 DEF tables, SealedInv, TypeOK, ControlTyped, Exists
<1>12. VersionsContiguous' /\ ValidatedIsBacked'
  BY <1>1 DEF SealedInv, ControlInv, tables, VersionsContiguous, ValidatedIsBacked, Exists
<1>13. /\ cand' = [cand EXCEPT ![s] = cand[s]] /\ cand[s] \in Candidates \union {NoCandidate}
       /\ snap' = [snap EXCEPT ![s] = snap[s]] /\ snap[s] \in Record \union {Absent}
       /\ arg' = [arg EXCEPT ![s] = arg[s]] /\ arg[s] \in Arg
       /\ at' = [at EXCEPT ![s] = "ledger"] /\ "ledger" \in SealedLabels
  BY <1>1 DEF Step, Goto, SealedInv, TypeOK, ControlTyped, SealedLabels
<1>14. validated \subseteq validated' /\ ledger \subseteq ledger'
  BY <1>1
<1>15. QED
  BY <1>6, <1>7, <1>8, <1>9, <1>10, <1>11, <1>12, <1>13, <1>14, MoveInv

LEMMA CommitValidationInv ==
  ASSUME SealedInv, NEW s \in Sessions, CommitValidation(s)
  PROVE  SealedInv'
<1> DEFINE row == ResultRow(s)
<1>1. /\ at[s] = "commit" /\ arg[s].mode = "VALIDATION" /\ Step(s, "ledger")
      /\ validated' = validated \union {row}
      /\ record' = [record EXCEPT ![cand[s]] = snap[s]]
      /\ column' = [column EXCEPT ![cand[s]] = snap[s].status]
      /\ claim' = [claim EXCEPT ![Here(s)] = "COMPLETED"]
      /\ UNCHANGED <<usage, failures, binding, authorized, tested, contamination,
                     ledger, runs, revealed>>
  BY DEF CommitValidation
<1>2. /\ cand[s] \in Candidates /\ snap[s] \in Record /\ record[cand[s]] \in Record
      /\ arg[s].part \in Partitions /\ Here(s) \in Pairs
  BY <1>1, HereIsPair DEF SealedInv, Knows, OnCandidate, SealedLabels
<1>3. row \in [cand : Candidates, part : Partitions, spec : Specs, passed : BOOLEAN]
  BY <1>2 DEF ResultRow, Record
<1>4. /\ row.cand = cand[s] /\ row.spec = snap[s].spec
      /\ row.passed = (snap[s].validation = "PASSED") /\ <<row.cand, row.part>> = Here(s)
  BY DEF ResultRow, Here
<1> HIDE DEF row
<1>5. snap[s].status = "VALIDATED" =>
        \E v \in validated' : v.cand = cand[s] /\ v.spec = snap[s].spec /\ v.passed
  <2>1. snap[s].status = "VALIDATED" =>
          Backed(cand[s], snap[s].spec) \/ snap[s].validation = "PASSED"
    BY DEF SealedInv, SnapshotBacked
  <2>2. CASE Backed(cand[s], snap[s].spec)
    BY <1>1, <2>2 DEF Backed
  <2>3. CASE snap[s].validation = "PASSED"
    <3>1. row \in validated' /\ row.passed
      BY <1>1, <1>4, <2>3
    <3>2. QED
      BY <3>1, <1>4
  <2>4. QED
    BY <2>1, <2>2, <2>3
<1>6. PartitionTyped'
  BY <1>1, <1>3 DEF SealedInv, TypeOK, PartitionTyped, ClaimStatuses
<1>7. FinalTestOfValidatedSpec'
  BY <1>1 DEF SealedInv, FinalTestOfValidatedSpec
<1>8. Claims'
  BY <1>1, <1>4, CommitClaims
<1>9. ContaminationIsAudited' /\ RevealedIsRecorded'
  BY <1>1, AuditKept
<1>10. record \in [Candidates -> Record \union {Absent}]
       /\ column \in [Candidates -> Statuses \union {"ABSENT"}]
  BY DEF SealedInv, TypeOK, ControlTyped
<1>11. /\ record' \in [Candidates -> Record \union {Absent}]
       /\ \A d \in Candidates : Exists(d) => Exists(d)'
  BY <1>1, <1>2, <1>10, RowsStay
<1>12. column' \in [Candidates -> Statuses \union {"ABSENT"}] /\ UNCHANGED <<usage, failures>>
  BY <1>1, <1>2, <1>10 DEF Record
<1>13. VersionsContiguous'
  BY <1>1, <1>2, <1>10, RewriteContiguous DEF SealedInv, ControlInv
<1>14. ValidatedIsBacked'
  BY <1>1, <1>2, <1>5, <1>10 DEF SealedInv, ValidatedIsBacked
<1>15. (Knows(s) /\ SnapshotBacked(s) /\ Logged(s))'
  <2>1. snap[s].status = "VALIDATED" => Backed(cand[s], snap[s].spec)'
    BY <1>1, <1>5, Stepped DEF Backed
  <2>2. record'[cand[s]] \in Record
    BY <1>1, <1>2, <1>10
  <2>3. QED
    BY <1>1, <2>1, <2>2, CommitKnows
<1>16. /\ cand' = [cand EXCEPT ![s] = cand[s]] /\ cand[s] \in Candidates \union {NoCandidate}
       /\ snap' = [snap EXCEPT ![s] = snap[s]] /\ snap[s] \in Record \union {Absent}
       /\ arg' = [arg EXCEPT ![s] = arg[s]] /\ arg[s] \in Arg
       /\ at' = [at EXCEPT ![s] = "ledger"] /\ "ledger" \in SealedLabels
  BY <1>1 DEF Step, Goto, SealedInv, TypeOK, ControlTyped, SealedLabels
<1>17. validated \subseteq validated' /\ ledger \subseteq ledger'
  BY <1>1
<1>18. QED
  BY <1>6, <1>7, <1>8, <1>9, <1>11, <1>12, <1>13, <1>14, <1>15, <1>16, <1>17, MoveInv

-----------------------------------------------------------------------------
(* A step of CandidateControl. *)

\* What a control step may do to a session ...
Carries(t) ==
  \/ at'[t] = at[t] /\ cand'[t] = cand[t] /\ snap'[t] = snap[t]
  \/ /\ at'[t] \in ControlLabels
     /\ \/ snap'[t].status # "VALIDATED"
        \/ at[t] \in ControlLabels /\ cand'[t] = cand[t] /\ snap'[t] = snap[t]

\* ... and to a candidate: it stores what some session carries.
Stores(c) ==
  \/ record'[c] = record[c]
  \/ \E s \in Sessions : at[s] \in Writers /\ cand[s] = c /\ record'[c] = snap[s]

LEMMA CarriesMoved ==
  ASSUME SealedInv, NEW s \in Sessions, NEW l \in ControlLabels, NEW c, NEW r,
         at' = [at EXCEPT ![s] = l], cand' = [cand EXCEPT ![s] = c],
         snap' = [snap EXCEPT ![s] = r], r.status # "VALIDATED"
  PROVE  \A t \in Sessions : Carries(t)
BY DEF Carries, SealedInv, TypeOK, ControlTyped

LEMMA BeginCarries ==
  ASSUME SealedInv, NEW s \in Sessions, NEW call, NEW l \in ControlLabels, NEW c, NEW r,
         Begin(s, call, l, c, r), r.status # "VALIDATED", UNCHANGED tables
  PROVE  (\A t \in Sessions : Carries(t)) /\ (\A d \in Candidates : Stores(d))
<1>1. \A t \in Sessions : Carries(t)
  BY CarriesMoved DEF Begin
<1>2. QED
  BY <1>1 DEF Stores, tables

LEMMA ReturnCarries ==
  ASSUME SealedInv, NEW s \in Sessions, Return(s)
  PROVE  \A t \in Sessions : Carries(t)
<1>1. "idle" \in ControlLabels /\ Absent.status # "VALIDATED"
  BY DEF ControlLabels, Absent
<1>2. QED
  BY <1>1, CarriesMoved DEF Return

LEMMA StoresOne ==
  ASSUME SealedInv, NEW s \in Sessions, at[s] \in Writers,
         record' = record \/ record' = [record EXCEPT ![cand[s]] = snap[s]]
  PROVE  \A d \in Candidates : Stores(d)
BY DEF Stores, SealedInv, TypeOK, ControlTyped

\* Every step of CandidateControl does no more than that.
LEMMA ControlEffect ==
  ASSUME SealedInv, ControlNext
  PROVE  (\A t \in Sessions : Carries(t)) /\ (\A d \in Candidates : Stores(d))
<1> DEFINE Goal == (\A t \in Sessions : Carries(t)) /\ (\A d \in Candidates : Stores(d))
<1>1. record \in [Candidates -> Record \union {Absent}]
  BY DEF SealedInv, TypeOK, ControlTyped
<1>2. /\ "insert" \in ControlLabels /\ "update" \in ControlLabels
      /\ "updateJson" \in ControlLabels /\ "request" \in ControlLabels
      /\ "usage" \in ControlLabels /\ "reject" \in ControlLabels
      /\ Absent.status # "VALIDATED"
      /\ \A spec : NewRecord(spec).status # "VALIDATED"
  BY DEF ControlLabels, Absent, NewRecord
<1>3. ASSUME NEW c \in Candidates, NEW ds, NEW spec
      PROVE  /\ [record[c] EXCEPT !.status = "FROZEN", !.designated = ds].status # "VALIDATED"
             /\ [record[c] EXCEPT !.spec = spec].status = record[c].status
             /\ Requested(record[c]).status # "VALIDATED"
             /\ [record[c] EXCEPT !.status = "REJECTED",
                                  !.validation = "FAILED"].status # "VALIDATED"
  <2>1. record[c] \in Record \/ record[c] = Absent
    BY <1>1
  <2>2. QED
    BY <2>1 DEF Record, Absent, Requested
<1>4. ASSUME NEW s \in Sessions, ControlStep(s)
      PROVE  Goal
  <2>1. ASSUME NEW b \in Lineages, NEW spec \in Specs, CreateCandidate(s, b, spec)
        PROVE  Goal
    BY <2>1, <1>2, BeginCarries DEF CreateCandidate
  <2>2. ASSUME NEW c \in Candidates, NEW spec \in Specs, NewCandidateVersion(s, c, spec)
        PROVE  Goal
    BY <2>2, <1>2, BeginCarries DEF NewCandidateVersion
  <2>3. ASSUME NEW c \in Candidates, NEW ds \in SUBSET Datasets, FreezeCandidate(s, c, ds)
        PROVE  Goal
    <3> DEFINE r == [record[c] EXCEPT !.status = "FROZEN", !.designated = ds]
    <3>1. r.status # "VALIDATED"
      BY <1>3
    <3>2. Begin(s, "freeze", "update", c, r) /\ UNCHANGED tables
      BY <2>3 DEF FreezeCandidate
    <3> HIDE DEF r
    <3>3. QED
      BY <3>1, <3>2, <1>2, BeginCarries
  <2>4. ASSUME NEW c \in Candidates, NEW spec \in Specs, ModifyCandidate(s, c, spec)
        PROVE  Goal
    <3> DEFINE r == [record[c] EXCEPT !.spec = spec]
    <3>1. r.status # "VALIDATED"
      BY <2>4, <1>3 DEF ModifyCandidate, Modifiable
    <3>2. Begin(s, "modify", "updateJson", c, r) /\ UNCHANGED tables
      BY <2>4 DEF ModifyCandidate
    <3> HIDE DEF r
    <3>3. QED
      BY <3>1, <3>2, <1>2, BeginCarries
  <2>5. ASSUME NEW c \in Candidates, RequestValidation(s, c)
        PROVE  Goal
    BY <2>5, <1>2, BeginCarries DEF RequestValidation
  <2>6. ASSUME NEW c \in Candidates, ValidationFailed(s, c)
        PROVE  Goal
    <3> DEFINE r == [record[c] EXCEPT !.status = "REJECTED", !.validation = "FAILED"]
    <3>1. r.status # "VALIDATED"
      BY <1>3
    <3>2. Begin(s, "fail", "usage", c, r) /\ UNCHANGED tables
      BY <2>6 DEF ValidationFailed
    <3> HIDE DEF r
    <3>3. QED
      BY <3>1, <3>2, <1>2, BeginCarries
  <2>7. ASSUME InsertCandidate(s) \/ UpdateCandidate(s) \/ UpdateCandidateJson(s)
                 \/ RejectCandidate(s)
        PROVE  Goal
    <3>1. /\ at[s] \in Writers /\ Return(s)
          /\ record' = record \/ record' = [record EXCEPT ![cand[s]] = snap[s]]
      BY <2>7 DEF Writers, InsertCandidate, UpdateCandidate, UpdateCandidateJson,
                  RejectCandidate
    <3>2. QED
      BY <3>1, ReturnCarries, StoresOne
  <2>8. CASE LoadRequested(s)
    <3>1. cand[s] \in Candidates
      BY <2>8 DEF LoadRequested, SealedInv, ControlInv, LocalsKnown, OnRow
    <3>2. cand' = [cand EXCEPT ![s] = cand[s]] /\ UNCHANGED record
      BY <2>8 DEF LoadRequested, tables, SealedInv, TypeOK, ControlTyped
    <3>3. Requested(record[cand[s]]).status # "VALIDATED"
      BY <3>1, <1>3
    <3>4. /\ at' = [at EXCEPT ![s] = "update"]
          /\ snap' = [snap EXCEPT ![s] = Requested(record[cand[s]])]
      BY <2>8 DEF LoadRequested
    <3>5. \A t \in Sessions : Carries(t)
      BY <3>2, <3>3, <3>4, <1>2, CarriesMoved
    <3>6. QED
      BY <3>2, <3>5 DEF Stores
  <2>9. CASE RecordFailureUsage(s)
    <3>1. \A t \in Sessions : Carries(t)
      BY <2>9 DEF RecordFailureUsage, locals, Goto, Carries, ControlLabels,
                  SealedInv, TypeOK, ControlTyped
    <3>2. QED
      BY <2>9, <3>1 DEF RecordFailureUsage, Stores
  <2>10. QED
    BY <1>4, <2>1, <2>2, <2>3, <2>4, <2>5, <2>6, <2>7, <2>8, <2>9 DEF ControlStep
<1>5. ASSUME NEW s \in Sessions, Crash(s)
      PROVE  Goal
  BY <1>5, ReturnCarries DEF Crash, Stores, tables
<1>6. ASSUME NEW d \in Datasets, RecordDiscoveryUsage(d)
      PROVE  Goal
  BY <1>6 DEF RecordDiscoveryUsage, Stores, Carries, locals
<1>7. QED
  BY <1>4, <1>5, <1>6 DEF ControlNext

LEMMA ControlKeeps ==
  ASSUME SealedInv, Control
  PROVE  SealedInv'
<1>1. /\ ControlNext /\ UNCHANGED partTables
      /\ arg' = [s \in Sessions |-> IF at'[s] = "idle" THEN NoArg ELSE arg[s]]
  BY DEF Control
<1>2. UNCHANGED <<binding, claim, validated, authorized, tested, contamination,
                  ledger, runs, revealed>>
  BY <1>1 DEF partTables
<1>3. (\A t \in Sessions : Carries(t)) /\ (\A d \in Candidates : Stores(d))
  BY <1>1, ControlEffect
<1>4. ControlInv(Labels)'
  BY <1>1, ControlNextInv, LabelsDisjoint DEF SealedInv
<1>5. TypeOK'
  <2>1. ControlTyped(Labels)' /\ PartitionTyped'
    BY <1>2, <1>4 DEF ControlInv, SealedInv, TypeOK, PartitionTyped
  <2>2. arg' \in [Sessions -> Arg]
    BY <1>1 DEF SealedInv, TypeOK, NoArg, Arg
  <2>3. QED
    BY <2>1, <2>2 DEF TypeOK, Labels
<1>6. \A d \in Candidates : record[d] \in Record => record'[d] \in Record
  BY <1>3 DEF Stores, SealedInv, ControlInv, LocalsKnown
<1>7. \A t \in Sessions : at'[t] \in SealedLabels =>
        at[t] = at'[t] /\ cand[t] = cand'[t] /\ snap[t] = snap'[t] /\ arg[t] = arg'[t]
  BY <1>1, <1>3, LabelsDisjoint DEF Carries, SealedLabels
<1>8. ASSUME NEW t \in Sessions
      PROVE  (Knows(t) /\ SnapshotBacked(t) /\ Logged(t))'
  <2>1. Knows(t) /\ SnapshotBacked(t) /\ Logged(t)
    BY DEF SealedInv
  <2>2. CASE at'[t] \in SealedLabels
    <3>1. at[t] = at'[t] /\ cand[t] = cand'[t] /\ snap[t] = snap'[t] /\ arg[t] = arg'[t]
      BY <1>7, <2>2
    <3>2. Knows(t)'
      BY <2>1, <3>1, <1>6 DEF Knows, OnCandidate
    <3>3. QED
      BY <2>1, <3>1, <3>2, <1>2 DEF SnapshotBacked, Logged, Backed, LedgerRow
  <2>3. CASE at'[t] \in ControlLabels
    <3>1. snap'[t].status = "VALIDATED" =>
            at[t] # "commit" /\ cand'[t] = cand[t] /\ snap'[t] = snap[t]
      BY <1>3, <2>3 DEF Carries, ControlLabels
    <3>2. SnapshotBacked(t)'
      BY <2>1, <2>3, <3>1, <1>2 DEF SnapshotBacked, Backed, ControlLabels
    <3>3. (Knows(t) /\ Logged(t))'
      BY <2>3 DEF Knows, Logged, ControlLabels, SealedLabels, Protected, OnCandidate
    <3>4. QED
      BY <3>2, <3>3
  <2>4. QED
    BY <1>5, <2>2, <2>3 DEF TypeOK, ControlTyped
<1>9. Claims'
  <2>1. \A t \in Sessions : at'[t] \in Holding => at'[t] = at[t] /\ Here(t)' = Here(t)
    BY <1>7 DEF Holding, SealedLabels, Here
  <2>2. QED
    BY <1>2, <2>1 DEF Claims, SealedInv
<1>10. ValidatedIsBacked'
  <2> SUFFICES ASSUME NEW c \in Candidates, record'[c].status = "VALIDATED"
               PROVE  Backed(c, record'[c].spec)
    BY <1>2 DEF ValidatedIsBacked, Backed
  <2>1. CASE record'[c] = record[c]
    BY <2>1 DEF SealedInv, ValidatedIsBacked, Backed
  <2>2. ASSUME NEW s \in Sessions, at[s] \in Writers, cand[s] = c, record'[c] = snap[s]
        PROVE  Backed(c, record'[c].spec)
    BY <2>2 DEF SealedInv, SnapshotBacked, Writers
  <2>3. QED
    BY <2>1, <2>2, <1>3 DEF Stores
<1>11. FinalTestOfValidatedSpec' /\ ContaminationIsAudited' /\ RevealedIsRecorded'
  BY <1>2 DEF SealedInv, FinalTestOfValidatedSpec, ContaminationIsAudited, RevealedIsRecorded
<1>12. QED
  BY <1>4, <1>5, <1>8, <1>9, <1>10, <1>11 DEF SealedInv

-----------------------------------------------------------------------------
(* The invariant holds, and the properties follow from it. *)

LEMMA SealedInit ==
  ASSUME PartitionInit
  PROVE  SealedInv
<1>1. /\ at = [s \in Sessions |-> "idle"] /\ snap = [s \in Sessions |-> Absent]
      /\ cand = [s \in Sessions |-> NoCandidate] /\ record = [c \in Candidates |-> Absent]
      /\ column = [c \in Candidates |-> "ABSENT"] /\ usage = {} /\ failures = {}
  BY DEF PartitionInit, Init
<1>2. TypeOK
  <2>1. ControlTyped(Labels)
    BY <1>1, LabelsDisjoint DEF ControlTyped
  <2>2. PartitionTyped
    BY DEF PartitionInit, PartitionTyped, ClaimStatuses
  <2>3. arg \in [Sessions -> Arg]
    BY DEF PartitionInit, NoArg, Arg
  <2>4. QED
    BY <2>1, <2>2, <2>3 DEF TypeOK, Labels
<1>3. ControlInv(Labels)
  <2>1. ControlInv(ControlLabels)
    BY ControlInit DEF PartitionInit
  <2>2. QED
    BY <1>2, <2>1 DEF ControlInv, TypeOK, Labels
<1>4. \A s \in Sessions : Knows(s) /\ SnapshotBacked(s) /\ Logged(s)
  BY <1>1 DEF Knows, SnapshotBacked, Logged, SealedLabels, Protected, OnCandidate, Absent
<1>5. Claims
  BY <1>1 DEF PartitionInit, Claims, Holding
<1>6. ValidatedIsBacked /\ FinalTestOfValidatedSpec
  BY <1>1 DEF PartitionInit, ValidatedIsBacked, FinalTestOfValidatedSpec, Absent
<1>7. ContaminationIsAudited /\ RevealedIsRecorded
  BY DEF PartitionInit, ContaminationIsAudited, RevealedIsRecorded
<1>8. QED
  BY <1>2, <1>3, <1>4, <1>5, <1>6, <1>7 DEF SealedInv

LEMMA SealedNext ==
  ASSUME SealedInv, [Next]_vars
  PROVE  SealedInv'
<1>1. ASSUME NEW s \in Sessions, PartitionCall(s)
      PROVE  SealedInv'
  BY <1>1, BindInv, AuthorizeInv, SealedExecuteInv, AccessInv, WarmupInv DEF PartitionCall
<1>2. ASSUME NEW s \in Sessions, Continue(s)
      PROVE  SealedInv'
  BY <1>2, ChecksInv, InsertBindingInv, InsertAuthorizationInv, ClaimInv, RunSealedInv,
     SealedRunFailsInv, CommitValidationInv, CommitFinalInv, LedgerSealedInv,
     AccessLedgerInv, ContaminationsInv, DenyLedgerInv
     DEF Continue
<1>3. CASE UNCHANGED vars
  <2>1. UNCHANGED <<record, column, usage, failures, at, cand, snap, binding, claim,
                    validated, authorized, tested, contamination, ledger, runs,
                    revealed, arg>>
    BY <1>3 DEF vars, controlVars, partTables
  <2>2. TypeOK'
    BY <2>1 DEF SealedInv, TypeOK, ControlTyped, PartitionTyped
  <2>3. ControlInv(Labels)'
    BY <2>1 DEF SealedInv, ControlInv, ControlTyped, LocalsKnown, InsertsNext,
                RejectsMarked, VersionsContiguous, FailureMarksDatasets, Exists
  <2>4. \A s \in Sessions : (Knows(s) /\ SnapshotBacked(s) /\ Logged(s))'
    BY <2>1 DEF SealedInv, Knows, SnapshotBacked, Logged, Backed, LedgerRow
  <2>5. Claims'
    BY <2>1 DEF SealedInv, Claims, Here
  <2>6. ValidatedIsBacked' /\ FinalTestOfValidatedSpec'
    BY <2>1 DEF SealedInv, ValidatedIsBacked, FinalTestOfValidatedSpec
  <2>7. ContaminationIsAudited' /\ RevealedIsRecorded'
    BY <2>1 DEF SealedInv, ContaminationIsAudited, RevealedIsRecorded
  <2>8. QED
    BY <2>2, <2>3, <2>4, <2>5, <2>6, <2>7 DEF SealedInv
<1>4. QED
  BY <1>1, <1>2, <1>3, ControlKeeps DEF Next

\* The invariant holds whatever number of sessions interleave, fail and stop.
THEOREM SealedInvariant == Spec => []SealedInv
<1>1. PartitionInit => SealedInv
  BY SealedInit
<1>2. SealedInv /\ [Next]_vars => SealedInv'
  BY SealedNext
<1>3. QED
  BY <1>1, <1>2, PTL DEF Spec

\* Type correctness of the candidate and partition tables and of the locals.
THEOREM TypeCorrect == Spec => []TypeOK
<1>1. SealedInv => TypeOK
  BY DEF SealedInv
<1>2. QED
  BY <1>1, SealedInvariant, PTL

\* The claim taken before execution (the primary key of the claims tables)
\* lets the sealed engine read a partition at most once for a candidate.
THEOREM ExecutedAtMostOnceHolds == Spec => []ExecutedAtMostOnce
<1>1. SealedInv => ExecutedAtMostOnce
  BY DEF SealedInv, Claims, ExecutedAtMostOnce
<1>2. QED
  BY <1>1, SealedInvariant, PTL

\* sealed_final_execute tests only a specification with a passed sealed
\* validation of the same candidate.
THEOREM FinalTestOfValidatedSpecHolds == Spec => []FinalTestOfValidatedSpec
<1>1. SealedInv => FinalTestOfValidatedSpec
  BY DEF SealedInv
<1>2. QED
  BY <1>1, SealedInvariant, PTL

\* No interleaving of the overwrites in ResearchControl forges VALIDATED.
THEOREM ValidatedIsBackedHolds == Spec => []ValidatedIsBacked
<1>1. SealedInv => ValidatedIsBacked
  BY DEF SealedInv
<1>2. QED
  BY <1>1, SealedInvariant, PTL

\* Every contamination record has its row of the access ledger.
THEOREM ContaminationIsAuditedHolds == Spec => []ContaminationIsAudited
<1>1. SealedInv => ContaminationIsAudited
  BY DEF SealedInv
<1>2. QED
  BY <1>1, SealedInvariant, PTL

\* access() returns values only after it recorded that it did.
THEOREM RevealedIsRecordedHolds == Spec => []RevealedIsRecorded
<1>1. SealedInv => RevealedIsRecorded
  BY DEF SealedInv
<1>2. QED
  BY <1>1, SealedInvariant, PTL

-----------------------------------------------------------------------------
(* The partition service implements EvidencePipeline. *)

Read == {x \in Pairs : runs[x] > 0}
Passed == {<<v.cand, v.part, v.spec>> : v \in {w \in validated : w.passed}}
Tested == {<<t.cand, t.part, t.spec>> : t \in tested}

LEMMA EvidenceInit ==
  ASSUME PartitionInit
  PROVE  Evidence!Init
BY DEF PartitionInit, Evidence!Init

\* Only the engine and the two commits change what the abstraction sees.
LEMMA EvidenceStutters ==
  ASSUME UNCHANGED <<runs, validated, tested>>
  PROVE  UNCHANGED <<Read, Passed, Tested>>
BY DEF Read, Passed, Tested

LEMMA RunReads ==
  ASSUME SealedInv, NEW s \in Sessions, at[s] = "run",
         UNCHANGED <<validated, tested>>,
         runs' = runs \/ runs' = [runs EXCEPT ![Here(s)] = @ + 1]
  PROVE  [Evidence!Next]_<<Read, Passed, Tested>>
<1>1. /\ runs \in [Pairs -> Nat] /\ Here(s) \in Pairs /\ runs[Here(s)] = 0
      /\ cand[s] \in Candidates /\ arg[s].part \in Partitions
  BY HereIsPair DEF SealedInv, TypeOK, PartitionTyped, Claims, Holding, Knows,
                    OnCandidate, SealedLabels
<1>2. UNCHANGED <<Passed, Tested>>
  BY DEF Passed, Tested
<1>3. CASE runs' = runs
  BY <1>2, <1>3 DEF Read
<1>4. CASE runs' = [runs EXCEPT ![Here(s)] = @ + 1]
  <2>1. Here(s) \notin Read /\ Read' = Read \union {Here(s)}
    BY <1>1, <1>4 DEF Read
  <2>2. Evidence!Read(cand[s], arg[s].part)
    BY <1>2, <2>1 DEF Evidence!Read, Read, Passed, Tested, Here
  <2>3. Evidence!Next
    BY <1>1, <2>2 DEF Evidence!Next, Evidence!Read
  <2>4. QED
    BY <2>3
<1>5. QED
  BY <1>3, <1>4

\* The holder of a claim commits on data it has read and nobody has judged.
LEMMA HolderUnjudged ==
  ASSUME SealedInv, NEW s \in Sessions, at[s] = "commit"
  PROVE  /\ cand[s] \in Candidates /\ arg[s].part \in Partitions /\ snap[s].spec \in Specs
         /\ <<cand[s], arg[s].part>> \in Read
         /\ Evidence!Unjudged(cand[s], arg[s].part)
<1>1. /\ cand[s] \in Candidates /\ arg[s].part \in Partitions /\ snap[s] \in Record
      /\ Here(s) \in Pairs /\ runs[Here(s)] = 1 /\ claim[Here(s)] = "RUNNING"
  BY HereIsPair DEF SealedInv, Claims, Holding, Knows, OnCandidate, SealedLabels
<1>2. \A v \in validated \union tested : <<v.cand, v.part>> # Here(s)
  BY <1>1 DEF SealedInv, Claims
<1>3. \A spec : /\ <<cand[s], arg[s].part, spec>> \notin Passed
                /\ <<cand[s], arg[s].part, spec>> \notin Tested
  BY <1>2 DEF Passed, Tested, Here
<1>4. Evidence!Unjudged(cand[s], arg[s].part)
  BY <1>3 DEF Evidence!Unjudged, Passed, Tested
<1>5. QED
  BY <1>1, <1>4 DEF Read, Here, Record

LEMMA CommitPasses ==
  ASSUME SealedInv, NEW s \in Sessions, CommitValidation(s)
  PROVE  [Evidence!Next]_<<Read, Passed, Tested>>
<1> DEFINE row == ResultRow(s)
<1>1. /\ at[s] = "commit" /\ validated' = validated \union {row}
      /\ UNCHANGED <<runs, tested>>
  BY DEF CommitValidation
<1>2. row.cand = cand[s] /\ row.part = arg[s].part /\ row.spec = snap[s].spec
  BY DEF ResultRow
<1> HIDE DEF row
<1>3. UNCHANGED <<Read, Tested>>
  BY <1>1 DEF Read, Tested
<1>4. CASE row.passed
  <2>1. Passed' = Passed \union {<<cand[s], arg[s].part, snap[s].spec>>}
    BY <1>1, <1>2, <1>4 DEF Passed
  <2>2. Evidence!Pass(cand[s], arg[s].part, snap[s].spec)
    BY <1>1, <1>3, <2>1, HolderUnjudged DEF Evidence!Pass, Read, Passed, Tested
  <2>3. Evidence!Next
    BY <1>1, <2>2, HolderUnjudged DEF Evidence!Next, Evidence!Pass, Evidence!Unjudged
  <2>4. QED
    BY <2>3
<1>5. CASE ~ row.passed
  <2>1. Passed' = Passed
    BY <1>1, <1>5 DEF Passed
  <2>2. QED
    BY <1>3, <2>1
<1>6. QED
  BY <1>4, <1>5

LEMMA CommitTests ==
  ASSUME SealedInv, NEW s \in Sessions, CommitFinal(s)
  PROVE  [Evidence!Next]_<<Read, Passed, Tested>>
<1> DEFINE row == [cand |-> cand[s], part |-> arg[s].part, spec |-> snap[s].spec]
<1>1. /\ at[s] = "commit" /\ arg[s].mode = "FINAL_TEST" /\ tested' = tested \union {row}
      /\ UNCHANGED <<runs, validated>>
  BY DEF CommitFinal
<1>2. row.cand = cand[s] /\ row.part = arg[s].part /\ row.spec = snap[s].spec
  OBVIOUS
<1> HIDE DEF row
<1>3. UNCHANGED <<Read, Passed>>
  BY <1>1 DEF Read, Passed
<1>4. Tested' = Tested \union {<<cand[s], arg[s].part, snap[s].spec>>}
  BY <1>1, <1>2 DEF Tested
<1>5. \E q \in Partitions : <<cand[s], q, snap[s].spec>> \in Passed
  <2>1. Backed(cand[s], snap[s].spec)
    BY <1>1 DEF SealedInv, SnapshotBacked
  <2>2. PICK v \in validated : v.cand = cand[s] /\ v.spec = snap[s].spec /\ v.passed
    BY <2>1 DEF Backed
  <2>3. v.part \in Partitions /\ <<v.cand, v.part, v.spec>> \in Passed
    BY <2>2 DEF Passed, SealedInv, TypeOK, PartitionTyped
  <2>4. QED
    BY <2>2, <2>3
<1>6. Evidence!Test(cand[s], arg[s].part, snap[s].spec)
  BY <1>1, <1>3, <1>4, <1>5, HolderUnjudged DEF Evidence!Test, Read, Passed, Tested
<1>7. Evidence!Next
  BY <1>1, <1>6, HolderUnjudged DEF Evidence!Next, Evidence!Test, Evidence!Unjudged
<1>8. QED
  BY <1>7

LEMMA EvidenceNext ==
  ASSUME SealedInv, [Next]_vars
  PROVE  [Evidence!Next]_<<Read, Passed, Tested>>
<1>1. ASSUME NEW s \in Sessions, Continue(s)
      PROVE  [Evidence!Next]_<<Read, Passed, Tested>>
  <2>1. CASE RunSealed(s)
    BY <2>1, RunReads DEF RunSealed
  <2>2. CASE SealedRunFails(s)
    <3>1. PICK n \in {0, 1} : runs' = [runs EXCEPT ![Here(s)] = @ + n]
      BY <2>2 DEF SealedRunFails
    <3>2. runs' = runs \/ runs' = [runs EXCEPT ![Here(s)] = @ + 1]
      <4>1. runs \in [Pairs -> Nat] /\ Here(s) \in Pairs
        BY <2>2, HereIsPair DEF SealedRunFails, SealedInv, TypeOK, PartitionTyped, Knows,
                                OnCandidate, SealedLabels
      <4>2. n = 0 => runs' = runs
        BY <3>1, <4>1
      <4>3. QED
        BY <3>1, <4>2
    <3>3. at[s] = "run" /\ UNCHANGED <<validated, tested>>
      BY <2>2 DEF SealedRunFails
    <3>4. QED
      BY <3>2, <3>3, RunReads
  <2>3. CASE CommitValidation(s)
    BY <2>3, CommitPasses
  <2>4. CASE CommitFinal(s)
    BY <2>4, CommitTests
  <2>5. CASE \/ CheckBinding(s) \/ InsertBinding(s) \/ CheckAuthorization(s)
             \/ InsertAuthorization(s) \/ Preflight(s) \/ Claim(s) \/ LedgerSealed(s)
             \/ ContaminateSealed(s) \/ AccessLedger(s) \/ AccessContaminate(s)
             \/ DenyLedger(s) \/ DenyContaminate(s)
    <3>1. UNCHANGED <<runs, validated, tested>>
      BY <2>5 DEF CheckBinding, InsertBinding, CheckAuthorization, InsertAuthorization,
         Preflight, Claim, LedgerSealed, ContaminateSealed, AccessLedger,
         AccessContaminate, DenyLedger, DenyContaminate, partTables
    <3>2. QED
      BY <3>1, EvidenceStutters
  <2>6. QED
    BY <1>1, <2>1, <2>2, <2>3, <2>4, <2>5 DEF Continue
<1>2. ASSUME NEW s \in Sessions, PartitionCall(s)
      PROVE  UNCHANGED <<runs, validated, tested>>
  BY <1>2 DEF PartitionCall, BindValidation, AuthorizeFinal, SealedExecute, Access,
              Warmup, partTables
<1>3. CASE Control \/ UNCHANGED vars
  BY <1>3, EvidenceStutters DEF Control, vars, partTables
<1>4. QED
  BY <1>1, <1>2, <1>3, EvidenceStutters DEF Next

\* Sealed execution under claims implements evidence as EvidencePipeline
\* promises it: read once, judged once, validated before tested.
THEOREM EvidenceImplemented == Spec => ImplementsEvidence
<1>1. PartitionInit => Evidence!Init
  BY EvidenceInit
<1>2. SealedInv /\ [Next]_vars => [Evidence!Next]_<<Read, Passed, Tested>>
  BY EvidenceNext
<1>3. Spec => Evidence!Init /\ [][Evidence!Next]_<<Read, Passed, Tested>>
  BY <1>1, <1>2, SealedInvariant, PTL DEF Spec
<1>4. QED
  BY <1>3, PTL DEF ImplementsEvidence, Evidence!Spec, Read, Passed, Tested

-----------------------------------------------------------------------------
(* One caller.  What the program promises of a sequence of calls that no    *)
(* other process interleaves with: the locals of the one session are the    *)
(* rows it read, until it writes them back.                                 *)

OneCaller == \A s, t \in Sessions : s = t

Open == {"EXPLORATORY", "PROMISING"}

\* The record the session carries, against the row it read it from.
Fresh(s) ==
  /\ at[s] = "insert" => snap[s].status = "EXPLORATORY"
  /\ at[s] = "updateJson" =>
       record[cand[s]].status \in Open /\ snap[s].status = record[cand[s]].status
  /\ at[s] = "request" => record[cand[s]].status = "FROZEN"
  /\ at[s] \in {"update", "usage", "reject", "commit"} => snap[s].spec = record[cand[s]].spec
  /\ at[s] = "update" =>
       \/ snap[s].status = "FROZEN" /\ record[cand[s]].status \in Open
       \/ snap[s].status = "VALIDATING" /\ record[cand[s]].status = "FROZEN"
  /\ at[s] \in {"usage", "reject"} =>
       snap[s].status = "REJECTED" /\ record[cand[s]].status \in {"FROZEN", "VALIDATING"}
  /\ at[s] \in {"preflight", "claim", "run"} => snap[s] = record[cand[s]]
  /\ at[s] \in {"claim", "run"} /\ arg[s].mode = "VALIDATION" => snap[s].status = "FROZEN"
  /\ at[s] = "commit" /\ arg[s].mode = "VALIDATION" =>
       snap[s].status \in {"VALIDATED", "REJECTED"} /\ record[cand[s]].status = "FROZEN"

FreshInv == SealedInv /\ \A s \in Sessions : Fresh(s)

\* Transactions between the preflight of an execution and its result, and
\* between the result and the record of its exposure.
Executing == {"claim", "run", "commit"}
Exposing(s, mode, c, p) ==
  at[s] \in {"ledger", "contaminate"} /\ arg[s].mode = mode /\ cand[s] = c /\ arg[s].part = p

OnceInv ==
  /\ SealedInv
  /\ \A v \in validated : \/ LineageContaminated(Lineage(v.cand), v.part)
                          \/ \E s \in Sessions : Exposing(s, "VALIDATION", v.cand, v.part)
  /\ \A t \in tested : \/ FinalPartitionExposed(t.part)
                       \/ \E s \in Sessions : Exposing(s, "FINAL_TEST", t.cand, t.part)
  /\ \A s \in Sessions : at[s] \in Executing =>
       /\ ~ LineageContaminated(Lineage(cand[s]), arg[s].part)
       /\ arg[s].mode = "FINAL_TEST" => ~ FinalPartitionExposed(arg[s].part)
  /\ LineageValidatesOnce
  /\ FinalPartitionUsedOnce

\* Labels at which Fresh says something.
Bound == {"insert", "updateJson", "request", "update", "usage", "reject", "commit", "preflight",
          "claim", "run"}

LEMMA FreshElsewhere ==
  ASSUME NEW s \in Sessions, at'[s] \notin Bound
  PROVE  Fresh(s)'
BY DEF Bound, Fresh

\* A call of ResearchControl begins with the row it has just read.
LEMMA ControlBeginsFresh ==
  ASSUME SealedInv, NEW s \in Sessions, NEW call, NEW l \in ControlLabels, NEW c \in Candidates,
         NEW r, Begin(s, call, l, c, r), UNCHANGED record,
         l = "insert" => r.status = "EXPLORATORY",
         l = "updateJson" => record[c].status \in Open /\ r.status = record[c].status,
         l = "request" => record[c].status = "FROZEN",
         l \in {"update", "usage"} => r.spec = record[c].spec,
         l = "update" => r.status = "FROZEN" /\ record[c].status \in Open,
         l = "usage" => r.status = "REJECTED" /\ record[c].status \in {"FROZEN", "VALIDATING"},
         l # "reject"
  PROVE  Fresh(s)'
<1>1. at'[s] = l /\ cand'[s] = c /\ snap'[s] = r
  BY DEF Begin, SealedInv, TypeOK, ControlTyped
<1>2. QED
  BY <1>1 DEF Fresh, ControlLabels

LEMMA ControlCallsFresh ==
  ASSUME SealedInv, NEW s \in Sessions,
         \/ \E b \in Lineages, spec \in Specs : CreateCandidate(s, b, spec)
         \/ \E c \in Candidates, spec \in Specs : NewCandidateVersion(s, c, spec)
         \/ \E c \in Candidates, ds \in SUBSET Datasets : FreezeCandidate(s, c, ds)
         \/ \E c \in Candidates, spec \in Specs : ModifyCandidate(s, c, spec)
         \/ \E c \in Candidates : RequestValidation(s, c)
         \/ \E c \in Candidates : ValidationFailed(s, c)
  PROVE  Fresh(s)'
<1>0. /\ record \in [Candidates -> Record \union {Absent}]
      /\ \A c \in Candidates : record[c].status # "ABSENT" => record[c] \in Record
      /\ {"insert", "update", "updateJson", "request", "usage"} \subseteq ControlLabels
  BY PresentIsRecord DEF SealedInv, TypeOK, ControlTyped, ControlLabels
<1>1. ASSUME NEW b \in Lineages, NEW v \in 1..MaxVersion, NEW spec \in Specs, NEW call,
             Begin(s, call, "insert", <<b, v>>, NewRecord(spec)), UNCHANGED tables
      PROVE  Fresh(s)'
  <2>1. <<b, v>> \in Candidates /\ NewRecord(spec).status = "EXPLORATORY"
    BY DEF Candidates, NewRecord
  <2>2. QED
    BY <1>0, <1>1, <2>1, ControlBeginsFresh DEF tables
<1>2. ASSUME NEW b \in Lineages, NEW spec \in Specs, CreateCandidate(s, b, spec) PROVE Fresh(s)'
  BY <1>1, <1>2 DEF CreateCandidate, NextVersion
<1>3. ASSUME NEW c \in Candidates, NEW spec \in Specs, NewCandidateVersion(s, c, spec) PROVE Fresh(s)'
  <2>1. Lineage(c) \in Lineages
    BY DEF Candidates, Lineage
  <2>2. QED
    BY <1>1, <1>3, <2>1 DEF NewCandidateVersion, NextVersion
<1>4. ASSUME NEW c \in Candidates, NEW ds \in SUBSET Datasets, FreezeCandidate(s, c, ds) PROVE Fresh(s)'
  <2> DEFINE r == [record[c] EXCEPT !.status = "FROZEN", !.designated = ds]
  <2>1. record[c].status \in Open /\ record[c] \in Record
    BY <1>0, <1>4 DEF FreezeCandidate, Modifiable, Open
  <2>2. r.status = "FROZEN" /\ r.spec = record[c].spec
    BY <2>1 DEF Record
  <2>3. Begin(s, "freeze", "update", c, r) /\ UNCHANGED record
    BY <1>4 DEF FreezeCandidate, tables
  <2> HIDE DEF r
  <2>4. QED
    BY <1>0, <2>1, <2>2, <2>3, ControlBeginsFresh
<1>5. ASSUME NEW c \in Candidates, NEW spec \in Specs, ModifyCandidate(s, c, spec) PROVE Fresh(s)'
  <2> DEFINE r == [record[c] EXCEPT !.spec = spec]
  <2>1. record[c].status \in Open /\ record[c] \in Record
    BY <1>0, <1>5 DEF ModifyCandidate, Modifiable, Open
  <2>2. r.status = record[c].status
    BY <2>1 DEF Record
  <2>3. Begin(s, "modify", "updateJson", c, r) /\ UNCHANGED record
    BY <1>5 DEF ModifyCandidate, tables
  <2> HIDE DEF r
  <2>4. QED
    BY <1>0, <2>1, <2>2, <2>3, ControlBeginsFresh
<1>6. ASSUME NEW c \in Candidates, RequestValidation(s, c) PROVE Fresh(s)'
  BY <1>0, <1>6, ControlBeginsFresh DEF RequestValidation, Eligible, tables
<1>7. ASSUME NEW c \in Candidates, ValidationFailed(s, c) PROVE Fresh(s)'
  <2> DEFINE r == [record[c] EXCEPT !.status = "REJECTED", !.validation = "FAILED"]
  <2>1. record[c].status \in {"FROZEN", "VALIDATING"} /\ record[c] \in Record
    BY <1>0, <1>7 DEF ValidationFailed
  <2>2. r.status = "REJECTED" /\ r.spec = record[c].spec
    BY <2>1 DEF Record
  <2>3. Begin(s, "fail", "usage", c, r) /\ UNCHANGED record
    BY <1>7 DEF ValidationFailed, tables
  <2> HIDE DEF r
  <2>4. QED
    BY <1>0, <2>1, <2>2, <2>3, ControlBeginsFresh
<1>8. QED
  BY <1>2, <1>3, <1>4, <1>5, <1>6, <1>7

LEMMA ReturnFresh ==
  ASSUME SealedInv, NEW s \in Sessions, Return(s)
  PROVE  Fresh(s)'
<1>1. at'[s] = "idle"
  BY DEF Return, SealedInv, TypeOK, ControlTyped
<1>2. QED
  BY <1>1, FreshElsewhere DEF Bound

LEMMA ControlKeepsFresh ==
  ASSUME OneCaller, FreshInv, NEW s \in Sessions, Control
  PROVE  Fresh(s)'
<1>0. SealedInv /\ Fresh(s) /\ ControlNext /\ \A t \in Sessions : t = s
  BY DEF FreshInv, Control, OneCaller
<1>1. CASE LoadRequested(s)
  <2>1. record[cand[s]].status = "FROZEN" /\ cand[s] \in Candidates /\ record[cand[s]] \in Record
    BY <1>0, <1>1 DEF LoadRequested, Fresh, SealedInv, ControlInv, LocalsKnown, OnRow
  <2>2. /\ at'[s] = "update" /\ cand'[s] = cand[s] /\ record' = record
        /\ snap'[s] = Requested(record[cand[s]])
    BY <1>0, <1>1 DEF LoadRequested, tables, SealedInv, TypeOK, ControlTyped
  <2>3. snap'[s].spec = record[cand[s]].spec /\ snap'[s].status = "VALIDATING"
    BY <2>1, <2>2 DEF Requested, Record
  <2>4. QED
    BY <2>1, <2>2, <2>3 DEF Fresh
<1>2. CASE RecordFailureUsage(s)
  <2>1. /\ at[s] = "usage" /\ at'[s] \in {"usage", "reject"}
        /\ cand'[s] = cand[s] /\ snap'[s] = snap[s] /\ record' = record
    BY <1>0, <1>2 DEF RecordFailureUsage, Goto, locals, SealedInv, TypeOK, ControlTyped
  <2>2. QED
    BY <1>0, <2>1 DEF Fresh
<1>3. CASE InsertCandidate(s) \/ UpdateCandidate(s) \/ UpdateCandidateJson(s) \/ RejectCandidate(s) \/ Crash(s)
  BY <1>0, <1>3, ReturnFresh DEF InsertCandidate, UpdateCandidate, UpdateCandidateJson, RejectCandidate, Crash
<1>4. ASSUME NEW d \in Datasets, RecordDiscoveryUsage(d) PROVE Fresh(s)'
  <2>1. UNCHANGED <<record, at, cand, snap>>
    BY <1>4 DEF RecordDiscoveryUsage, locals
  <2>2. at[s] \in {"claim", "run", "commit"} => arg'[s] = arg[s]
    BY <2>1 DEF Control
  <2>3. QED
    BY <1>0, <2>1, <2>2 DEF Fresh
<1>5. CASE ControlStep(s)
  BY <1>0, <1>1, <1>2, <1>3, <1>5, ControlCallsFresh DEF ControlStep
<1>6. QED
  BY <1>0, <1>3, <1>4, <1>5 DEF ControlNext

\* A call of PartitionService: the sealed methods begin with the candidate.
LEMMA PartitionCallFresh ==
  ASSUME SealedInv, NEW s \in Sessions, PartitionCall(s)
  PROVE  Fresh(s)'
<1>1. ASSUME NEW c, NEW p, NEW kind, SealedExecute(s, c, p, kind) PROVE Fresh(s)'
  <2>1. at'[s] = "preflight" /\ cand'[s] = c /\ snap'[s] = record[c] /\ record' = record
    BY <1>1, Begun DEF SealedExecute, tables
  <2>2. QED
    BY <2>1 DEF Fresh
<1>2. ASSUME NEW c, NEW p, BindValidation(s, c, p) PROVE Fresh(s)'
  BY <1>2, Begun, FreshElsewhere DEF BindValidation, Bound
<1>3. ASSUME NEW c, NEW p, NEW via, AuthorizeFinal(s, c, p, via) PROVE Fresh(s)'
  BY <1>3, Begun, FreshElsewhere DEF AuthorizeFinal, Bound
<1>4. ASSUME NEW c, NEW p, NEW mode, NEW op, Access(s, c, p, mode, op) PROVE Fresh(s)'
  <2>1. at'[s] \in {"accessLedger", "denyLedger"}
    BY <1>4, Begun DEF Access
  <2>2. QED
    BY <2>1, FreshElsewhere DEF Bound
<1>5. ASSUME NEW c, NEW p, NEW q, Warmup(s, c, p, q) PROVE Fresh(s)'
  BY <1>5, Begun, FreshElsewhere DEF Warmup, Bound
<1>6. QED
  BY <1>1, <1>2, <1>3, <1>4, <1>5 DEF PartitionCall

\* A session whose call is over, or goes on to a transaction l.
LEMMA Ends ==
  ASSUME SealedInv, NEW s \in Sessions, Finish(s)
  PROVE  at'[s] = "idle" /\ Fresh(s)'
<1>1. at'[s] = "idle"
  BY DEF Finish, Return, SealedInv, TypeOK, ControlTyped
<1>2. QED
  BY <1>1, FreshElsewhere DEF Bound

LEMMA ContinueKeepsFresh ==
  ASSUME FreshInv, NEW s \in Sessions, Continue(s)
  PROVE  Fresh(s)'
<1>0. SealedInv /\ Fresh(s) /\ Knows(s)
  BY DEF FreshInv, SealedInv
<1>1. ASSUME NEW l, Step(s, l), l \notin Bound PROVE Fresh(s)'
  BY <1>0, <1>1, Stepped, FreshElsewhere
<1>2. ASSUME Deny(s) PROVE Fresh(s)'
  BY <1>0, <1>1, <1>2, Ends DEF Deny, Bound
<1>3. CASE Preflight(s)
  <2>1. CASE PreflightPasses(s)
    <3>1. at'[s] = "claim" /\ cand'[s] = cand[s] /\ snap'[s] = snap[s] /\ arg'[s] = arg[s] /\ record' = record
      BY <1>0, <1>3, <2>1, Stepped DEF Preflight, tables
    <3>2. snap[s] = record[cand[s]] /\ (arg[s].mode = "VALIDATION" => snap[s].status = "FROZEN")
      BY <1>0, <1>3, <2>1 DEF Preflight, PreflightPasses, BoundAndFrozen, Fresh
    <3>3. QED
      BY <3>1, <3>2 DEF Fresh
  <2>2. QED
    BY <1>2, <1>3, <2>1 DEF Preflight
<1>4. CASE Claim(s)
  <2>1. CASE Unclaimed(Here(s))
    <3>1. /\ at[s] = "claim" /\ at'[s] = "run" /\ cand'[s] = cand[s] /\ snap'[s] = snap[s]
          /\ arg'[s] = arg[s] /\ record' = record
      BY <1>0, <1>4, <2>1, Stepped DEF Claim, tables
    <3>2. QED
      BY <1>0, <3>1 DEF Fresh
  <2>2. QED
    BY <1>2, <1>4, <2>1 DEF Claim
<1>5. CASE RunSealed(s)
  <2>1. /\ at[s] = "run" /\ at'[s] = "commit" /\ cand'[s] = cand[s] /\ arg'[s] = arg[s] /\ record' = record
        /\ arg[s].mode \in Kinds /\ snap[s] \in Record /\ snap[s] = record[cand[s]]
    BY <1>0, <1>5 DEF RunSealed, tables, Knows, OnCandidate, Fresh, SealedInv, TypeOK, ControlTyped
  <2>2. CASE arg[s].mode = "VALIDATION"
    <3>1. PICK passed \in BOOLEAN : snap' = [snap EXCEPT ![s] = Judged(snap[s], passed)]
      BY <1>5, <2>2 DEF RunSealed
    <3>2. snap'[s] = Judged(snap[s], passed)
      BY <1>0, <3>1 DEF SealedInv, TypeOK, ControlTyped
    <3>3. snap'[s].spec = snap[s].spec /\ snap'[s].status \in {"VALIDATED", "REJECTED"}
      BY <2>1, <3>2 DEF Judged, Record
    <3>4. snap[s].status = "FROZEN"
      BY <1>0, <2>1, <2>2 DEF Fresh
    <3>5. QED
      BY <2>1, <3>3, <3>4 DEF Fresh
  <2>3. CASE arg[s].mode # "VALIDATION"
    <3>1. snap' = snap
      BY <1>5, <2>3 DEF RunSealed
    <3>2. QED
      BY <2>1, <2>3, <3>1 DEF Fresh
  <2>4. QED
    BY <2>2, <2>3
<1>6. CASE SealedRunFails(s)
  BY <1>0, <1>2, <1>6, Ends DEF SealedRunFails
<1>7. CASE CheckBinding(s) \/ CheckAuthorization(s) \/ CommitValidation(s) \/ CommitFinal(s) \/ LedgerSealed(s)
  BY <1>0, <1>1, <1>7, Ends DEF CheckBinding, CheckAuthorization, CommitValidation, CommitFinal, LedgerSealed, Bound
<1>8. CASE \/ InsertBinding(s) \/ InsertAuthorization(s) \/ ContaminateSealed(s) \/ AccessContaminate(s)
           \/ DenyContaminate(s)
  BY <1>0, <1>8, Ends DEF InsertBinding, InsertAuthorization, ContaminateSealed, AccessContaminate, DenyContaminate
<1>9. CASE AccessLedger(s) \/ DenyLedger(s)
  BY <1>0, <1>1, <1>9, Ends DEF AccessLedger, DenyLedger, Bound
<1>10. QED
  BY <1>3, <1>4, <1>5, <1>6, <1>7, <1>8, <1>9 DEF Continue

LEMMA FreshStep == OneCaller /\ FreshInv /\ [Next]_vars => FreshInv'
<1> SUFFICES ASSUME OneCaller, FreshInv, [Next]_vars PROVE FreshInv'
  OBVIOUS
<1>0. SealedInv /\ SealedInv'
  BY SealedNext DEF FreshInv
<1>1. ASSUME NEW s \in Sessions PROVE Fresh(s)'
  <2>1. ASSUME NEW t \in Sessions, PartitionCall(t) \/ Continue(t) PROVE Fresh(s)'
    BY <1>0, <2>1, PartitionCallFresh, ContinueKeepsFresh DEF OneCaller
  <2>2. CASE UNCHANGED vars
    BY <2>2 DEF vars, controlVars, FreshInv, Fresh
  <2>3. QED
    BY <2>1, <2>2, ControlKeepsFresh DEF Next
<1>2. QED
  BY <1>0, <1>1 DEF FreshInv

\* What a step does to a candidate: its specification stays once it is
\* frozen, and its status goes forward.
Forward(c) ==
  /\ record[c].status \notin {"ABSENT", "EXPLORATORY", "PROMISING"} => record'[c].spec = record[c].spec
  /\ \/ record'[c].status = record[c].status
     \/ Rank[record'[c].status] > Rank[record[c].status]

LEMMA StatusForward ==
  /\ Rank["EXPLORATORY"] > Rank["ABSENT"]
  /\ \A status \in Open : Rank["FROZEN"] > Rank[status]
  /\ Rank["VALIDATING"] > Rank["FROZEN"]
  /\ \A status \in {"FROZEN", "VALIDATING"}, verdict \in {"VALIDATED", "REJECTED"} :
       Rank[verdict] > Rank[status]
BY DEF Rank, Open

\* One session writes the row of its candidate.
LEMMA WriteForward ==
  ASSUME FreshInv, NEW s \in Sessions, NEW c \in Candidates,
         record' = [record EXCEPT ![cand[s]] = snap[s]],
         \/ at[s] = "insert" /\ record[cand[s]] = Absent
         \/ at[s] \in {"update", "updateJson", "reject"}
         \/ at[s] = "commit" /\ arg[s].mode = "VALIDATION"
  PROVE  Forward(c)
<1>0. Fresh(s) /\ record \in [Candidates -> Record \union {Absent}]
  BY DEF FreshInv, SealedInv, TypeOK, ControlTyped
<1>1. CASE c # cand[s]
  BY <1>0, <1>1 DEF Forward
<1>2. CASE c = cand[s]
  <2>1. record'[c] = snap[s]
    BY <1>0, <1>2
  <2>2. CASE at[s] = "insert"
    BY <1>0, <1>2, <2>1, <2>2, StatusForward DEF Fresh, Forward, Absent
  <2>3. CASE at[s] = "updateJson"
    BY <1>0, <1>2, <2>1, <2>3 DEF Fresh, Forward, Open
  <2>4. CASE at[s] = "update"
    BY <1>0, <1>2, <2>1, <2>4, StatusForward DEF Fresh, Forward
  <2>5. CASE at[s] = "reject"
    BY <1>0, <1>2, <2>1, <2>5, StatusForward DEF Fresh, Forward
  <2>6. CASE at[s] = "commit"
    BY <1>0, <1>2, <2>1, <2>6, StatusForward DEF Fresh, Forward
  <2>7. QED
    BY <2>2, <2>3, <2>4, <2>5, <2>6
<1>3. QED
  BY <1>1, <1>2

LEMMA StepForward ==
  ASSUME FreshInv, [Next]_vars, NEW c \in Candidates
  PROVE  Forward(c)
<1>1. CASE record' = record
  BY <1>1 DEF Forward
<1>2. ASSUME NEW s \in Sessions,
             InsertCandidate(s) \/ UpdateCandidate(s) \/ UpdateCandidateJson(s) \/ RejectCandidate(s)
               \/ CommitValidation(s)
      PROVE  Forward(c)
  <2>1. CASE record' = record
    BY <1>1, <2>1
  <2>2. CASE record' # record
    <3>1. record' = [record EXCEPT ![cand[s]] = snap[s]]
      BY <1>2, <2>2 DEF InsertCandidate, UpdateCandidate, UpdateCandidateJson, RejectCandidate, CommitValidation
    <3>2. \/ at[s] = "insert" /\ record[cand[s]] = Absent
          \/ at[s] \in {"update", "updateJson", "reject"}
          \/ at[s] = "commit" /\ arg[s].mode = "VALIDATION"
      BY <1>2, <2>2 DEF InsertCandidate, Exists, UpdateCandidate, UpdateCandidateJson, RejectCandidate,
                        CommitValidation
    <3>3. QED
      BY <3>1, <3>2, WriteForward
  <2>3. QED
    BY <2>1, <2>2
<1>3. CASE Control
  <2>1. ASSUME NEW s \in Sessions, ControlStep(s)
        PROVE  \/ record' = record
               \/ InsertCandidate(s) \/ UpdateCandidate(s) \/ UpdateCandidateJson(s) \/ RejectCandidate(s)
    BY <2>1 DEF ControlStep, CreateCandidate, NewCandidateVersion, FreezeCandidate, ModifyCandidate,
                RequestValidation, ValidationFailed, LoadRequested, RecordFailureUsage, tables
  <2>2. ASSUME NEW s \in Sessions, Crash(s) PROVE record' = record
    BY <2>2 DEF Crash, tables
  <2>3. ASSUME NEW d \in Datasets, RecordDiscoveryUsage(d) PROVE record' = record
    BY <2>3 DEF RecordDiscoveryUsage
  <2>4. QED
    BY <1>1, <1>2, <1>3, <2>1, <2>2, <2>3 DEF Control, ControlNext
<1>4. ASSUME NEW s \in Sessions, PartitionCall(s) PROVE record' = record
  BY <1>4 DEF PartitionCall, BindValidation, AuthorizeFinal, SealedExecute, Access, Warmup, tables
<1>5. ASSUME NEW s \in Sessions, Continue(s) PROVE record' = record \/ CommitValidation(s)
  BY <1>5 DEF Continue, CheckBinding, InsertBinding, CheckAuthorization, InsertAuthorization, Preflight, Claim,
     RunSealed, SealedRunFails, CommitFinal, LedgerSealed, ContaminateSealed, AccessLedger, AccessContaminate,
     DenyLedger, DenyContaminate, tables
<1>6. CASE UNCHANGED vars
  BY <1>1, <1>6 DEF vars, controlVars
<1>7. QED
  BY <1>1, <1>2, <1>3, <1>4, <1>5, <1>6 DEF Next

\* The inductive invariant of one caller, who may stop anywhere.
THEOREM FreshInvariant == OneCaller => (Spec => []FreshInv)
<1> SUFFICES ASSUME OneCaller PROVE Spec => []FreshInv
  OBVIOUS
<1>1. PartitionInit => FreshInv
  <2> SUFFICES ASSUME PartitionInit PROVE FreshInv
    OBVIOUS
  <2>1. \A s \in Sessions : at[s] = "idle"
    BY DEF PartitionInit, Init
  <2>2. QED
    BY <2>1, SealedInit DEF FreshInv, Fresh
<1>2. FreshInv /\ [Next]_vars => FreshInv'
  BY FreshStep
<1>3. QED
  BY <1>1, <1>2, PTL DEF Spec

\* The specification of a candidate that is frozen is never written again by
\* one caller, whatever it calls and wherever it stops: modify_candidate
\* refuses, and every other method writes back the specification it read.
THEOREM FrozenSpecImmutableHolds == OneCaller => (Spec => FrozenSpecImmutable)
<1>1. FreshInv /\ [Next]_vars =>
        [\A c \in Candidates :
           record[c].status \notin {"ABSENT", "EXPLORATORY", "PROMISING"} =>
             record'[c].spec = record[c].spec]_controlVars
  BY StepForward DEF Forward
<1>2. QED
  BY <1>1, FreshInvariant, PTL DEF Spec, FrozenSpecImmutable

\* A candidate of one caller never goes back in its lifecycle, and a verdict
\* is never exchanged for the other.
THEOREM LifecycleForwardHolds == OneCaller => (Spec => LifecycleForward)
<1>1. FreshInv /\ [Next]_vars =>
        [\A c \in Candidates :
           \/ record'[c].status = record[c].status
           \/ Rank[record'[c].status] > Rank[record[c].status]]_controlVars
  BY StepForward DEF Forward
<1>2. QED
  BY <1>1, FreshInvariant, PTL DEF Spec, LifecycleForward

-----------------------------------------------------------------------------
(* One caller that is not stopped: the exposure of a partition is recorded  *)
(* before the next call looks for it.                                       *)

\* Rows of contamination are never deleted.
LEMMA ExposureStays ==
  ASSUME contamination \subseteq contamination'
  PROVE  /\ \A l, p : LineageContaminated(l, p) => LineageContaminated(l, p)'
         /\ \A p : FinalPartitionExposed(p) => FinalPartitionExposed(p)'
BY DEF LineageContaminated, FinalPartitionExposed

\* A step that stores no result, and leaves what is being exposed to the
\* session that exposes it.
LEMMA OnceKept ==
  ASSUME OneCaller, OnceInv, SealedInv', NEW s \in Sessions, UNCHANGED <<validated, tested>>,
         contamination \subseteq contamination',
         at[s] \in {"ledger", "contaminate"} =>
           at'[s] \in {"ledger", "contaminate"} /\ cand'[s] = cand[s] /\ arg'[s] = arg[s],
         at'[s] \in Executing =>
           /\ at[s] \in Executing /\ cand'[s] = cand[s] /\ arg'[s] = arg[s]
           /\ contamination' = contamination
  PROVE  OnceInv'
<1>1. \A v \in validated : \/ LineageContaminated(Lineage(v.cand), v.part)'
                           \/ (\E t \in Sessions : Exposing(t, "VALIDATION", v.cand, v.part))'
  BY ExposureStays DEF OnceInv, OneCaller, Exposing
<1>2. \A u \in tested : \/ FinalPartitionExposed(u.part)'
                        \/ (\E t \in Sessions : Exposing(t, "FINAL_TEST", u.cand, u.part))'
  BY ExposureStays DEF OnceInv, OneCaller, Exposing
<1>3. (\A t \in Sessions : at[t] \in Executing =>
        /\ ~ LineageContaminated(Lineage(cand[t]), arg[t].part)
        /\ arg[t].mode = "FINAL_TEST" => ~ FinalPartitionExposed(arg[t].part))'
  BY DEF OnceInv, OneCaller, LineageContaminated, FinalPartitionExposed
<1>4. LineageValidatesOnce' /\ FinalPartitionUsedOnce'
  BY DEF OnceInv, LineageValidatesOnce, FinalPartitionUsedOnce
<1>5. (\A v \in validated : \/ LineageContaminated(Lineage(v.cand), v.part)
                            \/ \E t \in Sessions : Exposing(t, "VALIDATION", v.cand, v.part))'
  BY <1>1
<1>6. (\A u \in tested : \/ FinalPartitionExposed(u.part)
                         \/ \E t \in Sessions : Exposing(t, "FINAL_TEST", u.cand, u.part))'
  BY <1>2
<1>7. QED
  BY <1>3, <1>4, <1>5, <1>6 DEF OnceInv

\* The call of a session that records nothing returns, or goes on to a
\* transaction l that executes nothing.
LEMMA OnceMoves ==
  ASSUME OneCaller, OnceInv, SealedInv', NEW s \in Sessions, UNCHANGED <<validated, tested>>,
         contamination \subseteq contamination', at[s] \notin {"ledger", "contaminate"},
         at'[s] \notin Executing
  PROVE  OnceInv'
BY OnceKept

LEMMA OnceControl ==
  ASSUME OneCaller, ~Crashes, OnceInv, SealedInv', Control
  PROVE  OnceInv'
<1>0. SealedInv /\ UNCHANGED <<validated, tested, contamination>> /\ ControlNext
      /\ \A t \in Sessions : at'[t] # "idle" => arg'[t] = arg[t]
  BY DEF OnceInv, Control, partTables
<1>1. ASSUME NEW s \in Sessions, at[s] \in ControlLabels, at'[s] \in ControlLabels PROVE OnceInv'
  BY <1>0, <1>1, OnceMoves DEF ControlLabels, Executing
<1>2. ASSUME NEW s \in Sessions, NEW call, NEW l \in ControlLabels, NEW c, NEW r, Begin(s, call, l, c, r)
      PROVE  OnceInv'
  <2>1. at[s] = "idle" /\ at'[s] = l
    BY <1>0, <1>2 DEF Begin, SealedInv, TypeOK, ControlTyped
  <2>2. QED
    BY <1>1, <2>1 DEF ControlLabels
<1>3. ASSUME NEW s \in Sessions, Return(s), at[s] \in ControlLabels PROVE OnceInv'
  <2>1. at'[s] = "idle"
    BY <1>0, <1>3 DEF Return, SealedInv, TypeOK, ControlTyped
  <2>2. QED
    BY <1>1, <1>3, <2>1 DEF ControlLabels
<1>4. ASSUME NEW s \in Sessions, ControlStep(s) PROVE OnceInv'
  <2>1. CASE LoadRequested(s) \/ RecordFailureUsage(s)
    <3>1. at[s] \in {"request", "usage"} /\ at'[s] \in {"update", "usage", "reject"}
      BY <1>0, <2>1 DEF LoadRequested, RecordFailureUsage, Goto, locals, SealedInv, TypeOK, ControlTyped
    <3>2. QED
      BY <1>1, <3>1 DEF ControlLabels
  <2>2. CASE InsertCandidate(s) \/ UpdateCandidate(s) \/ UpdateCandidateJson(s) \/ RejectCandidate(s)
    BY <1>3, <2>2 DEF InsertCandidate, UpdateCandidate, UpdateCandidateJson, RejectCandidate, ControlLabels
  <2>3. CASE \/ \E b \in Lineages, spec \in Specs : CreateCandidate(s, b, spec)
             \/ \E c \in Candidates, spec \in Specs : NewCandidateVersion(s, c, spec)
    BY <1>2, <2>3 DEF CreateCandidate, NewCandidateVersion, ControlLabels
  <2>4. CASE \/ \E c \in Candidates, ds \in SUBSET Datasets : FreezeCandidate(s, c, ds)
             \/ \E c \in Candidates, spec \in Specs : ModifyCandidate(s, c, spec)
             \/ \E c \in Candidates : RequestValidation(s, c)
             \/ \E c \in Candidates : ValidationFailed(s, c)
    <3>1. \E call, c, r : \E l \in {"update", "updateJson", "request", "usage"} : Begin(s, call, l, c, r)
      BY <2>4 DEF FreezeCandidate, ModifyCandidate, RequestValidation, ValidationFailed
    <3>2. QED
      BY <1>2, <3>1 DEF ControlLabels
  <2>5. QED
    BY <1>4, <2>1, <2>2, <2>3, <2>4 DEF ControlStep
<1>5. ASSUME NEW d \in Datasets, RecordDiscoveryUsage(d) PROVE OnceInv'
  <2>1. UNCHANGED <<at, cand>>
    BY <1>5 DEF RecordDiscoveryUsage, locals
  <2>2. CASE \E s \in Sessions : TRUE
    <3>1. PICK s \in Sessions : TRUE
      BY <2>2
    <3>2. at'[s] \in {"ledger", "contaminate"} \cup Executing => arg'[s] = arg[s]
      BY <1>0 DEF Executing
    <3>3. QED
      BY <1>0, <2>1, <3>2, OnceKept
  <2>3. CASE Sessions = {}
    BY <1>0, <2>3 DEF OnceInv, LineageContaminated, FinalPartitionExposed, LineageValidatesOnce,
                      FinalPartitionUsedOnce
  <2>4. QED
    BY <2>2, <2>3
<1>6. QED
  BY <1>0, <1>4, <1>5 DEF ControlNext, Crash

LEMMA OnceCalls ==
  ASSUME OneCaller, OnceInv, SealedInv', NEW s \in Sessions, PartitionCall(s)
  PROVE  OnceInv'
<1>0. SealedInv /\ UNCHANGED <<validated, tested, contamination>>
  BY DEF OnceInv, PartitionCall, BindValidation, AuthorizeFinal, SealedExecute, Access, Warmup, partTables
<1>1. ASSUME NEW call, NEW l, NEW c, NEW r, NEW a, BeginCall(s, call, l, c, r, a),
             l \in {"bindCheck", "authCheck", "preflight", "accessLedger", "denyLedger"}
      PROVE  OnceInv'
  <2>1. at[s] = "idle" /\ at'[s] = l
    BY <1>0, <1>1, Begun DEF BeginCall, Begin
  <2>2. QED
    BY <1>0, <1>1, <2>1, OnceMoves DEF Executing
<1>2. ASSUME NEW c, NEW p, BindValidation(s, c, p) PROVE OnceInv'
  BY <1>1, <1>2 DEF BindValidation
<1>3. ASSUME NEW c, NEW p, NEW via, AuthorizeFinal(s, c, p, via) PROVE OnceInv'
  BY <1>1, <1>3 DEF AuthorizeFinal
<1>4. ASSUME NEW c, NEW p, NEW kind, SealedExecute(s, c, p, kind) PROVE OnceInv'
  BY <1>1, <1>4 DEF SealedExecute
<1>5. ASSUME NEW c, NEW p, NEW mode, NEW op, Access(s, c, p, mode, op) PROVE OnceInv'
  BY <1>1, <1>5 DEF Access
<1>6. ASSUME NEW c, NEW p, NEW q, Warmup(s, c, p, q) PROVE OnceInv'
  BY <1>1, <1>6 DEF Warmup
<1>7. QED
  BY <1>2, <1>3, <1>4, <1>5, <1>6 DEF PartitionCall

\* A result is stored where nothing of its lineage, or no final test, was: a
\* result that is there already would have been exposed, or be in the hands
\* of this session.
LEMMA OnceCommits ==
  ASSUME OneCaller, OnceInv, SealedInv', NEW s \in Sessions, CommitValidation(s) \/ CommitFinal(s)
  PROVE  OnceInv'
<1>0. SealedInv /\ at[s] = "commit" /\ Step(s, "ledger") /\ contamination' = contamination /\ \A t \in Sessions : t = s
  BY DEF OnceInv, CommitValidation, CommitFinal, OneCaller
<1>1. at'[s] = "ledger" /\ cand'[s] = cand[s] /\ arg'[s] = arg[s]
  BY <1>0, Stepped
<1>2. /\ \A v \in validated : LineageContaminated(Lineage(v.cand), v.part)
      /\ \A t \in tested : FinalPartitionExposed(t.part)
      /\ ~ LineageContaminated(Lineage(cand[s]), arg[s].part)
      /\ arg[s].mode = "FINAL_TEST" => ~ FinalPartitionExposed(arg[s].part)
  BY <1>0 DEF OnceInv, Exposing, Executing
<1>3. (\A t \in Sessions : at[t] \in Executing =>
        /\ ~ LineageContaminated(Lineage(cand[t]), arg[t].part)
        /\ arg[t].mode = "FINAL_TEST" => ~ FinalPartitionExposed(arg[t].part))'
  BY <1>0, <1>1 DEF Executing
<1>4. /\ \A v \in validated : LineageContaminated(Lineage(v.cand), v.part)'
      /\ \A t \in tested : FinalPartitionExposed(t.part)'
  BY <1>0, <1>2, ExposureStays
<1>5. CASE CommitValidation(s)
  <2>0. PICK row : row = ResultRow(s)
    OBVIOUS
  <2>1. row.cand = cand[s] /\ row.part = arg[s].part
    BY <2>0 DEF ResultRow
  <2>2. validated' = validated \cup {row} /\ tested' = tested /\ arg[s].mode = "VALIDATION"
    BY <1>5, <2>0 DEF CommitValidation
  <2>3. Exposing(s, "VALIDATION", row.cand, row.part)'
    BY <1>1, <2>1, <2>2 DEF Exposing
  <2>4. (\A v \in validated : \/ LineageContaminated(Lineage(v.cand), v.part)
                              \/ \E t \in Sessions : Exposing(t, "VALIDATION", v.cand, v.part))'
    BY <1>4, <2>2, <2>3
  <2>5. LineageValidatesOnce'
    BY <1>2, <2>1, <2>2 DEF OnceInv, LineageValidatesOnce
  <2>6. QED
    BY <1>3, <1>4, <2>2, <2>4, <2>5 DEF OnceInv, FinalPartitionUsedOnce
<1>6. CASE CommitFinal(s)
  <2>0. PICK row : row = [cand |-> cand[s], part |-> arg[s].part, spec |-> snap[s].spec]
    OBVIOUS
  <2>1. row.cand = cand[s] /\ row.part = arg[s].part
    BY <2>0
  <2>2. tested' = tested \cup {row} /\ validated' = validated /\ arg[s].mode = "FINAL_TEST"
    BY <1>6, <2>0 DEF CommitFinal
  <2>3. Exposing(s, "FINAL_TEST", row.cand, row.part)'
    BY <1>1, <2>1, <2>2 DEF Exposing
  <2>4. (\A u \in tested : \/ FinalPartitionExposed(u.part)
                           \/ \E t \in Sessions : Exposing(t, "FINAL_TEST", u.cand, u.part))'
    BY <1>4, <2>2, <2>3
  <2>5. FinalPartitionUsedOnce'
    BY <1>2, <2>1, <2>2 DEF OnceInv, FinalPartitionUsedOnce
  <2>6. QED
    BY <1>3, <1>4, <2>2, <2>4, <2>5 DEF OnceInv, LineageValidatesOnce
<1>7. QED
  BY <1>5, <1>6

\* What the session was exposing is recorded when its call returns.
LEMMA OnceExposes ==
  ASSUME OneCaller, OnceInv, SealedInv', NEW s \in Sessions, ContaminateSealed(s)
  PROVE  OnceInv'
<1> DEFINE kind == IF arg[s].mode = "FINAL_TEST" THEN "FINAL_TEST_EXPOSURE" ELSE "VALIDATION_EXPOSURE"
           row == ContaminationRow(s, kind)
<1>0. /\ SealedInv /\ Knows(s) /\ at[s] = "contaminate" /\ UNCHANGED <<validated, tested>>
      /\ contamination' = contamination \cup {row} /\ \A t \in Sessions : t = s
  BY DEF OnceInv, SealedInv, ContaminateSealed, OneCaller
<1>1. at'[s] = "idle"
  BY <1>0, Ends DEF ContaminateSealed
<1>2. row.part = arg[s].part /\ row.lineage = Lineage(cand[s]) /\ row.kind = kind
  <2>1. cand[s] \in Candidates /\ record[cand[s]] \in Record
    BY <1>0 DEF Knows, OnCandidate
  <2>2. LineageOf(cand[s]) = Lineage(cand[s])
    BY <2>1, AbsentNotRecord, ControlAssumption DEF LineageOf, Exists
  <2>3. QED
    BY <2>2 DEF ContaminationRow
<1> HIDE DEF row
<1>3. \A v \in validated : LineageContaminated(Lineage(v.cand), v.part)'
  <2>1. SUFFICES ASSUME NEW v \in validated PROVE LineageContaminated(Lineage(v.cand), v.part)'
    OBVIOUS
  <2>2. CASE LineageContaminated(Lineage(v.cand), v.part)
    BY <1>0, <2>2, ExposureStays
  <2>3. CASE Exposing(s, "VALIDATION", v.cand, v.part)
    <3>1. row \in contamination' /\ row.lineage = Lineage(v.cand) /\ row.part = v.part /\ row.kind = "VALIDATION_EXPOSURE"
      BY <1>0, <1>2, <2>3 DEF Exposing
    <3>2. QED
      BY <3>1 DEF LineageContaminated
  <2>4. QED
    BY <1>0, <2>2, <2>3 DEF OnceInv
<1>4. \A u \in tested : FinalPartitionExposed(u.part)'
  <2>1. SUFFICES ASSUME NEW u \in tested PROVE FinalPartitionExposed(u.part)'
    OBVIOUS
  <2>2. CASE FinalPartitionExposed(u.part)
    BY <1>0, <2>2, ExposureStays
  <2>3. CASE Exposing(s, "FINAL_TEST", u.cand, u.part)
    <3>1. row \in contamination' /\ row.part = u.part /\ row.kind = "FINAL_TEST_EXPOSURE"
      BY <1>0, <1>2, <2>3 DEF Exposing
    <3>2. QED
      BY <3>1 DEF FinalPartitionExposed
  <2>4. QED
    BY <1>0, <2>2, <2>3 DEF OnceInv
<1>5. (\A v \in validated : \/ LineageContaminated(Lineage(v.cand), v.part)
                            \/ \E t \in Sessions : Exposing(t, "VALIDATION", v.cand, v.part))'
  BY <1>0, <1>3
<1>6. (\A u \in tested : \/ FinalPartitionExposed(u.part)
                         \/ \E t \in Sessions : Exposing(t, "FINAL_TEST", u.cand, u.part))'
  BY <1>0, <1>4
<1>7. (\A t \in Sessions : at[t] \in Executing =>
        /\ ~ LineageContaminated(Lineage(cand[t]), arg[t].part)
        /\ arg[t].mode = "FINAL_TEST" => ~ FinalPartitionExposed(arg[t].part))'
  BY <1>0, <1>1 DEF Executing
<1>8. QED
  BY <1>0, <1>5, <1>6, <1>7 DEF OnceInv, LineageValidatesOnce, FinalPartitionUsedOnce

LEMMA OnceContinues ==
  ASSUME OneCaller, OnceInv, SealedInv', NEW s \in Sessions, Continue(s)
  PROVE  OnceInv'
<1>0. SealedInv
  BY DEF OnceInv
<1>1. ASSUME UNCHANGED <<validated, tested>>, contamination \subseteq contamination',
             at[s] \notin {"ledger", "contaminate"},
             Finish(s) \/ (\E l : Step(s, l) /\ l \notin Executing)
      PROVE  OnceInv'
  BY <1>0, <1>1, Ends, Stepped, OnceMoves DEF Executing
<1>2. ASSUME Deny(s) PROVE Finish(s) \/ (\E l : Step(s, l) /\ l \notin Executing)
  BY <1>2 DEF Deny, Executing
<1>3. CASE Preflight(s) /\ PreflightPasses(s)
  <2>1. /\ at[s] = "preflight" /\ at'[s] = "claim" /\ cand'[s] = cand[s] /\ arg'[s] = arg[s]
        /\ UNCHANGED <<validated, tested, contamination>> /\ \A t \in Sessions : t = s
    BY <1>0, <1>3, Stepped DEF Preflight, partTables, OneCaller
  <2>2. (\A t \in Sessions : at[t] \in Executing =>
          /\ ~ LineageContaminated(Lineage(cand[t]), arg[t].part)
          /\ arg[t].mode = "FINAL_TEST" => ~ FinalPartitionExposed(arg[t].part))'
    BY <1>3, <2>1 DEF PreflightPasses, LineageContaminated, FinalPartitionExposed
  <2>3. /\ \A v \in validated : LineageContaminated(Lineage(v.cand), v.part)'
        /\ \A u \in tested : FinalPartitionExposed(u.part)'
    BY <2>1 DEF OnceInv, Exposing, LineageContaminated, FinalPartitionExposed
  <2>4. QED
    BY <2>1, <2>2, <2>3 DEF OnceInv, LineageValidatesOnce, FinalPartitionUsedOnce
<1>4. CASE Preflight(s) /\ ~PreflightPasses(s)
  BY <1>1, <1>2, <1>4 DEF Preflight, partTables
<1>5. CASE Claim(s)
  <2>1. CASE Unclaimed(Here(s))
    <3>1. /\ at[s] = "claim" /\ at'[s] = "run" /\ cand'[s] = cand[s] /\ arg'[s] = arg[s]
          /\ UNCHANGED <<validated, tested, contamination>>
      BY <1>0, <1>5, <2>1, Stepped DEF Claim
    <3>2. QED
      BY <3>1, OnceKept DEF Executing
  <2>2. QED
    BY <1>1, <1>2, <1>5, <2>1 DEF Claim
<1>6. CASE RunSealed(s)
  <2>1. /\ at[s] = "run" /\ at'[s] = "commit" /\ cand'[s] = cand[s] /\ arg'[s] = arg[s]
        /\ UNCHANGED <<validated, tested, contamination>>
    BY <1>0, <1>6 DEF RunSealed, SealedInv, TypeOK, ControlTyped
  <2>2. QED
    BY <2>1, OnceKept DEF Executing
<1>7. CASE SealedRunFails(s)
  BY <1>1, <1>2, <1>7 DEF SealedRunFails
<1>8. CASE LedgerSealed(s)
  <2>1. /\ at[s] = "ledger" /\ at'[s] = "contaminate" /\ cand'[s] = cand[s] /\ arg'[s] = arg[s]
        /\ UNCHANGED <<validated, tested, contamination>>
    BY <1>0, <1>8, Stepped DEF LedgerSealed
  <2>2. QED
    BY <2>1, OnceKept DEF Executing
<1>9. CASE CheckBinding(s) \/ InsertBinding(s) \/ CheckAuthorization(s) \/ InsertAuthorization(s)
  <2>1. UNCHANGED <<validated, tested, contamination>> /\ at[s] \notin {"ledger", "contaminate"}
    BY <1>9 DEF CheckBinding, InsertBinding, CheckAuthorization, InsertAuthorization, partTables
  <2>2. Finish(s) \/ (\E l : Step(s, l) /\ l \notin Executing)
    BY <1>9 DEF CheckBinding, InsertBinding, CheckAuthorization, InsertAuthorization, Executing
  <2>3. QED
    BY <1>1, <2>1, <2>2
<1>10. CASE AccessLedger(s) \/ AccessContaminate(s) \/ DenyLedger(s) \/ DenyContaminate(s)
  <2>1. /\ UNCHANGED <<validated, tested>> /\ contamination \subseteq contamination'
        /\ at[s] \notin {"ledger", "contaminate"}
    BY <1>10 DEF AccessLedger, AccessContaminate, DenyLedger, DenyContaminate
  <2>2. Finish(s) \/ (\E l : Step(s, l) /\ l \notin Executing)
    BY <1>10 DEF AccessLedger, AccessContaminate, DenyLedger, DenyContaminate, Executing
  <2>3. QED
    BY <1>1, <2>1, <2>2
<1>11. QED
  BY <1>3, <1>4, <1>5, <1>6, <1>7, <1>8, <1>9, <1>10, OnceCommits, OnceExposes DEF Continue

LEMMA OnceStep == OneCaller /\ ~Crashes /\ OnceInv /\ [Next]_vars => OnceInv'
<1> SUFFICES ASSUME OneCaller, ~Crashes, OnceInv, [Next]_vars PROVE OnceInv'
  OBVIOUS
<1>1. SealedInv'
  BY SealedNext DEF OnceInv
<1>2. CASE UNCHANGED vars
  <2>1. UNCHANGED <<validated, tested, contamination, at, cand, arg>>
    BY <1>2 DEF vars, controlVars, partTables
  <2>2. QED
    BY <1>1, <2>1 DEF OnceInv, LineageContaminated, FinalPartitionExposed, Exposing, LineageValidatesOnce,
                      FinalPartitionUsedOnce
<1>3. QED
  BY <1>1, <1>2, OnceControl, OnceCalls, OnceContinues DEF Next

\* The inductive invariant of one caller that is not stopped.
THEOREM OnceInvariant == OneCaller /\ ~Crashes => (Spec => []OnceInv)
<1> SUFFICES ASSUME OneCaller, ~Crashes PROVE Spec => []OnceInv
  OBVIOUS
<1>1. PartitionInit => OnceInv
  <2> SUFFICES ASSUME PartitionInit PROVE OnceInv
    OBVIOUS
  <2>1. \A s \in Sessions : at[s] = "idle"
    BY DEF PartitionInit, Init
  <2>2. validated = {} /\ tested = {}
    BY DEF PartitionInit
  <2>3. QED
    BY <2>1, <2>2, SealedInit DEF OnceInv, Executing, LineageValidatesOnce, FinalPartitionUsedOnce
<1>2. OnceInv /\ [Next]_vars => OnceInv'
  BY OnceStep
<1>3. QED
  BY <1>1, <1>2, PTL DEF Spec

\* One sealed validation per lineage and partition: _sealed_preflight finds
\* what sealed_validation_execute stored exposed to every later version.
THEOREM LineageValidatesOnceHolds == OneCaller /\ ~Crashes => (Spec => []LineageValidatesOnce)
<1>1. OnceInv => LineageValidatesOnce
  BY DEF OnceInv
<1>2. QED
  BY <1>1, OnceInvariant, PTL

\* One sealed final test of a partition in the whole program.
THEOREM FinalPartitionUsedOnceHolds == OneCaller /\ ~Crashes => (Spec => []FinalPartitionUsedOnce)
<1>1. OnceInv => FinalPartitionUsedOnce
  BY DEF OnceInv
<1>2. QED
  BY <1>1, OnceInvariant, PTL
=============================================================================
