------------------------ MODULE ObservationStoresProofs ------------------------
(***************************************************************************)
(* Theorems about the stores of observations.  RawStore: for any histories *)
(* of the terminal, any months, and any number of downloads that fail or   *)
(* crash between any two steps.  ExternalImport: for any sources and       *)
(* contents, any number of processes, and any number of edits, failures    *)
(* and killed processes.                                                   *)
(***************************************************************************)
EXTENDS RawStore, ExternalImport, FiniteSetTheorems, TLAPS

-----------------------------------------------------------------------------
(* RawStore *)

Tables == SUBSET RawRows
Receipts == [previous : Tables \cup {NoFile}, checksum : Tables]
MonthSteps == {"lookup", "merge", "keep", "receipt", "replace", "sidecar", "upsert", "unlink"}

StoreTyped ==
  /\ file \in [Months -> Tables \cup {NoFile}]
  /\ sidecar = [m \in Months |-> sidecar[m]]
  /\ receipt \in [Months -> Receipts \cup {NoFile}]
  /\ row \in [Months -> Tables \cup {NoFile}]
  /\ revisions \in [Months -> SUBSET Tables]
  /\ kept \in [Months -> SUBSET Tables]

Answering(w) ==
  /\ w.pc = "rates" /\ w.frame \in Tables
  /\ w = [pc |-> w.pc, chunks |-> w.chunks, attempt |-> w.attempt, frame |-> w.frame]

Storing(w) ==
  /\ w.pc \in MonthSteps \cup {"begin"} /\ w.frame \in Tables
  /\ w = Writing(w.pc, w.todo, w.frame)

WriterTyped == writer = Idle \/ Answering(writer) \/ Storing(writer)

\* Whatever is registered is on record as a revision.
RowOnRecord == \A m \in Months : row[m] # NoFile => row[m] \in revisions[m]

\* The canonical file of a month has one value for a minute.
CanonicalConsistent == \A m \in Months : Conflicts(OnDisk(m)) = {}

\* What the writer has established for the month it is at.
WriterKnows ==
  \A m \in Months : m = Current =>
    /\ writer.pc \in {"merge", "keep", "receipt", "replace"} => row[m] \in {NoFile, file[m]}
    /\ writer.pc \in {"keep", "receipt", "replace"} => Conflicts(Merged(m)) = {}
    /\ writer.pc \in {"receipt", "replace"} => {file[m]} \ {NoFile} \subseteq kept[m]
    /\ writer.pc = "replace" => receipt[m] = [previous |-> file[m], checksum |-> Merged(m)]
    /\ writer.pc \in {"sidecar", "upsert"} => file[m] = Merged(m)
    /\ writer.pc \in {"upsert", "unlink"} => sidecar[m] = Describe(file[m])
    /\ writer.pc = "unlink" => row[m] = file[m] /\ file[m] # NoFile

RawSafe ==
  /\ RegisteredRecoverable /\ MonthSettled /\ EveryRevisionKept
  /\ RowOnRecord /\ CanonicalConsistent

RawInv ==
  /\ StoreTyped /\ WriterTyped /\ RawSafe
  /\ writer.pc \in MonthSteps => WriterKnows

-----------------------------------------------------------------------------
(* Lemmas. *)

LEMMA NoFileIsNoTable ==
  /\ \A table \in Tables : table # NoFile
  /\ NoFile \notin Receipts
BY NoFileAssumption DEF Tables, Receipts

LEMMA MergedIsTable ==
  ASSUME StoreTyped, writer.frame \in Tables, NEW m \in Months
  PROVE  Merged(m) \in Tables /\ OnDisk(m) \in Tables
BY DEF StoreTyped, Merged, OnDisk, InMonth, Tables

\* A step that leaves the files and the catalog alone.
LEMMA StoreStands ==
  ASSUME RawInv, UNCHANGED <<file, sidecar, receipt, kept, row, revisions>>
  PROVE  StoreTyped' /\ RawSafe'
  <1>1. StoreTyped'
    BY DEF RawInv, StoreTyped
  <1>2. RegisteredRecoverable' /\ MonthSettled'
    BY DEF RawInv, RawSafe, RegisteredRecoverable, MonthSettled, Explained
  <1>3. EveryRevisionKept' /\ RowOnRecord' /\ CanonicalConsistent'
    BY DEF RawInv, RawSafe, EveryRevisionKept, RowOnRecord, CanonicalConsistent, OnDisk
  <1> QED BY <1>1, <1>2, <1>3 DEF RawSafe

\* The writer leaves off, or is not at a month yet.
LEMMA OffMonths ==
  ASSUME RawInv, UNCHANGED <<file, sidecar, receipt, kept, row, revisions>>,
         writer' = Idle \/ Answering(writer') \/ (Storing(writer') /\ writer'.pc = "begin")
  PROVE  RawInv'
  <1>1. writer'.pc \notin MonthSteps /\ WriterTyped'
    BY DEF WriterTyped, Idle, Answering, MonthSteps
  <1> QED BY <1>1, StoreStands DEF RawInv

\* The writer goes on to its next step at the same month.
LEMMA NextStep ==
  ASSUME RawInv, writer.pc \in MonthSteps, NEW pc \in MonthSteps, writer' = [writer EXCEPT !.pc = pc]
  PROVE  /\ WriterTyped' /\ writer'.pc = pc /\ writer.frame \in Tables
         /\ writer'.frame = writer.frame /\ Current' = Current
  <1>1. Storing(writer)
    BY DEF RawInv, WriterTyped, Idle, Answering, MonthSteps
  <1>2. writer' = Writing(pc, writer.todo, writer.frame)
    BY <1>1 DEF Storing, Writing
  <1>3. Current' = Current
    BY <1>2 DEF Current, Writing
  <1> QED BY <1>1, <1>2, <1>3 DEF Storing, Writing, WriterTyped

\* A step at a month leaves the invariant of the others alone.
OthersStand ==
  \A m \in Months : m # Current =>
    /\ file'[m] = file[m] /\ sidecar'[m] = sidecar[m] /\ receipt'[m] = receipt[m]
    /\ kept'[m] = kept[m] /\ row'[m] = row[m] /\ revisions'[m] = revisions[m]

SafeAt(m) ==
  /\ row[m] # NoFile => file[m] # NoFile /\ (file[m] = row[m] \/ Explained(m))
  /\ receipt[m] = NoFile =>
       /\ file[m] = row[m]
       /\ file[m] # NoFile => sidecar[m] = Describe(file[m])
  /\ revisions[m] \subseteq kept[m] \cup {file[m]}
  /\ row[m] # NoFile => row[m] \in revisions[m]
  /\ Conflicts(OnDisk(m)) = {}

LEMMA SafeEverywhere == RawSafe <=> \A m \in Months : SafeAt(m)
BY DEF RawSafe, SafeAt, RegisteredRecoverable, MonthSettled, EveryRevisionKept, RowOnRecord, CanonicalConsistent

\* A step at one month keeps the stores safe if it keeps that month safe.
LEMMA OneMonth ==
  ASSUME RawInv, OthersStand, \A m \in Months : m = Current => SafeAt(m)'
  PROVE  RawSafe'
  <1>1. ASSUME NEW m \in Months PROVE SafeAt(m)'
    <2>1. CASE m = Current
      BY <1>1, <2>1
    <2>2. CASE m # Current
      <3>1. SafeAt(m)
        BY SafeEverywhere DEF RawInv
      <3> QED BY <2>2, <3>1 DEF OthersStand, SafeAt, Explained, OnDisk
    <2> QED BY <2>1, <2>2
  <1> QED
    BY <1>1 DEF RawSafe, SafeAt, RegisteredRecoverable, MonthSettled, EveryRevisionKept, RowOnRecord,
       CanonicalConsistent

-----------------------------------------------------------------------------
(* The download. *)

LEMMA ChunksGiveRows ==
  ASSUME NEW frame \in Tables, NEW quote \in Quotes, NEW left, NEW right
  PROVE  frame \cup {[t |-> t, v |-> quote[t]] : t \in {s \in DOMAIN quote : left <= s /\ s <= right}} \in Tables
BY DEF Tables, RawRows

LEMMA DownloadKeeps ==
  ASSUME RawInv, Download
  PROVE  RawInv'
  <1>1. PICK chunks : writer' = [pc |-> "rates", chunks |-> chunks, attempt |-> 1, frame |-> {}]
    BY DEF Download
  <1>2. Answering(writer')
    BY <1>1 DEF Answering, Tables
  <1> QED BY <1>2, OffMonths DEF Download, disk

LEMMA RatesKeeps ==
  ASSUME RawInv, Rates
  PROVE  RawInv'
  <1>1. Answering(writer)
    BY DEF Rates, At, RawInv, WriterTyped, Idle, Storing, MonthSteps
  <1>2. PICK frame \in Tables :
          writer' = IF Len(writer.chunks) > 1
                    THEN [writer EXCEPT !.chunks = Tail(@), !.attempt = 1, !.frame = frame]
                    ELSE Writing("begin", {}, frame)
    <2>1. PICK quote \in Quotes :
            LET frame == writer.frame \cup
                  {[t |-> t, v |-> quote[t]] :
                     t \in {s \in DOMAIN quote : Head(writer.chunks).left <= s /\ s <= Head(writer.chunks).right}}
            IN  writer' = IF Len(writer.chunks) > 1
                          THEN [writer EXCEPT !.chunks = Tail(@), !.attempt = 1, !.frame = frame]
                          ELSE Writing("begin", {}, frame)
      BY DEF Rates
    <2> DEFINE answer == {[t |-> t, v |-> quote[t]] : t \in {s \in DOMAIN quote :
                            Head(writer.chunks).left <= s /\ s <= Head(writer.chunks).right}}
    <2>2. writer.frame \cup answer \in Tables
      BY <1>1, ChunksGiveRows DEF Answering
    <2> HIDE DEF answer
    <2>3. writer' = IF Len(writer.chunks) > 1
                    THEN [writer EXCEPT !.chunks = Tail(@), !.attempt = 1, !.frame = writer.frame \cup answer]
                    ELSE Writing("begin", {}, writer.frame \cup answer)
      BY <2>1 DEF answer
    <2> QED BY <2>2, <2>3
  <1>3. CASE Len(writer.chunks) > 1
    <2>1. writer' = [pc |-> "rates", chunks |-> Tail(writer.chunks), attempt |-> 1, frame |-> frame]
      BY <1>1, <1>2, <1>3 DEF Answering
    <2>2. Answering(writer')
      BY <2>1 DEF Answering
    <2> QED BY <2>2, OffMonths DEF Rates, disk
  <1>4. CASE ~(Len(writer.chunks) > 1)
    <2>1. Storing(writer') /\ writer'.pc = "begin"
      BY <1>2, <1>4 DEF Storing, Writing
    <2> QED BY <2>1, OffMonths DEF Rates, disk
  <1> QED BY <1>3, <1>4

LEMMA RatesFailKeeps ==
  ASSUME RawInv, RatesFail
  PROVE  RawInv'
  <1>1. Answering(writer)
    BY DEF RatesFail, At, RawInv, WriterTyped, Idle, Storing, MonthSteps
  <1>2. CASE writer.attempt < Retries
    <2>1. writer' = [pc |-> "rates", chunks |-> writer.chunks, attempt |-> writer.attempt + 1,
                     frame |-> writer.frame]
      BY <1>1, <1>2 DEF RatesFail, Answering
    <2>2. Answering(writer')
      BY <1>1, <2>1 DEF Answering
    <2> QED BY <2>2, OffMonths DEF RatesFail, disk
  <1>3. CASE ~(writer.attempt < Retries)
    BY <1>3, OffMonths DEF RatesFail, disk
  <1> QED BY <1>2, <1>3

LEMMA CrashKeeps ==
  ASSUME RawInv, Crash
  PROVE  RawInv'
BY OffMonths DEF Crash, disk

-----------------------------------------------------------------------------
(* The months. *)

LEMMA BeginKeeps ==
  ASSUME RawInv, Begin
  PROVE  RawInv'
  <1>1. Storing(writer)
    BY DEF Begin, At, RawInv, WriterTyped, Idle, Answering
  <1>2. CASE writer' = Idle
    BY <1>2, OffMonths DEF Begin
  <1>3. CASE writer' # Idle
    <2>1. PICK todo : writer' = Writing("lookup", todo, writer.frame)
      BY <1>3 DEF Begin
    <2>2. WriterTyped' /\ writer'.pc = "lookup"
      BY <1>1, <2>1 DEF WriterTyped, Storing, Writing, MonthSteps
    <2>3. WriterKnows'
      BY <2>2 DEF WriterKnows
    <2> QED BY <2>2, <2>3, StoreStands DEF Begin, RawInv
  <1> QED BY <1>2, <1>3

\* What upsert_raw_dataset makes of a month: the file and its row agree, and
\* both the row it had and the one it gets are on record.
LEMMA UpsertSafe ==
  ASSUME RawInv, NEW m \in Months, m = Current, Upsert(m), UNCHANGED <<file, sidecar, receipt, kept>>,
         file[m] # NoFile, receipt[m] = NoFile => sidecar[m] = Describe(file[m])
  PROVE  StoreTyped' /\ RawSafe' /\ row'[m] = file[m]
  <1>1. StoreTyped
    BY DEF RawInv
  <1>2. /\ row' \in [Months -> Tables \cup {NoFile}] /\ revisions' \in [Months -> SUBSET Tables]
        /\ row'[m] = file[m] /\ revisions'[m] = revisions[m] \cup ({row[m], file[m]} \ {NoFile})
        /\ \A n \in Months : n # m => row'[n] = row[n] /\ revisions'[n] = revisions[n]
    BY <1>1, NoFileIsNoTable DEF Upsert, StoreTyped
  <1>3. StoreTyped'
    BY <1>1, <1>2 DEF StoreTyped
  <1>4. OthersStand
    BY <1>2 DEF OthersStand
  <1>5. SafeAt(m)
    BY SafeEverywhere DEF RawInv
  <1>6. SafeAt(m)'
    BY <1>2, <1>5 DEF SafeAt, Explained, OnDisk
  <1> QED BY <1>2, <1>3, <1>4, <1>6, OneMonth

LEMMA LookupKeeps ==
  ASSUME RawInv, Lookup
  PROVE  RawInv'
  <1> DEFINE m == Current
  <1>1. CASE writer' = Idle /\ UNCHANGED <<row, revisions>>
    BY <1>1, OffMonths DEF Lookup, disk
  <1>2. CASE row[m] \in {NoFile, file[m]} /\ writer' = [writer EXCEPT !.pc = "merge"]
             /\ UNCHANGED <<row, revisions>>
    <2>1. WriterTyped' /\ writer'.pc = "merge" /\ Current' = Current
      BY <1>2, NextStep DEF Lookup, At, MonthSteps
    <2>2. WriterKnows'
      BY <1>2, <2>1 DEF Lookup, disk, WriterKnows
    <2> QED BY <1>2, <2>1, <2>2, StoreStands DEF Lookup, disk, RawInv
  <1>3. CASE /\ row[m] \notin {NoFile, file[m]} /\ file[m] # NoFile /\ Explained(m) /\ Upsert(m)
             /\ writer' = [writer EXCEPT !.pc = "merge"]
    <2>1. WriterTyped' /\ writer'.pc = "merge" /\ Current' = Current
      BY <1>3, NextStep DEF Lookup, At, MonthSteps
    <2>2. CASE m \in Months
      <3>1. receipt[m] # NoFile
        BY <1>3, <2>2, SafeEverywhere DEF SafeAt, RawInv
      <3>2. StoreTyped' /\ RawSafe' /\ row'[m] = file[m]
        BY <1>3, <2>2, <3>1, UpsertSafe DEF Lookup, disk
      <3>3. WriterKnows'
        BY <2>1, <3>2 DEF WriterKnows, Lookup, disk
      <3> QED BY <2>1, <3>2, <3>3 DEF RawInv
    <2>3. CASE m \notin Months
      <3>1. row' = row /\ revisions' = revisions
        BY <1>3, <2>3 DEF Upsert, RawInv, StoreTyped
      <3>2. WriterKnows'
        BY <2>1, <2>3 DEF WriterKnows
      <3> QED BY <2>1, <3>1, <3>2, StoreStands DEF Lookup, disk, RawInv
    <2> QED BY <2>2, <2>3
  <1> QED BY <1>1, <1>2, <1>3 DEF Lookup

\* At a month, with the rows the writer brings.
LEMMA AtMonth ==
  ASSUME RawInv, writer.pc \in MonthSteps, NEW m \in Months, m = Current
  PROVE  /\ Merged(m) \in Tables /\ Merged(m) # NoFile
         /\ file[m] \in Tables \cup {NoFile} /\ SafeAt(m)
         /\ file[m] # NoFile => OnDisk(m) = file[m]
  <1>1. writer.frame \in Tables
    BY DEF RawInv, WriterTyped, Idle, Answering, Storing, MonthSteps
  <1>2. SafeAt(m)
    BY SafeEverywhere DEF RawInv
  <1> QED BY <1>1, <1>2, MergedIsTable, NoFileIsNoTable DEF RawInv, StoreTyped, OnDisk

\* What is merged at a month while its file stands, and after it was replaced.
LEMMA MergedStands ==
  ASSUME NEW m \in Months, file'[m] = file[m], writer'.frame = writer.frame
  PROVE  Merged(m)' = Merged(m) /\ OnDisk(m)' = OnDisk(m)
BY DEF Merged, OnDisk

LEMMA MergeKeeps ==
  ASSUME RawInv, Merge
  PROVE  RawInv'
  <1> DEFINE m == Current
             next == IF Merged(m) = file[m] THEN "sidecar" ELSE "keep"
  <1>1. UNCHANGED <<file, sidecar, receipt, kept, row, revisions>> /\ writer.pc = "merge"
    BY DEF Merge, At
  <1>2. CASE Conflicts(Merged(m)) # {}
    BY <1>1, <1>2, OffMonths DEF Merge
  <1>3. CASE Conflicts(Merged(m)) = {}
    <2>1. writer' = [writer EXCEPT !.pc = next] /\ next \in MonthSteps
      BY <1>3 DEF Merge, MonthSteps
    <2>2. /\ WriterTyped' /\ writer'.pc = next /\ writer'.frame = writer.frame /\ Current' = Current
      BY <1>1, <2>1, NextStep DEF MonthSteps
    <2>3. ASSUME NEW n \in Months, n = Current' PROVE
            /\ row'[n] \in {NoFile, file'[n]} /\ Conflicts(Merged(n))' = {}
            /\ writer'.pc = "sidecar" => file'[n] = Merged(n)'
      <3>1. Merged(n)' = Merged(n)
        BY <1>1, <2>2, MergedStands
      <3> QED BY <1>1, <1>3, <2>2, <2>3, <3>1 DEF RawInv, WriterKnows, Conflicts, MonthSteps
    <2>4. WriterKnows'
      BY <2>2, <2>3 DEF WriterKnows
    <2> QED BY <1>1, <2>2, <2>4, StoreStands DEF RawInv
  <1> QED BY <1>2, <1>3

\* The old bytes are kept before anything is written.
LEMMA KeepKeeps ==
  ASSUME RawInv, Keep
  PROVE  RawInv'
  <1> DEFINE m == Current
  <1>1. writer.pc = "keep" /\ UNCHANGED <<file, sidecar, receipt, row, revisions>>
    BY DEF Keep, At
  <1>2. /\ WriterTyped' /\ writer'.pc = "receipt" /\ writer'.frame = writer.frame /\ Current' = Current
    BY <1>1, NextStep DEF Keep, MonthSteps
  <1>3. /\ kept' \in [Months -> SUBSET Tables]
        /\ \A n \in Months : kept'[n] = IF n = m THEN kept[n] \cup ({file[n]} \ {NoFile}) ELSE kept[n]
    BY DEF Keep, RawInv, StoreTyped
  <1>4. StoreTyped'
    BY <1>1, <1>3 DEF RawInv, StoreTyped
  <1>5. OthersStand
    BY <1>1, <1>3 DEF OthersStand
  <1>6. ASSUME NEW n \in Months, n = m PROVE SafeAt(n)'
    <2>1. SafeAt(n)
      BY SafeEverywhere DEF RawInv
    <2> QED BY <1>1, <1>3, <1>6, <2>1 DEF SafeAt, Explained, OnDisk
  <1>7. RawSafe'
    BY <1>5, <1>6, OneMonth
  <1>8. ASSUME NEW n \in Months, n = Current' PROVE
          /\ row'[n] \in {NoFile, file'[n]} /\ Conflicts(Merged(n))' = {}
          /\ {file'[n]} \ {NoFile} \subseteq kept'[n]
    <2>1. Merged(n)' = Merged(n)
      BY <1>1, <1>2, MergedStands
    <2> QED BY <1>1, <1>2, <1>3, <1>8, <2>1 DEF RawInv, WriterKnows, Conflicts, MonthSteps
  <1>9. WriterKnows'
    BY <1>2, <1>8 DEF WriterKnows
  <1> QED BY <1>2, <1>4, <1>7, <1>9 DEF RawInv

LEMMA ReceiptKeeps ==
  ASSUME RawInv, WriteReceipt
  PROVE  RawInv'
  <1> DEFINE m == Current
             note == [previous |-> file[m], checksum |-> Merged(m)]
  <1>1. writer.pc = "receipt" /\ UNCHANGED <<file, sidecar, kept, row, revisions>>
    BY DEF WriteReceipt, At
  <1>2. /\ WriterTyped' /\ writer'.pc = "replace" /\ writer'.frame = writer.frame /\ Current' = Current
    BY <1>1, NextStep DEF WriteReceipt, MonthSteps
  <1>3. m \in Months => note \in Receipts /\ note # NoFile
    BY <1>1, AtMonth, NoFileIsNoTable DEF Receipts, MonthSteps
  <1>4. /\ receipt' \in [Months -> Receipts \cup {NoFile}]
        /\ \A n \in Months : receipt'[n] = IF n = m THEN note ELSE receipt[n]
    BY <1>3 DEF WriteReceipt, RawInv, StoreTyped
  <1> HIDE DEF note
  <1>5. StoreTyped'
    BY <1>1, <1>4 DEF RawInv, StoreTyped
  <1>6. OthersStand
    BY <1>1, <1>4 DEF OthersStand
  <1>7. ASSUME NEW n \in Months, n = m PROVE SafeAt(n)'
    <2>1. SafeAt(n) /\ row[n] \in {NoFile, file[n]}
      BY <1>1, <1>7, SafeEverywhere DEF RawInv, WriterKnows, MonthSteps
    <2> QED BY <1>1, <1>3, <1>4, <1>7, <2>1 DEF SafeAt, OnDisk
  <1>8. RawSafe'
    BY <1>6, <1>7, OneMonth
  <1>9. ASSUME NEW n \in Months, n = Current' PROVE
          /\ row'[n] \in {NoFile, file'[n]} /\ Conflicts(Merged(n))' = {}
          /\ {file'[n]} \ {NoFile} \subseteq kept'[n]
          /\ receipt'[n] = [previous |-> file'[n], checksum |-> Merged(n)']
    <2>1. Merged(n)' = Merged(n)
      BY <1>1, <1>2, MergedStands
    <2>2. receipt'[n] = [previous |-> file'[n], checksum |-> Merged(n)']
      BY <1>1, <1>2, <1>4, <1>9, <2>1 DEF note
    <2> QED BY <1>1, <1>2, <1>9, <2>1, <2>2 DEF RawInv, WriterKnows, Conflicts, MonthSteps
  <1>10. WriterKnows'
    BY <1>2, <1>9 DEF WriterKnows
  <1> QED BY <1>2, <1>5, <1>8, <1>10 DEF RawInv

\* The rename: the receipt explains the file, the old one is kept.
LEMMA ReplaceKeeps ==
  ASSUME RawInv, Replace
  PROVE  RawInv'
  <1> DEFINE m == Current
             new == Merged(m)
  <1>1. writer.pc = "replace" /\ UNCHANGED <<sidecar, receipt, kept, row, revisions>>
    BY DEF Replace, At
  <1>2. /\ WriterTyped' /\ writer'.pc = "sidecar" /\ writer'.frame = writer.frame /\ Current' = Current
    BY <1>1, NextStep DEF Replace, MonthSteps
  <1>3. m \in Months => /\ new \in Tables /\ new # NoFile /\ SafeAt(m) /\ Conflicts(new) = {}
                        /\ row[m] \in {NoFile, file[m]} /\ {file[m]} \ {NoFile} \subseteq kept[m]
                        /\ receipt[m] = [previous |-> file[m], checksum |-> new]
    BY <1>1, AtMonth DEF RawInv, WriterKnows, MonthSteps
  <1>4. /\ file' \in [Months -> Tables \cup {NoFile}]
        /\ \A n \in Months : file'[n] = IF n = m THEN new ELSE file[n]
    BY <1>3 DEF Replace, RawInv, StoreTyped
  <1>5. ASSUME NEW n \in Months, n = m PROVE Merged(n)' = new /\ OnDisk(n)' = new
    BY <1>2, <1>3, <1>4, <1>5 DEF Merged, OnDisk
  <1>6. m \in Months => receipt[m] # NoFile
    BY <1>3, NoFileIsNoTable DEF RawInv, StoreTyped, Receipts
  <1> HIDE DEF new
  <1>7. StoreTyped'
    BY <1>1, <1>4 DEF RawInv, StoreTyped
  <1>8. OthersStand
    BY <1>1, <1>4 DEF OthersStand
  <1>9. ASSUME NEW n \in Months, n = m PROVE SafeAt(n)'
    <2>1. Conflicts(OnDisk(n))' = {}
      BY <1>3, <1>5, <1>9 DEF Conflicts
    <2>2. row'[n] # NoFile => file'[n] # NoFile /\ Explained(n)'
      BY <1>1, <1>3, <1>4, <1>9 DEF Explained
    <2>3. revisions'[n] \subseteq kept'[n] \cup {file'[n]}
      <3>1. revisions[n] \subseteq Tables /\ revisions[n] \subseteq kept[n] \cup {file[n]}
        BY <1>3, <1>9 DEF SafeAt, RawInv, StoreTyped
      <3> QED BY <1>1, <1>3, <1>9, <3>1, NoFileIsNoTable
    <2> QED BY <1>1, <1>3, <1>6, <1>9, <2>1, <2>2, <2>3 DEF SafeAt
  <1>10. RawSafe'
    BY <1>8, <1>9, OneMonth
  <1>11. WriterKnows'
    BY <1>2, <1>4, <1>5 DEF WriterKnows
  <1> QED BY <1>2, <1>7, <1>10, <1>11 DEF RawInv
LEMMA SidecarKeeps ==
  ASSUME RawInv, WriteSidecar
  PROVE  RawInv'
  <1> DEFINE m == Current
             seen == Describe(Merged(m))
  <1>1. writer.pc = "sidecar" /\ UNCHANGED <<file, receipt, kept, row, revisions>>
    BY DEF WriteSidecar, At
  <1>2. /\ WriterTyped' /\ writer'.pc = "upsert" /\ writer'.frame = writer.frame /\ Current' = Current
    BY <1>1, NextStep DEF WriteSidecar, MonthSteps
  <1>3. m \in Months => file[m] = Merged(m) /\ seen = Describe(file[m]) /\ SafeAt(m)
    BY <1>1, AtMonth DEF RawInv, WriterKnows, MonthSteps
  <1>4. /\ sidecar' = [sidecar EXCEPT ![m] = seen]
        /\ sidecar = [n \in Months |-> sidecar[n]]
    BY DEF WriteSidecar, RawInv, StoreTyped
  <1> HIDE DEF seen
  <1>5. /\ sidecar' = [n \in Months |-> sidecar'[n]]
        /\ \A n \in Months : sidecar'[n] = IF n = m THEN seen ELSE sidecar[n]
    BY <1>4
  <1>6. StoreTyped'
    BY <1>1, <1>5 DEF RawInv, StoreTyped
  <1>7. OthersStand
    BY <1>1, <1>5 DEF OthersStand
  <1>8. ASSUME NEW n \in Months, n = m PROVE SafeAt(n)' /\ sidecar'[n] = Describe(file'[n])
    <2>1. sidecar'[n] = Describe(file[n]) /\ SafeAt(n)
      BY <1>3, <1>5, <1>8
    <2> QED BY <1>1, <2>1 DEF SafeAt, Explained, OnDisk
  <1>9. RawSafe'
    BY <1>7, <1>8, OneMonth
  <1>10. ASSUME NEW n \in Months, n = Current' PROVE file'[n] = Merged(n)' /\ sidecar'[n] = Describe(file'[n])
    <2>1. Merged(n)' = Merged(n)
      BY <1>1, <1>2, MergedStands
    <2> QED BY <1>1, <1>2, <1>3, <1>8, <1>10, <2>1
  <1>11. WriterKnows'
    BY <1>2, <1>10 DEF WriterKnows
  <1> QED BY <1>2, <1>6, <1>9, <1>11 DEF RawInv

LEMMA RowRegistered ==
  ASSUME RawInv, Register
  PROVE  RawInv'
  <1> DEFINE m == Current
  <1>1. writer.pc = "upsert" /\ Upsert(m) /\ UNCHANGED <<file, sidecar, receipt, kept>>
    BY DEF Register, At, disk
  <1>2. /\ WriterTyped' /\ writer'.pc = "unlink" /\ Current' = Current
    BY <1>1, NextStep DEF Register, MonthSteps
  <1>3. CASE m \in Months
    <2>1. file[m] # NoFile /\ sidecar[m] = Describe(file[m])
      BY <1>1, <1>3, AtMonth DEF RawInv, WriterKnows, MonthSteps
    <2>2. StoreTyped' /\ RawSafe' /\ row'[m] = file[m]
      BY <1>1, <1>3, <2>1, UpsertSafe
    <2>3. WriterKnows'
      BY <1>1, <1>2, <2>1, <2>2 DEF WriterKnows
    <2> QED BY <1>2, <2>2, <2>3 DEF RawInv
  <1>4. CASE m \notin Months
    <2>1. row' = row /\ revisions' = revisions
      BY <1>1, <1>4 DEF Upsert, RawInv, StoreTyped
    <2>2. WriterKnows'
      BY <1>2, <1>4 DEF WriterKnows
    <2> QED BY <1>1, <1>2, <2>1, <2>2, StoreStands DEF RawInv
  <1> QED BY <1>3, <1>4

\* The receipt goes when everything it stood for is in place.
LEMMA UnlinkKeeps ==
  ASSUME RawInv, Unlink
  PROVE  RawInv'
  <1> DEFINE m == Current
  <1>1. writer.pc = "unlink" /\ UNCHANGED <<file, sidecar, kept, row, revisions>>
    BY DEF Unlink, At
  <1>2. /\ receipt' \in [Months -> Receipts \cup {NoFile}]
        /\ \A n \in Months : receipt'[n] = IF n = m THEN NoFile ELSE receipt[n]
    BY DEF Unlink, RawInv, StoreTyped
  <1>3. StoreTyped'
    BY <1>1, <1>2 DEF RawInv, StoreTyped
  <1>4. OthersStand
    BY <1>1, <1>2 DEF OthersStand
  <1>5. ASSUME NEW n \in Months, n = m PROVE SafeAt(n)'
    <2>1. SafeAt(n) /\ row[n] = file[n] /\ sidecar[n] = Describe(file[n])
      BY <1>1, <1>5, SafeEverywhere DEF RawInv, WriterKnows, MonthSteps
    <2> QED BY <1>1, <1>2, <1>5, <2>1 DEF SafeAt, OnDisk
  <1>6. RawSafe'
    BY <1>4, <1>5, OneMonth
  <1>7. Storing(writer)
    BY <1>1 DEF RawInv, WriterTyped, Idle, Answering, MonthSteps
  <1>8. CASE writer' = Idle
    BY <1>3, <1>6, <1>8 DEF RawInv, WriterTyped, Idle, MonthSteps
  <1>9. CASE writer' # Idle
    <2>1. PICK rest : writer' = Writing("lookup", rest, writer.frame)
      BY <1>9 DEF Unlink
    <2>2. WriterTyped' /\ writer'.pc = "lookup"
      BY <1>7, <2>1 DEF WriterTyped, Storing, Writing, MonthSteps
    <2>3. WriterKnows'
      BY <2>2 DEF WriterKnows
    <2> QED BY <1>3, <1>6, <2>2, <2>3 DEF RawInv
  <1> QED BY <1>8, <1>9

-----------------------------------------------------------------------------
(* The theorems. *)

LEMMA RawInit_Inv ==
  ASSUME RawInit
  PROVE  RawInv
  <1>1. Conflicts({}) = {}
    BY DEF Conflicts
  <1>2. StoreTyped /\ WriterTyped /\ writer.pc \notin MonthSteps
    BY DEF RawInit, StoreTyped, WriterTyped, Idle, MonthSteps
  <1>3. RawSafe
    BY <1>1, SafeEverywhere DEF RawInit, SafeAt, OnDisk
  <1> QED BY <1>2, <1>3 DEF RawInv

LEMMA RawNext_Inv ==
  ASSUME RawInv, [RawNext]_rawVars
  PROVE  RawInv'
  <1>1. CASE UNCHANGED rawVars
    <2>1. UNCHANGED <<file, sidecar, receipt, kept, row, revisions>> /\ writer' = writer
      BY <1>1 DEF rawVars, disk
    <2>2. WriterTyped' /\ (writer'.pc \in MonthSteps => WriterKnows')
      BY <2>1 DEF RawInv, WriterTyped, WriterKnows, Current, Merged, OnDisk, Conflicts
    <2> QED BY <2>1, <2>2, StoreStands DEF RawInv
  <1>2. CASE RawNext
    BY <1>2, DownloadKeeps, RatesKeeps, RatesFailKeeps, BeginKeeps, LookupKeeps, MergeKeeps, KeepKeeps,
       ReceiptKeeps, ReplaceKeeps, SidecarKeeps, RowRegistered, UnlinkKeeps, CrashKeeps DEF RawNext
  <1> QED BY <1>1, <1>2

(* The typed stores, the three properties below, and what the writer has    *)
(* established for the month it is at, in every reachable state             *)
(* (write_months and _atomic_parquet, between any two of their writes).     *)
THEOREM RawInvariant == RawSpec => []RawInv
  <1> QED BY RawInit_Inv, RawNext_Inv, PTL DEF RawSpec

(* However a write is interrupted, the next write of a registered month is  *)
(* never refused as tampered with.                                          *)
THEOREM RegisteredRecoverableHolds == RawSpec => []RegisteredRecoverable
  <1>1. RawInv => RegisteredRecoverable
    BY DEF RawInv, RawSafe
  <1> QED BY <1>1, RawInvariant, PTL

(* A month with no receipt pending has file, catalog row and sidecar that   *)
(* speak of the same rows.                                                  *)
THEOREM MonthSettledHolds == RawSpec => []MonthSettled
  <1>1. RawInv => MonthSettled
    BY DEF RawInv, RawSafe
  <1> QED BY <1>1, RawInvariant, PTL

(* Every checksum the catalog registered for a month can be read back.      *)
THEOREM EveryRevisionKeptHolds == RawSpec => []EveryRevisionKept
  <1>1. RawInv => EveryRevisionKept
    BY DEF RawInv, RawSafe
  <1> QED BY <1>1, RawInvariant, PTL

(* Whatever the terminal revises between downloads, a canonical month never *)
(* holds two values for one minute (write_months stops at the conflict).    *)
THEOREM CanonicalConsistentHolds == RawSpec => []CanonicalConsistent
  <1>1. RawInv => CanonicalConsistent
    BY DEF RawInv, RawSafe
  <1> QED BY <1>1, RawInvariant, PTL

-----------------------------------------------------------------------------
(* ExternalImport *)

-----------------------------------------------------------------------------
(* A finite set of integers in ascending order. *)

Below(S, t) == {u \in S : u < t}
Position(S, t) == Cardinality(Below(S, t))

LEMMA PositionIncreases ==
  ASSUME NEW S \in SUBSET Int, IsFiniteSet(S), NEW t \in S
  PROVE  /\ Position(S, t) \in 0..(Cardinality(S) - 1)
         /\ \A u \in S : u < t => Position(S, u) < Position(S, t)
  <1>1. \A u \in S : IsFiniteSet(Below(S, u)) /\ Cardinality(Below(S, u)) \in Nat
    <2> SUFFICES ASSUME NEW u \in S PROVE IsFiniteSet(Below(S, u)) /\ Cardinality(Below(S, u)) \in Nat
      OBVIOUS
    <2>1. Below(S, u) \in SUBSET S
      BY DEF Below
    <2> QED BY <2>1, FS_Subset, FS_CardinalityType
  <1>2. Cardinality(S) \in Nat
    BY FS_CardinalityType
  <1>3. Below(S, t) \in SUBSET S /\ t \notin Below(S, t)
    BY DEF Below
  <1>4. Cardinality(Below(S, t)) < Cardinality(S)
    <2>1. Cardinality(Below(S, t)) <= Cardinality(S)
          /\ (Cardinality(S) = Cardinality(Below(S, t)) => S = Below(S, t))
      BY <1>3, FS_Subset
    <2> QED BY <1>1, <1>2, <1>3, <2>1
  <1>5. ASSUME NEW u \in S, u < t
        PROVE  Cardinality(Below(S, u)) < Cardinality(Below(S, t))
    <2>4. \A v \in S : v < u => v < t
      BY <1>5
    <2>5. u \in Int /\ ~(u < u)
      OBVIOUS
    <2>6. Below(S, u) \in SUBSET Below(S, t)
      BY <2>4 DEF Below
    <2>1. Below(S, u) \in SUBSET Below(S, t) /\ u \in Below(S, t) /\ u \notin Below(S, u)
      BY <1>5, <2>5, <2>6 DEF Below
    <2>2. Cardinality(Below(S, u)) <= Cardinality(Below(S, t))
          /\ (Cardinality(Below(S, t)) = Cardinality(Below(S, u)) => Below(S, t) = Below(S, u))
      BY <2>1, <1>1, FS_Subset
    <2> QED BY <1>1, <2>1, <2>2
  <1> QED BY <1>1, <1>2, <1>4, <1>5 DEF Position

\* Every position is taken, so the i-th time exists.
LEMMA PositionsTaken ==
  ASSUME NEW S \in SUBSET Int, IsFiniteSet(S), NEW i \in 1..Cardinality(S)
  PROVE  \E t \in S : Position(S, t) = i - 1
  <1> DEFINE n == Cardinality(S)
             f == [t \in S |-> Position(S, t)]
  <1>1. n \in Nat
    BY FS_CardinalityType
  <1>2. f \in [S -> 0..(n - 1)]
    BY PositionIncreases
  <1>3. \A t, u \in S : f[t] = f[u] => t = u
    <2> SUFFICES ASSUME NEW t \in S, NEW u \in S, t # u, f[t] = f[u] PROVE FALSE
      OBVIOUS
    <2>1. Position(S, t) \in Int /\ Position(S, u) \in Int /\ Position(S, t) = Position(S, u)
      BY PositionIncreases, <1>1
    <2>2. t < u \/ u < t
      OBVIOUS
    <2> QED BY <2>1, <2>2, PositionIncreases
  <1>4. f \in Injection(S, 0..(n - 1))
    BY <1>2, <1>3 DEF Injection, IsInjective
  <1>5. IsFiniteSet(0..(n - 1)) /\ Cardinality(0..(n - 1)) = n
    <2>1. 0 \in Int /\ n - 1 \in Int
      BY <1>1
    <2>2. Cardinality(0..(n - 1)) = IF 0 > n - 1 THEN 0 ELSE (n - 1) - 0 + 1
      BY <2>1, FS_Interval
    <2> QED BY <1>1, <2>1, <2>2, FS_Interval
  <1> HIDE DEF f, n
  <1>6. f \in Surjection(S, 0..(n - 1))
    BY <1>4, <1>5, FS_Injection DEF n
  <1>7. i - 1 \in 0..(n - 1)
    BY <1>1 DEF n
  <1>8. \E t \in S : f[t] = i - 1
    BY <1>6, <1>7 DEF Surjection
  <1> QED BY <1>8 DEF f

LEMMA AscendingSorted ==
  ASSUME NEW S \in SUBSET Int, IsFiniteSet(S)
  PROVE  /\ Cardinality(S) \in Nat
         /\ Ascending(S) \in [1..Cardinality(S) -> S]
         /\ Len(Ascending(S)) = Cardinality(S)
         /\ \A i, j \in 1..Cardinality(S) : i < j => Ascending(S)[i] < Ascending(S)[j]
  <1>1. Cardinality(S) \in Nat
    BY FS_CardinalityType
  <1>2. \A i \in 1..Cardinality(S) : Ascending(S)[i] \in S /\ Position(S, Ascending(S)[i]) = i - 1
    <2> SUFFICES ASSUME NEW i \in 1..Cardinality(S)
                 PROVE  Ascending(S)[i] \in S /\ Position(S, Ascending(S)[i]) = i - 1
      OBVIOUS
    <2>1. Ascending(S)[i] = CHOOSE t \in S : Position(S, t) = i - 1
      BY DEF Ascending, Position, Below
    <2> QED BY <2>1, PositionsTaken
  <1>3. Ascending(S) \in [1..Cardinality(S) -> S]
    BY <1>2 DEF Ascending
  <1>4. Len(Ascending(S)) = Cardinality(S)
    BY <1>1, <1>3
  <1>5. ASSUME NEW i \in 1..Cardinality(S), NEW j \in 1..Cardinality(S), i < j
        PROVE  Ascending(S)[i] < Ascending(S)[j]
    <2> DEFINE a == Ascending(S)[i]
               b == Ascending(S)[j]
    <2>1. a \in S /\ b \in S /\ a \in Int /\ b \in Int /\ Position(S, a) = i - 1 /\ Position(S, b) = j - 1
      BY <1>2
    <2> HIDE DEF a, b
    <2>2. b < a => Position(S, b) < Position(S, a)
      BY <2>1, PositionIncreases
    <2>3. a # b /\ ~(b < a)
      BY <1>1, <1>5, <2>1, <2>2
    <2>4. a < b
      BY <2>1, <2>3
    <2> QED BY <2>4 DEF a, b
  <1> QED BY <1>1, <1>3, <1>4, <1>5

-----------------------------------------------------------------------------
(* Sanitation. *)

\* Two minutes with none between them are neighbours on the grid.
LEMMA NextOnGrid ==
  ASSUME NEW p \in Int, NEW n \in Int, p % Grid = 0, n % Grid = 0, p < n,
         ~((n - p) \div Grid - 1 > 0)
  PROVE  /\ n = p + Grid
         /\ \A e \in Int : e % Grid = 0 => ~(p < e /\ e < n)
  <1> DEFINE G == Grid
  <1>1. G \in Nat \ {0}
    BY ImportAssumption
  <1>2. \A a \in Int : a % G = 0 => a \div G \in Int /\ a = G * (a \div G)
    BY <1>1
  <1>3. \A k \in Int : (G * k) \div G = k
    BY <1>1
  <1>4. \A x, y \in Int : G * x < G * y => x < y
    BY <1>1
  <1>5. PICK x \in Int, y \in Int : p = G * x /\ n = G * y
    BY <1>2
  <1>6. x < y
    BY <1>4, <1>5
  <1>7. n - p = G * (y - x)
    BY <1>1, <1>5
  <1>8. (n - p) \div G = y - x
    BY <1>3, <1>7
  <1>9. y = x + 1
    BY <1>6, <1>8
  <1>10. n = p + G
    BY <1>1, <1>5, <1>9
  <1>11. ASSUME NEW e \in Int, e % G = 0, p < e, e < n PROVE FALSE
    <2>1. PICK z \in Int : e = G * z
      BY <1>2, <1>11
    <2>2. x < z /\ z < y
      BY <1>4, <1>5, <1>11, <2>1
    <2> QED BY <1>9, <2>2
  <1> QED BY <1>10, <1>11

\* A new segment begins wherever the jump to the next bar resets.
LEMMA SegmentsReset ==
  ASSUME NEW times, NEW excluded, NEW i \in Int, Len(times) \in Nat, DOMAIN times = 1..Len(times),
         i \in 2..Len(times),
         Segments(times, excluded, TRUE)[i] = Segments(times, excluded, TRUE)[i - 1]
  PROVE  ~Resets(times[i - 1], times[i], excluded, TRUE)
  <1> DEFINE R(j) == Resets(times[j - 1], times[j], excluded, TRUE)
             before == {j \in 2..(i - 1) : R(j)}
             upto == {j \in 2..i : R(j)}
  <1>1. Segments(times, excluded, TRUE)[i] = Cardinality(upto)
        /\ Segments(times, excluded, TRUE)[i - 1] = Cardinality(before)
    BY DEF Segments
  <1>2. SUFFICES ASSUME R(i) PROVE FALSE
    OBVIOUS
  <1>3. upto = before \cup {i} /\ i \notin before
    <2>1. 2..i = (2..(i - 1)) \cup {i} /\ i \notin 2..(i - 1)
      OBVIOUS
    <2> HIDE DEF R
    <2> QED BY <1>2, <2>1
  <1>4. IsFiniteSet(before)
    <2>1. IsFiniteSet(2..(i - 1))
      BY FS_Interval
    <2> QED BY <2>1, FS_Subset
  <1> HIDE DEF upto, before
  <1>5. Cardinality(before) \in Nat /\ Cardinality(upto) = Cardinality(before) + 1
    BY <1>3, <1>4, FS_CardinalityType, FS_AddElement
  <1>6. Cardinality(upto) = Cardinality(before)
    BY <1>1
  <1> QED BY <1>5, <1>6

\* What sanitation retains is on the grid, and what it excludes has a time.
LEMMA SanitizedTimes ==
  ASSUME NEW rows \in SourceContents
  PROVE  /\ \A i \in DOMAIN rows : Reason(rows, i) = "VALID" => rows[i].t \in Int /\ rows[i].t % Grid = 0
         /\ \A i \in DOMAIN rows : Reason(rows, i) # "INVALID_TIMESTAMP" => rows[i].t \in Int
  <1> SUFFICES ASSUME NEW i \in DOMAIN rows
               PROVE  /\ Reason(rows, i) = "VALID" => rows[i].t \in Int /\ rows[i].t % Grid = 0
                      /\ Reason(rows, i) # "INVALID_TIMESTAMP" => rows[i].t \in Int
    OBVIOUS
  <1>1. rows[i].t \in Int \cup {NoTime}
    BY ImportAssumption
  <1>2. rows[i].t = NoTime => Reason(rows, i) = "INVALID_TIMESTAMP"
    BY DEF Reason, OwnReason
  <1>3. Reason(rows, i) = "VALID" => OwnReason(rows[i]) = "VALID"
    BY DEF Reason
  <1> QED BY <1>1, <1>2, <1>3 DEF OwnReason

LEMMA SanitizedUnbroken ==
  ASSUME NEW rows \in SourceContents
  PROVE  Unbroken(Sanitized(rows))
  <1> DEFINE reason == [i \in DOMAIN rows |-> Reason(rows, i)]
             valid == {rows[i].t : i \in {j \in DOMAIN rows : reason[j] = "VALID"}}
             times == Ascending(valid)
             excluded == {rows[i].t : i \in {j \in DOMAIN rows :
                            reason[j] \notin {"VALID", "DUPLICATE_IDENTICAL", "INVALID_TIMESTAMP"}}}
             unreadable == \E i \in DOMAIN rows : reason[i] = "INVALID_TIMESTAMP"
             segments == IF unreadable THEN [i \in DOMAIN times |-> i - 1] ELSE Segments(times, excluded, TRUE)
             d == Sanitized(rows)
  <1>1. d = [times |-> times, excluded |-> excluded, segments |-> segments]
    BY DEF Sanitized
  <1>2. valid \in SUBSET Int /\ (\A t \in valid : t % Grid = 0) /\ excluded \in SUBSET Int
    BY SanitizedTimes
  <1>3. IsFiniteSet(valid)
    <2>1. IsFiniteSet(DOMAIN rows)
      BY ImportAssumption, FS_Interval
    <2>2. IsFiniteSet({j \in DOMAIN rows : reason[j] = "VALID"})
      BY <2>1, FS_Subset
    <2> DEFINE retained == {j \in DOMAIN rows : reason[j] = "VALID"}
               f == [i \in retained |-> rows[i].t]
    <2>3. f \in Surjection(retained, valid)
      BY DEF Surjection
    <2> HIDE DEF f, valid
    <2> QED BY <2>2, <2>3, FS_Surjection
  <1> HIDE DEF reason, valid, excluded, unreadable
  <1>4. /\ Len(times) \in Nat /\ DOMAIN times = 1..Len(times)
        /\ \A i \in 1..Len(times) : times[i] \in valid
        /\ \A i, j \in 1..Len(times) : i < j => times[i] < times[j]
    BY <1>2, <1>3, AscendingSorted
  <1> HIDE DEF times
  <1>12. d.times = times /\ d.segments = segments /\ d.excluded = excluded
    BY <1>1
  <1> HIDE DEF segments, d
  <1>5. SUFFICES ASSUME NEW i \in 2..Len(times), segments[i] = segments[i - 1]
        PROVE  /\ \A e \in excluded : e % Grid = 0 => ~(times[i - 1] < e /\ e < times[i])
               /\ times[i] = times[i - 1] + Grid \/ ExpectedWeekend(times[i - 1], times[i])
    <2>1. SUFFICES Unbroken(d)
      BY DEF d
    <2> QED BY <1>12 DEF Unbroken
  <1>6. i \in Int /\ i - 1 \in 1..Len(times) /\ i \in 1..Len(times) /\ i - 1 < i
    BY <1>4
  <1>7. ~unreadable
    <2> SUFFICES ASSUME unreadable PROVE FALSE
      OBVIOUS
    <2>1. segments = [k \in DOMAIN times |-> k - 1]
      BY DEF segments
    <2>2. segments[i] = i - 1 /\ segments[i - 1] = (i - 1) - 1
      BY <2>1, <1>4, <1>6
    <2> QED BY <2>2, <1>5, <1>6
  <1>8. ~Resets(times[i - 1], times[i], excluded, TRUE)
    <2>1. segments = Segments(times, excluded, TRUE)
      BY <1>7 DEF segments
    <2>2. Segments(times, excluded, TRUE)[i] = Segments(times, excluded, TRUE)[i - 1]
      BY <2>1, <1>5
    <2> QED BY <2>2, <1>4, <1>6, SegmentsReset
  <1>9. /\ times[i - 1] \in Int /\ times[i] \in Int /\ times[i - 1] < times[i]
        /\ times[i - 1] % Grid = 0 /\ times[i] % Grid = 0
    BY <1>2, <1>4, <1>6
  <1>10. CASE (times[i] - times[i - 1]) \div Grid - 1 > 0
    BY <1>8, <1>10 DEF Resets
  <1>11. CASE ~((times[i] - times[i - 1]) \div Grid - 1 > 0)
    BY <1>2, <1>9, <1>11, NextOnGrid
  <1> QED BY <1>10, <1>11

-----------------------------------------------------------------------------
(* The inductive invariant. *)

Canonicals == {CanonicalRows(files) : files \in Seq(SourceContents)}
Statuses == {"STAGED", "QUARANTINED", "CERTIFIED"}
Judged(id) == IF Serious(id.contents) THEN "QUARANTINED" ELSE "STAGED"

ImportRows == [status : Statuses, paths : Seq(Sources), canonical : Canonicals]
Manifests == [bars : {Sanitized(rows) : rows \in SourceContents}, made : Nat]

OwningSteps == {"canonical", "insert"}
AttemptSteps == {"collision?", "promote"} \cup OwningSteps
SanitizeSteps == {"stage", "register", "journal"}

Copying == [pc : {"copy"}, id : DatasetIds, paths : Seq(Sources)]
Attempting == [pc : AttemptSteps, id : DatasetIds, preserved : Seq(SourceContents),
               canonical : Canonicals, paths : Seq(Sources), status : Statuses]
Certifying == [pc : {"certify"}, id : DatasetIds, key : {"dataset", "import"}]
Sanitizing == [pc : SanitizeSteps, id : DatasetIds, status : Statuses, manifest : Manifests]

Jobs == {Free} \cup Copying \cup Attempting \cup Certifying \cup Sanitizing

ImportTyped ==
  /\ content \in [Sources -> SourceContents]
  /\ DOMAIN artifacts \subseteq DatasetIds
  /\ DOMAIN imports \subseteq DatasetIds
  /\ \A id \in DOMAIN imports : imports[id] \in ImportRows
  /\ DOMAIN derivatives \subseteq DatasetIds
  /\ \A id \in DOMAIN derivatives : derivatives[id] \in Manifests
  /\ DOMAIN lineage \subseteq DOMAIN derivatives
  /\ certified \subseteq DOMAIN imports
  /\ job \in [Importers -> Jobs]
  /\ jobs \in [taken : Nat, edits : Nat, kills : Nat]

\* A promoted directory belongs to the attempt that has yet to register it.
Owns(p) == job[p].pc \in OwningSteps

OneOwner == \A p, q \in Importers : Owns(p) /\ Owns(q) /\ job[p].id = job[q].id => p = q

AttemptKnows(j) ==
  /\ j.pc \in AttemptSteps =>
       j.preserved = j.id.contents /\ j.canonical = CanonicalRows(j.id.contents) /\ j.status = Judged(j.id)
  /\ j.pc \in OwningSteps =>
       Has(artifacts, j.id) /\ artifacts[j.id].preserved = j.id.contents /\ ~Has(imports, j.id)
  /\ j.pc = "insert" => Has(canonicals, j.id) /\ canonicals[j.id] = j.canonical

ServiceKnows(j) ==
  /\ j.pc = "certify" => Has(imports, j.id) /\ ~Serious(j.id.contents)
  /\ j.pc \in SanitizeSteps => Has(imports, j.id)
  /\ j.pc \in {"register", "journal"} => Has(derivatives, j.id) /\ derivatives[j.id] = j.manifest

JobsKnow == \A p \in Importers : AttemptKnows(job[p]) /\ ServiceKnows(job[p])

\* What is in use was not found to be in error.
Judgement == \A id \in DOMAIN imports : imports[id].status \in {"STAGED", "CERTIFIED"} => ~Serious(id.contents)

Registered == \A id \in DOMAIN lineage : Has(imports, id) /\ derivatives[id] = lineage[id]

ImportInv ==
  /\ ImportTyped /\ OneOwner /\ JobsKnow /\ Judgement /\ Registered
  /\ ImportedIsBacked

-----------------------------------------------------------------------------
(* Lemmas. *)

LEMMA Shapes ==
  ASSUME NEW j \in Jobs
  PROVE  /\ j.pc = "copy" => j \in Copying
         /\ j.pc \in AttemptSteps => j \in Attempting
         /\ j.pc = "certify" => j \in Certifying
         /\ j.pc \in SanitizeSteps => j \in Sanitizing
  BY DEF Jobs, Free, Copying, Attempting, Certifying, Sanitizing, AttemptSteps, OwningSteps, SanitizeSteps

LEMMA FreeKnows == AttemptKnows(Free) /\ ServiceKnows(Free) /\ Free \in Jobs /\ Free.pc \notin OwningSteps
  BY DEF AttemptKnows, ServiceKnows, Free, Jobs, AttemptSteps, OwningSteps, SanitizeSteps

\* What the step of process p does for everybody else.
OthersUnharmed(p) ==
  /\ \A q \in Importers \ {p} : job'[q] = job[q]
  /\ DOMAIN imports \subseteq DOMAIN imports'
  /\ \A id \in DOMAIN derivatives : Has(derivatives, id)' /\ derivatives'[id] = derivatives[id]
  /\ \A q \in Importers \ {p} : Owns(q) =>
       /\ Has(artifacts, job[q].id)' /\ artifacts'[job[q].id] = artifacts[job[q].id]
       /\ ~Has(imports, job[q].id)'
       /\ Has(canonicals, job[q].id) =>
            Has(canonicals, job[q].id)' /\ canonicals'[job[q].id] = canonicals[job[q].id]

LEMMA OthersKnow ==
  ASSUME JobsKnow, NEW p \in Importers, OthersUnharmed(p), AttemptKnows(job[p])', ServiceKnows(job[p])'
  PROVE  JobsKnow'
  <1>1. ASSUME NEW q \in Importers \ {p} PROVE AttemptKnows(job[q])'
    BY <1>1 DEF JobsKnow, AttemptKnows, OthersUnharmed, Owns, OwningSteps, AttemptSteps, Has
  <1>2. ASSUME NEW q \in Importers \ {p} PROVE ServiceKnows(job[q])'
    BY <1>2 DEF JobsKnow, ServiceKnows, OthersUnharmed, SanitizeSteps, Has
  <1> QED BY <1>1, <1>2 DEF JobsKnow

\* Nobody owns what is registered, and nobody else owns what an owner has.
LEMMA OwnersApart ==
  ASSUME ImportInv
  PROVE  /\ \A q \in Importers : Owns(q) => ~Has(imports, job[q].id) /\ Has(artifacts, job[q].id)
         /\ \A p, q \in Importers : Owns(p) /\ Owns(q) /\ p # q => job[p].id # job[q].id
  BY DEF ImportInv, JobsKnow, AttemptKnows, OneOwner, Owns

stores == <<artifacts, canonicals, derivatives, imports, certified, lineage>>

\* A step in which a process reads and decides, and comes to own nothing.
LEMMA DecisionKeeps ==
  ASSUME ImportInv, NEW p \in Importers, NEW j \in Jobs, job' = [job EXCEPT ![p] = j], UNCHANGED stores,
         j.pc \notin OwningSteps, AttemptKnows(j), ServiceKnows(j),
         content' \in [Sources -> SourceContents], jobs' \in [taken : Nat, edits : Nat, kills : Nat]
  PROVE  ImportInv'
  <1> USE DEF stores
  <1>1. job' \in [Importers -> Jobs] /\ job'[p] = j /\ \A q \in Importers \ {p} : job'[q] = job[q]
    BY DEF ImportInv, ImportTyped
  <1>2. ImportTyped'
    BY <1>1 DEF ImportInv, ImportTyped
  <1>3. OneOwner'
    BY <1>1 DEF ImportInv, OneOwner, Owns
  <1>4. OthersUnharmed(p)
    BY <1>1, OwnersApart DEF OthersUnharmed, Has
  <1>5. AttemptKnows(job[p])' /\ ServiceKnows(job[p])'
    BY <1>1 DEF AttemptKnows, ServiceKnows, Has
  <1>6. JobsKnow'
    BY <1>4, <1>5, OthersKnow DEF ImportInv
  <1>7. Judgement' /\ Registered' /\ ImportedIsBacked'
    BY DEF ImportInv, Judgement, Registered, ImportedIsBacked, Has
  <1> QED BY <1>2, <1>3, <1>6, <1>7 DEF ImportInv

-----------------------------------------------------------------------------
(* Every action keeps the invariant. *)

LEMMA EditKeeps == ASSUME ImportInv, Edit PROVE ImportInv'
  <1> USE DEF Edit, catalogVars
  <1>1. ImportTyped'
    BY DEF ImportInv, ImportTyped
  <1>2. OneOwner' /\ JobsKnow' /\ Judgement' /\ Registered' /\ ImportedIsBacked'
    BY DEF ImportInv, OneOwner, Owns, JobsKnow, AttemptKnows, ServiceKnows, Judgement, Registered, ImportedIsBacked, Has
  <1> QED BY <1>1, <1>2 DEF ImportInv

LEMMA TakeTyped ==
  ASSUME ImportInv, NEW p \in Importers, Take(p)
  PROVE  jobs' \in [taken : Nat, edits : Nat, kills : Nat]
  BY DEF ImportInv, ImportTyped, Take

LEMMA PathsTyped ==
  ASSUME NEW s \in SUBSET Sources
  PROVE  Ascending(s) \in Seq(Sources)
  <1>1. s \in SUBSET Int /\ IsFiniteSet(s)
    BY ImportAssumption, FS_Subset
  <1>2. Cardinality(s) \in Nat /\ Ascending(s) \in [1..Cardinality(s) -> s]
    BY <1>1, AscendingSorted
  <1>3. Ascending(s) \in [1..Cardinality(s) -> Sources]
    BY <1>2
  <1>4. \A k \in Nat : \A q \in [1..k -> Sources] : q \in Seq(Sources)
    OBVIOUS
  <1> QED BY <1>2, <1>3, <1>4

LEMMA IdentityTyped ==
  ASSUME ImportInv, NEW paths \in Seq(Sources), NEW reading \in Interpretations
  PROVE  Identity(paths, reading) \in DatasetIds
  <1> DEFINE contents == [i \in DOMAIN paths |-> content[paths[i]]]
  <1>1. \A i \in DOMAIN paths : paths[i] \in Sources
    OBVIOUS
  <1>2. contents \in [1..Len(paths) -> SourceContents] /\ Len(paths) \in Nat
    BY <1>1 DEF ImportInv, ImportTyped
  <1>3. \A k \in Nat : \A q \in [1..k -> SourceContents] : q \in Seq(SourceContents)
    OBVIOUS
  <1>4. contents \in Seq(SourceContents)
    BY <1>2, <1>3
  <1> QED BY <1>4 DEF Identity, DatasetIds

LEMMA ImportKeeps == ASSUME ImportInv, NEW p \in Importers, Import(p) PROVE ImportInv'
  <1>1. PICK s \in SUBSET Sources, reading \in Interpretations, reason \in BOOLEAN :
          Set(p, IF Has(imports, Identity(Ascending(s), reading))
                    \/ (Alternates(Identity(Ascending(s), reading)) # {} /\ ~reason) THEN Free
                 ELSE [pc |-> "copy", id |-> Identity(Ascending(s), reading), paths |-> Ascending(s)])
    BY DEF Import
  <1> DEFINE id == Identity(Ascending(s), reading)
             j == job'[p]
  <1>2. Ascending(s) \in Seq(Sources) /\ id \in DatasetIds
    BY PathsTyped, IdentityTyped
  <1> HIDE DEF id
  <1>3. PICK c : job' = [job EXCEPT ![p] = c] /\ (c = Free \/ c = [pc |-> "copy", id |-> id, paths |-> Ascending(s)])
    BY <1>1 DEF Set, id
  <1>4. c \in Jobs /\ c.pc \notin OwningSteps /\ AttemptKnows(c) /\ ServiceKnows(c)
    <2>1. CASE c = Free
      BY <2>1, FreeKnows
    <2>2. CASE c = [pc |-> "copy", id |-> id, paths |-> Ascending(s)]
      <3>1. c \in Copying /\ c.pc = "copy"
        BY <1>2, <2>2 DEF Copying
      <3> QED BY <3>1 DEF Jobs, AttemptKnows, ServiceKnows, AttemptSteps, OwningSteps, SanitizeSteps
    <2> QED BY <1>3, <2>1, <2>2
  <1> QED
    BY <1>3, <1>4, TakeTyped, DecisionKeeps DEF Import, stores, catalogVars, ImportInv, ImportTyped

LEMMA CopyKeeps == ASSUME ImportInv, NEW p \in Importers, Copy(p) PROVE ImportInv'
  <1> DEFINE id == job[p].id
             preserved == [i \in DOMAIN job[p].paths |-> content[job[p].paths[i]]]
             rows == CanonicalRows(preserved)
             status == IF Serious(preserved) THEN "QUARANTINED" ELSE "STAGED"
             c == IF preserved # id.contents \/ rows = <<>> THEN Free
                  ELSE [pc |-> "collision?", id |-> id, preserved |-> preserved, canonical |-> rows,
                        paths |-> job[p].paths, status |-> status]
  <1>1. job[p] \in Copying
    BY Shapes DEF ImportInv, ImportTyped, Copy, Doing
  <1>2. job' = [job EXCEPT ![p] = c]
    BY DEF Copy, Set
  <1>3. c \in Jobs /\ c.pc \notin OwningSteps /\ AttemptKnows(c) /\ ServiceKnows(c)
    <2>1. CASE c = Free
      BY <2>1, FreeKnows
    <2>2. CASE c # Free
      <3>1. /\ preserved = id.contents /\ id \in DatasetIds /\ job[p].paths \in Seq(Sources)
            /\ c = [pc |-> "collision?", id |-> id, preserved |-> preserved, canonical |-> rows,
                     paths |-> job[p].paths, status |-> status]
        BY <1>1, <2>2 DEF Copying
      <3>2. preserved \in Seq(SourceContents) /\ rows \in Canonicals /\ status \in Statuses
            /\ rows = CanonicalRows(id.contents) /\ status = Judged(id)
        BY <3>1 DEF DatasetIds, Canonicals, Statuses, Judged
      <3> HIDE DEF preserved, rows, status, id
      <3>3. c \in Attempting
        BY <3>1, <3>2 DEF Attempting, AttemptSteps
      <3>4. c.pc = "collision?" /\ c.id = id /\ c.preserved = preserved /\ c.canonical = rows /\ c.status = status
        BY <3>1
      <3> QED BY <3>1, <3>2, <3>3, <3>4 DEF Jobs, AttemptKnows, ServiceKnows, AttemptSteps, OwningSteps, SanitizeSteps
    <2> QED BY <2>1, <2>2
  <1> HIDE DEF c
  <1> QED BY <1>2, <1>3, DecisionKeeps DEF Copy, stores, catalogVars, ImportInv, ImportTyped

LEMMA CollisionKeeps == ASSUME ImportInv, NEW p \in Importers, CheckCollision(p) PROVE ImportInv'
  <1>1. job[p] \in Attempting /\ job[p].pc = "collision?" /\ AttemptKnows(job[p])
    BY Shapes DEF ImportInv, ImportTyped, JobsKnow, CheckCollision, Doing, AttemptSteps
  <1>2. PICK c : job' = [job EXCEPT ![p] = c] /\ (c = Free \/ c = [job[p] EXCEPT !.pc = "promote"])
    BY DEF CheckCollision, Set
  <1>3. c \in Jobs /\ c.pc \notin OwningSteps /\ AttemptKnows(c) /\ ServiceKnows(c)
    <2>1. CASE c = Free
      BY <2>1, FreeKnows
    <2>2. CASE c = [job[p] EXCEPT !.pc = "promote"]
      <3>1. c \in Attempting /\ c.pc = "promote"
        BY <1>1, <2>2 DEF Attempting, AttemptSteps
      <3>2. c.id = job[p].id /\ c.preserved = job[p].preserved /\ c.canonical = job[p].canonical
            /\ c.status = job[p].status
        BY <1>1, <2>2 DEF Attempting
      <3> QED BY <1>1, <3>1, <3>2 DEF Jobs, AttemptKnows, ServiceKnows, AttemptSteps, OwningSteps, SanitizeSteps
    <2> QED BY <1>2, <2>1, <2>2
  <1> QED BY <1>2, <1>3, DecisionKeeps DEF CheckCollision, stores, catalogVars, ImportInv, ImportTyped

LEMMA RequestKeeps == ASSUME ImportInv, NEW p \in Importers, RequestCertificate(p) PROVE ImportInv'
  <1>1. PICK id \in DOMAIN imports, key \in {"dataset", "import"} :
          Set(p, IF Certifiable(id) THEN [pc |-> "certify", id |-> id, key |-> key] ELSE Free)
    BY DEF RequestCertificate
  <1>2. PICK c : /\ job' = [job EXCEPT ![p] = c]
                 /\ c = Free \/ (Certifiable(id) /\ c = [pc |-> "certify", id |-> id, key |-> key])
    BY <1>1 DEF Set
  <1>3. c \in Jobs /\ c.pc \notin OwningSteps /\ AttemptKnows(c) /\ ServiceKnows(c)
    <2>1. CASE c = Free
      BY <2>1, FreeKnows
    <2>2. CASE Certifiable(id) /\ c = [pc |-> "certify", id |-> id, key |-> key]
      <3>1. c \in Certifying /\ c.pc = "certify" /\ c.id = id
        BY <2>2 DEF Certifying, ImportInv, ImportTyped
      <3>2. Has(imports, id) /\ ~Serious(id.contents)
        BY <2>2 DEF Certifiable, ImportInv, Judgement, Has
      <3> QED BY <3>1, <3>2 DEF Jobs, AttemptKnows, ServiceKnows, AttemptSteps, OwningSteps, SanitizeSteps
    <2> QED BY <1>2, <2>1, <2>2
  <1> QED
    BY <1>2, <1>3, TakeTyped, DecisionKeeps DEF RequestCertificate, stores, catalogVars, ImportInv, ImportTyped

LEMMA SanitizeKeeps == ASSUME ImportInv, NEW p \in Importers, Sanitize(p) PROVE ImportInv'
  <1>1. PICK id \in DOMAIN imports :
          LET result == Sanitized(artifacts[id].preserved[1])
              usable == Len(id.contents) = 1 /\ artifacts[id].preserved = id.contents /\ result.times # <<>>
          IN  Set(p, IF ~usable \/ Has(lineage, id) THEN Free
                     ELSE [pc |-> "stage", id |-> id, status |-> imports[id].status,
                           manifest |-> [bars |-> result, made |-> jobs.taken]])
    BY DEF Sanitize
  <1> DEFINE bars == Sanitized(id.contents[1])
             request == [pc |-> "stage", id |-> id, status |-> imports[id].status,
                         manifest |-> [bars |-> bars, made |-> jobs.taken]]
  <1>2. artifacts[id].preserved = id.contents
    BY DEF ImportInv, ImportedIsBacked
  <1>3. PICK c : /\ job' = [job EXCEPT ![p] = c]
                 /\ c = Free \/ (Len(id.contents) = 1 /\ c = request)
    BY <1>1, <1>2 DEF Set
  <1>4. c \in Jobs /\ c.pc \notin OwningSteps /\ AttemptKnows(c) /\ ServiceKnows(c)
    <2>1. CASE c = Free
      BY <2>1, FreeKnows
    <2>2. CASE Len(id.contents) = 1 /\ c = request
      <3>1. id \in DatasetIds /\ imports[id].status \in Statuses /\ jobs.taken \in Nat
        BY DEF ImportInv, ImportTyped, ImportRows
      <3>2. id.contents[1] \in SourceContents
        BY <2>2, <3>1 DEF DatasetIds
      <3>3. [bars |-> bars, made |-> jobs.taken] \in Manifests
        BY <3>1, <3>2 DEF Manifests
      <3>4. c \in Sanitizing /\ c.pc = "stage" /\ c.id = id
        BY <2>2, <3>1, <3>3 DEF Sanitizing, SanitizeSteps
      <3> QED BY <3>4 DEF Jobs, AttemptKnows, ServiceKnows, AttemptSteps, OwningSteps, SanitizeSteps, Has
    <2> QED BY <1>3, <2>1, <2>2
  <1> QED
    BY <1>3, <1>4, TakeTyped, DecisionKeeps DEF Sanitize, stores, catalogVars, ImportInv, ImportTyped

LEMMA JournalKeeps == ASSUME ImportInv, NEW p \in Importers, AppendJournal(p) PROVE ImportInv'
  BY FreeKnows, DecisionKeeps DEF AppendJournal, Set, stores, catalogVars, ImportInv, ImportTyped

LEMMA KillKeeps == ASSUME ImportInv, NEW p \in Importers, Kill(p) PROVE ImportInv'
  <1>1. jobs' \in [taken : Nat, edits : Nat, kills : Nat]
    BY DEF Kill, ImportInv, ImportTyped
  <1> QED BY <1>1, FreeKnows, DecisionKeeps DEF Kill, Set, stores, catalogVars, ImportInv, ImportTyped

\* What the catalog names is left alone.
CatalogUnharmed ==
  /\ \A id \in DOMAIN imports :
       /\ Has(imports, id)' /\ imports'[id].canonical = imports[id].canonical
       /\ Has(artifacts, id)' /\ artifacts'[id] = artifacts[id]
       /\ Has(canonicals, id)' /\ canonicals'[id] = canonicals[id]
  /\ \A id \in DOMAIN lineage : Has(lineage, id)' /\ lineage'[id] = lineage[id]
  /\ \A id \in DOMAIN derivatives : Has(derivatives, id)' /\ derivatives'[id] = derivatives[id]

LEMMA PromoteKeeps == ASSUME ImportInv, NEW p \in Importers, Promote(p) PROVE ImportInv' /\ CatalogUnharmed
  <1> USE DEF catalogVars
  <1>1. /\ job[p] \in Attempting /\ job[p].pc = "promote" /\ AttemptKnows(job[p])
    BY Shapes DEF ImportInv, ImportTyped, JobsKnow, Promote, Doing, AttemptSteps
  <1>2. CASE Has(artifacts, job[p].id)
    <2>1. job' = [job EXCEPT ![p] = Free] /\ UNCHANGED <<stores, content, jobs>>
      BY <1>2 DEF Promote, Set, stores
    <2> QED
      BY <2>1, FreeKnows, DecisionKeeps DEF stores, ImportInv, ImportTyped, CatalogUnharmed, ImportedIsBacked, Has
  <1>3. CASE ~Has(artifacts, job[p].id)
    <2> DEFINE id == job[p].id
               j == [job[p] EXCEPT !.pc = "canonical"]
               artifact == [preserved |-> job[p].preserved, canonical |-> job[p].canonical]
    <2>1. /\ job' = [job EXCEPT ![p] = j]
          /\ artifacts' = With(artifacts, id, artifact)
          /\ UNCHANGED <<content, canonicals, derivatives, catalogVars, jobs>>
      BY <1>3 DEF Promote, Set
    <2>2. j \in Attempting /\ j.pc = "canonical" /\ id \in DatasetIds
          /\ j.id = id /\ j.preserved = job[p].preserved /\ j.canonical = job[p].canonical /\ j.status = job[p].status
      BY <1>1 DEF Attempting, AttemptSteps, OwningSteps
    <2>3. artifact.preserved = id.contents
      BY <1>1 DEF AttemptKnows, AttemptSteps
    <2> HIDE DEF j, artifact
    <2>4. job' \in [Importers -> Jobs] /\ job'[p] = j /\ \A q \in Importers \ {p} : job'[q] = job[q]
      BY <2>1, <2>2 DEF ImportInv, ImportTyped, Jobs
    <2>5. /\ DOMAIN artifacts' = DOMAIN artifacts \cup {id} /\ artifacts'[id] = artifact
          /\ \A other \in DOMAIN artifacts : artifacts'[other] = artifacts[other]
      BY <1>3, <2>1 DEF With, Has
    <2>6. ~Has(imports, id)
      BY <1>3 DEF ImportInv, ImportedIsBacked, Has
    <2>7. ImportTyped'
      BY <2>1, <2>2, <2>4, <2>5 DEF ImportInv, ImportTyped
    <2>8. \A q \in Importers : Owns(q) => job[q].id # id
      BY <1>3, OwnersApart
    <2>9. OneOwner'
      BY <2>2, <2>4, <2>8 DEF ImportInv, OneOwner, Owns
    <2>10. OthersUnharmed(p)
      BY <2>1, <2>4, <2>5, OwnersApart DEF OthersUnharmed, Has
    <2>11. AttemptKnows(job[p])' /\ ServiceKnows(job[p])'
      BY <1>1, <2>1, <2>2, <2>3, <2>4, <2>5, <2>6
      DEF AttemptKnows, ServiceKnows, AttemptSteps, OwningSteps, SanitizeSteps, Has
    <2>12. JobsKnow'
      BY <2>10, <2>11, OthersKnow DEF ImportInv
    <2>13. Judgement' /\ Registered'
      BY <2>1 DEF ImportInv, Judgement, Registered, Has
    <2>14. CatalogUnharmed
      BY <2>1, <2>5 DEF CatalogUnharmed, ImportInv, ImportedIsBacked, Has
    <2>15. ImportedIsBacked'
      BY <2>1, <2>14 DEF CatalogUnharmed, ImportInv, ImportedIsBacked, Has
    <2> QED BY <2>7, <2>9, <2>12, <2>13, <2>14, <2>15 DEF ImportInv
  <1> QED BY <1>2, <1>3

LEMMA CanonicalKeeps == ASSUME ImportInv, NEW p \in Importers, CopyCanonical(p) PROVE ImportInv' /\ CatalogUnharmed
  <1> USE DEF catalogVars
  <1> DEFINE id == job[p].id
             j == [job[p] EXCEPT !.pc = "insert"]
  <1>1. job[p] \in Attempting /\ job[p].pc = "canonical" /\ AttemptKnows(job[p]) /\ Owns(p)
    BY Shapes DEF ImportInv, ImportTyped, JobsKnow, CopyCanonical, Doing, AttemptSteps, OwningSteps, Owns
  <1>2. /\ job' = [job EXCEPT ![p] = j]
        /\ canonicals' = With(canonicals, id, job[p].canonical)
        /\ UNCHANGED <<content, artifacts, derivatives, catalogVars, jobs>>
    BY DEF CopyCanonical, Set
  <1>3. j \in Attempting /\ j.pc = "insert" /\ j.id = id
        /\ j.preserved = job[p].preserved /\ j.canonical = job[p].canonical /\ j.status = job[p].status
    BY <1>1 DEF Attempting, AttemptSteps, OwningSteps
  <1> HIDE DEF j
  <1>4. job' \in [Importers -> Jobs] /\ job'[p] = j /\ \A q \in Importers \ {p} : job'[q] = job[q]
    BY <1>2, <1>3 DEF ImportInv, ImportTyped, Jobs
  <1>5. /\ DOMAIN canonicals' = DOMAIN canonicals \cup {id} /\ canonicals'[id] = job[p].canonical
        /\ \A other \in DOMAIN canonicals \ {id} : canonicals'[other] = canonicals[other]
    BY <1>2 DEF With
  <1>6. ImportTyped'
    BY <1>2, <1>4 DEF ImportInv, ImportTyped
  <1>7. OneOwner'
    BY <1>1, <1>3, <1>4 DEF ImportInv, OneOwner, Owns
  <1>8. \A q \in Importers \ {p} : Owns(q) => job[q].id # id
    BY <1>1, OwnersApart
  <1>9. OthersUnharmed(p)
    BY <1>2, <1>4, <1>5, <1>8, OwnersApart DEF OthersUnharmed, Has
  <1>10. AttemptKnows(job[p])' /\ ServiceKnows(job[p])'
    BY <1>1, <1>2, <1>3, <1>4, <1>5 DEF AttemptKnows, ServiceKnows, AttemptSteps, OwningSteps, SanitizeSteps, Has
  <1>11. JobsKnow'
    BY <1>9, <1>10, OthersKnow DEF ImportInv
  <1>12. Judgement' /\ Registered'
    BY <1>2 DEF ImportInv, Judgement, Registered, Has
  <1>13. ~Has(imports, id)
    BY <1>1, OwnersApart
  <1>14. CatalogUnharmed
    BY <1>2, <1>5, <1>13 DEF CatalogUnharmed, ImportInv, ImportedIsBacked, Has
  <1>15. ImportedIsBacked'
    BY <1>2, <1>14 DEF CatalogUnharmed, ImportInv, ImportedIsBacked, Has
  <1> QED BY <1>6, <1>7, <1>11, <1>12, <1>14, <1>15 DEF ImportInv

LEMMA InsertKeeps == ASSUME ImportInv, NEW p \in Importers, InsertImport(p) PROVE ImportInv' /\ CatalogUnharmed
  <1> DEFINE id == job[p].id
             r == [status |-> job[p].status, paths |-> job[p].paths, canonical |-> canonicals[id]]
  <1>1. job[p] \in Attempting /\ job[p].pc = "insert" /\ AttemptKnows(job[p]) /\ Owns(p)
    BY Shapes DEF ImportInv, ImportTyped, JobsKnow, InsertImport, Doing, AttemptSteps, OwningSteps, Owns
  <1>2. /\ job' = [job EXCEPT ![p] = Free]
        /\ imports' = With(imports, id, r)
        /\ UNCHANGED <<content, artifacts, canonicals, derivatives, certified, lineage, jobs>>
    BY DEF InsertImport, Set
  <1>3. /\ Has(artifacts, id) /\ artifacts[id].preserved = id.contents /\ ~Has(imports, id)
        /\ Has(canonicals, id) /\ canonicals[id] = CanonicalRows(id.contents)
        /\ id \in DatasetIds /\ job[p].status = Judged(id)
    BY <1>1 DEF AttemptKnows, AttemptSteps, OwningSteps, Attempting
  <1>4. r \in ImportRows /\ r.status = Judged(id) /\ r.canonical = CanonicalRows(id.contents)
    BY <1>1, <1>3 DEF ImportRows, Attempting, AttemptKnows, AttemptSteps
  <1>5. id \notin certified
    BY <1>3 DEF ImportInv, ImportTyped, Has
  <1> HIDE DEF r
  <1>6. job' \in [Importers -> Jobs] /\ job'[p] = Free /\ \A q \in Importers \ {p} : job'[q] = job[q]
    BY <1>2, FreeKnows DEF ImportInv, ImportTyped
  <1>7. /\ DOMAIN imports' = DOMAIN imports \cup {id} /\ imports'[id] = r
        /\ \A other \in DOMAIN imports : imports'[other] = imports[other]
    BY <1>2, <1>3 DEF With, Has
  <1>8. ImportTyped'
    BY <1>2, <1>3, <1>4, <1>6, <1>7 DEF ImportInv, ImportTyped
  <1>9. OneOwner'
    BY <1>6, FreeKnows DEF ImportInv, OneOwner, Owns
  <1>10. \A q \in Importers \ {p} : Owns(q) => job[q].id # id
    BY <1>1, OwnersApart
  <1>11. OthersUnharmed(p)
    BY <1>2, <1>6, <1>7, <1>10, OwnersApart DEF OthersUnharmed, Has
  <1>12. AttemptKnows(job[p])' /\ ServiceKnows(job[p])'
    BY <1>6 DEF AttemptKnows, ServiceKnows, Free, AttemptSteps, OwningSteps, SanitizeSteps
  <1>13. JobsKnow'
    BY <1>11, <1>12, OthersKnow DEF ImportInv
  <1>14. Judgement'
    BY <1>4, <1>7 DEF ImportInv, Judgement, Judged
  <1>15. Registered'
    BY <1>2, <1>7 DEF ImportInv, Registered, Has
  <1>16. CatalogUnharmed
    BY <1>2, <1>7 DEF CatalogUnharmed, ImportInv, ImportedIsBacked, Has
  <1>17. ImportedIsBacked'
    BY <1>2, <1>3, <1>4, <1>5, <1>7 DEF ImportInv, ImportedIsBacked, Has
  <1> QED BY <1>8, <1>9, <1>13, <1>14, <1>15, <1>16, <1>17 DEF ImportInv

\* An attempt that fails removes only what it owns.
LEMMA FailKeeps == ASSUME ImportInv, NEW p \in Importers, ImportFails(p) PROVE ImportInv' /\ CatalogUnharmed
  <1> USE DEF catalogVars
  <1> DEFINE id == job[p].id
  <1>1. /\ job' = [job EXCEPT ![p] = Free]
        /\ UNCHANGED <<content, derivatives, catalogVars, jobs>>
    BY DEF ImportFails, Set
  <1>2. job' \in [Importers -> Jobs] /\ job'[p] = Free /\ \A q \in Importers \ {p} : job'[q] = job[q]
    BY <1>1, FreeKnows DEF ImportInv, ImportTyped
  <1>3. /\ ~Owns(p) => UNCHANGED <<artifacts, canonicals>>
        /\ DOMAIN artifacts' \subseteq DOMAIN artifacts
        /\ \A other \in DOMAIN artifacts \ {id} : Has(artifacts, other)' /\ artifacts'[other] = artifacts[other]
        /\ \A other \in DOMAIN canonicals \ {id} : Has(canonicals, other)' /\ canonicals'[other] = canonicals[other]
    <2>1. ~Owns(p) => UNCHANGED <<artifacts, canonicals>>
      BY DEF ImportFails, Owns, OwningSteps
    <2>2. artifacts' = artifacts \/ artifacts' = Without(artifacts, id)
      BY DEF ImportFails
    <2>3. canonicals' = canonicals \/ canonicals' = Without(canonicals, id) \/ canonicals' = With(canonicals, id, Torn)
      BY DEF ImportFails
    <2>4. DOMAIN artifacts' \subseteq DOMAIN artifacts
          /\ \A other \in DOMAIN artifacts \ {id} : Has(artifacts, other)' /\ artifacts'[other] = artifacts[other]
      BY <2>2 DEF Without, Restrict, Has
    <2>5. \A other \in DOMAIN canonicals \ {id} : Has(canonicals, other)' /\ canonicals'[other] = canonicals[other]
      BY <2>3 DEF Without, Restrict, With, Has
    <2> QED BY <2>1, <2>4, <2>5
  <1>4. ImportTyped'
    BY <1>1, <1>2, <1>3 DEF ImportInv, ImportTyped
  <1>5. OneOwner'
    BY <1>2, FreeKnows DEF ImportInv, OneOwner, Owns
  <1>6. \A q \in Importers \ {p} : Owns(p) /\ Owns(q) => job[q].id # id
    BY OwnersApart
  <1>7. OthersUnharmed(p)
    BY <1>1, <1>2, <1>3, <1>6, OwnersApart DEF OthersUnharmed, Has
  <1>8. AttemptKnows(job[p])' /\ ServiceKnows(job[p])'
    BY <1>2 DEF AttemptKnows, ServiceKnows, Free, AttemptSteps, OwningSteps, SanitizeSteps
  <1>9. JobsKnow'
    BY <1>7, <1>8, OthersKnow DEF ImportInv
  <1>10. Judgement' /\ Registered'
    BY <1>1 DEF ImportInv, Judgement, Registered, Has
  <1>11. Owns(p) => ~Has(imports, id)
    BY OwnersApart
  <1>12. CatalogUnharmed
    BY <1>1, <1>3, <1>11 DEF CatalogUnharmed, ImportInv, ImportedIsBacked, Has
  <1>13. ImportedIsBacked'
    BY <1>1, <1>12 DEF CatalogUnharmed, ImportInv, ImportedIsBacked, Has
  <1> QED BY <1>4, <1>5, <1>9, <1>10, <1>12, <1>13 DEF ImportInv

LEMMA CommitKeeps == ASSUME ImportInv, NEW p \in Importers, CommitCertificate(p) PROVE ImportInv' /\ CatalogUnharmed
  <1> DEFINE id == job[p].id
  <1>1. job[p] \in Certifying /\ Has(imports, id) /\ ~Serious(id.contents)
    BY Shapes DEF ImportInv, ImportTyped, JobsKnow, ServiceKnows, CommitCertificate, Doing
  <1>2. /\ job' = [job EXCEPT ![p] = Free]
        /\ UNCHANGED <<content, artifacts, canonicals, derivatives, lineage, journal, jobs>>
        /\ \/ UNCHANGED <<imports, certified>>
           \/ certified' = certified \cup {id} /\ imports' = [imports EXCEPT ![id].status = "CERTIFIED"]
           \/ certified' = certified \cup {id} /\ imports' = imports
    BY DEF CommitCertificate, Set
  <1>3. job' \in [Importers -> Jobs] /\ job'[p] = Free /\ \A q \in Importers \ {p} : job'[q] = job[q]
    BY <1>2, FreeKnows DEF ImportInv, ImportTyped
  <1>4. /\ DOMAIN imports' = DOMAIN imports /\ certified' \subseteq certified \cup {id}
        /\ \A other \in DOMAIN imports : other # id => imports'[other] = imports[other]
        /\ imports'[id] \in ImportRows /\ imports'[id].canonical = imports[id].canonical
    <2>1. imports[id] \in ImportRows
      BY <1>1 DEF ImportInv, ImportTyped, Has
    <2> QED BY <1>1, <1>2, <2>1 DEF ImportRows, Statuses, Has
  <1>5. ImportTyped'
    BY <1>1, <1>2, <1>3, <1>4 DEF ImportInv, ImportTyped, Has
  <1>6. OneOwner'
    BY <1>3, FreeKnows DEF ImportInv, OneOwner, Owns
  <1>7. OthersUnharmed(p)
    BY <1>2, <1>3, <1>4, OwnersApart DEF OthersUnharmed, Has
  <1>8. AttemptKnows(job[p])' /\ ServiceKnows(job[p])'
    BY <1>3 DEF AttemptKnows, ServiceKnows, Free, AttemptSteps, OwningSteps, SanitizeSteps
  <1>9. JobsKnow'
    BY <1>7, <1>8, OthersKnow DEF ImportInv
  <1>10. Judgement'
    BY <1>1, <1>4 DEF ImportInv, Judgement
  <1>11. Registered'
    BY <1>2, <1>4 DEF ImportInv, Registered, Has
  <1>12. CatalogUnharmed
    BY <1>2, <1>4 DEF CatalogUnharmed, ImportInv, ImportedIsBacked, Has
  <1>13. ImportedIsBacked'
    BY <1>1, <1>2, <1>4 DEF ImportInv, ImportedIsBacked, Has
  <1> QED BY <1>5, <1>6, <1>9, <1>10, <1>11, <1>12, <1>13 DEF ImportInv

LEMMA PublishKeeps == ASSUME ImportInv, NEW p \in Importers, PublishDerivative(p) PROVE ImportInv' /\ CatalogUnharmed
  <1> USE DEF catalogVars
  <1> DEFINE id == job[p].id
  <1>1. job[p] \in Sanitizing /\ job[p].pc = "stage" /\ Has(imports, id)
    BY Shapes DEF ImportInv, ImportTyped, JobsKnow, ServiceKnows, PublishDerivative, Doing, SanitizeSteps
  <1>2. PICK j : job' = [job EXCEPT ![p] = j]
        /\ \/ Has(derivatives, id) /\ derivatives' = derivatives
                /\ j = [job[p] EXCEPT !.pc = "register", !.manifest = derivatives[id]]
           \/ ~Has(derivatives, id) /\ derivatives' = With(derivatives, id, job[p].manifest)
                /\ j = [job[p] EXCEPT !.pc = "register"]
    BY DEF PublishDerivative, Set
  <1>3. UNCHANGED <<content, artifacts, canonicals, imports, certified, lineage, journal, jobs>>
    BY DEF PublishDerivative
  <1>4. /\ DOMAIN derivatives' = DOMAIN derivatives \cup {id} /\ derivatives'[id] \in Manifests
        /\ \A other \in DOMAIN derivatives : derivatives'[other] = derivatives[other]
    BY <1>1, <1>2 DEF With, Has, ImportInv, ImportTyped, Sanitizing
  <1>5. j \in Sanitizing /\ j.pc = "register" /\ j.id = id /\ j.manifest = derivatives'[id]
    <2>1. CASE Has(derivatives, id)
      <3>1. derivatives[id] \in Manifests /\ j = [job[p] EXCEPT !.pc = "register", !.manifest = derivatives[id]]
            /\ derivatives' = derivatives
        BY <1>2, <2>1 DEF ImportInv, ImportTyped, Has
      <3> QED BY <1>1, <3>1 DEF Sanitizing, SanitizeSteps
    <2>2. CASE ~Has(derivatives, id)
      <3>1. j = [job[p] EXCEPT !.pc = "register"] /\ derivatives'[id] = job[p].manifest
        BY <1>2, <2>2 DEF With
      <3> QED BY <1>1, <3>1 DEF Sanitizing, SanitizeSteps
    <2> QED BY <2>1, <2>2
  <1>6. job' \in [Importers -> Jobs] /\ job'[p] = j /\ \A q \in Importers \ {p} : job'[q] = job[q]
    BY <1>2, <1>5 DEF ImportInv, ImportTyped, Jobs
  <1>7. id \in DatasetIds
    BY <1>1 DEF Sanitizing
  <1>8. ImportTyped'
    BY <1>3, <1>4, <1>6, <1>7 DEF ImportInv, ImportTyped
  <1>9. OneOwner'
    BY <1>5, <1>6 DEF ImportInv, OneOwner, Owns, OwningSteps
  <1>10. OthersUnharmed(p)
    BY <1>3, <1>4, <1>6, OwnersApart DEF OthersUnharmed, Has
  <1>11. AttemptKnows(job[p])' /\ ServiceKnows(job[p])'
    BY <1>1, <1>3, <1>4, <1>5, <1>6 DEF AttemptKnows, ServiceKnows, AttemptSteps, OwningSteps, SanitizeSteps, Has
  <1>12. JobsKnow'
    BY <1>10, <1>11, OthersKnow DEF ImportInv
  <1>13. Judgement'
    BY <1>3 DEF ImportInv, Judgement
  <1>14. Registered'
    BY <1>3, <1>4 DEF ImportInv, ImportTyped, Registered, Has
  <1>15. CatalogUnharmed
    BY <1>3, <1>4 DEF CatalogUnharmed, ImportInv, ImportedIsBacked, Has
  <1>16. ImportedIsBacked'
    BY <1>3 DEF ImportInv, ImportedIsBacked, Has
  <1> QED BY <1>8, <1>9, <1>12, <1>13, <1>14, <1>15, <1>16 DEF ImportInv

LEMMA RegisterKeeps == ASSUME ImportInv, NEW p \in Importers, RegisterDerivative(p) PROVE ImportInv' /\ CatalogUnharmed
  <1> DEFINE id == job[p].id
  <1>1. /\ job[p] \in Sanitizing /\ job[p].pc = "register" /\ Has(imports, id)
        /\ Has(derivatives, id) /\ derivatives[id] = job[p].manifest
    BY Shapes DEF ImportInv, ImportTyped, JobsKnow, ServiceKnows, RegisterDerivative, Doing, SanitizeSteps
  <1>2. PICK j : job' = [job EXCEPT ![p] = j]
        /\ \/ Has(lineage, id) /\ lineage' = lineage /\ j = Free
           \/ ~Has(lineage, id) /\ lineage' = With(lineage, id, job[p].manifest)
                /\ j = [job[p] EXCEPT !.pc = "journal"]
    BY DEF RegisterDerivative, Set
  <1>3. UNCHANGED <<content, artifacts, canonicals, derivatives, imports, certified, journal, jobs>>
    BY DEF RegisterDerivative
  <1>4. j = Free \/ (j \in Sanitizing /\ j.pc = "journal" /\ j.id = id /\ j.manifest = job[p].manifest)
    BY <1>1, <1>2 DEF Sanitizing, SanitizeSteps
  <1>5. /\ DOMAIN lineage' \subseteq DOMAIN lineage \cup {id}
        /\ \A other \in DOMAIN lineage : Has(lineage, other)' /\ lineage'[other] = lineage[other]
        /\ id \in DOMAIN lineage' /\ id \notin DOMAIN lineage => lineage'[id] = derivatives[id]
    BY <1>1, <1>2 DEF With, Has
  <1>6. job' \in [Importers -> Jobs] /\ job'[p] = j /\ \A q \in Importers \ {p} : job'[q] = job[q]
    BY <1>2, <1>4, FreeKnows DEF ImportInv, ImportTyped, Jobs
  <1>7. ImportTyped'
    BY <1>1, <1>3, <1>5, <1>6 DEF ImportInv, ImportTyped, Has
  <1>8. OneOwner'
    BY <1>4, <1>6, FreeKnows DEF ImportInv, OneOwner, Owns, OwningSteps
  <1>9. OthersUnharmed(p)
    BY <1>3, <1>6, OwnersApart DEF OthersUnharmed, Has
  <1>10. AttemptKnows(job[p])' /\ ServiceKnows(job[p])'
    BY <1>1, <1>3, <1>4, <1>6
    DEF AttemptKnows, ServiceKnows, Free, AttemptSteps, OwningSteps, SanitizeSteps, Has
  <1>11. JobsKnow'
    BY <1>9, <1>10, OthersKnow DEF ImportInv
  <1>12. Judgement'
    BY <1>3 DEF ImportInv, Judgement
  <1>13. Registered'
    BY <1>1, <1>3, <1>5 DEF ImportInv, Registered, Has
  <1>14. CatalogUnharmed
    BY <1>3, <1>5 DEF CatalogUnharmed, ImportInv, ImportedIsBacked, Has
  <1>15. ImportedIsBacked'
    BY <1>3 DEF ImportInv, ImportedIsBacked, Has
  <1> QED BY <1>7, <1>8, <1>11, <1>12, <1>13, <1>14, <1>15 DEF ImportInv

-----------------------------------------------------------------------------
(* Theorems. *)

LEMMA ImportInit_Inv == ImportInit => ImportInv
  <1> SUFFICES ASSUME ImportInit PROVE ImportInv
    OBVIOUS
  <1>1. \A x : x \notin DOMAIN <<>>
    OBVIOUS
  <1>2. \A p \in Importers : job[p] = Free
    BY DEF ImportInit
  <1>3. ImportTyped
    BY <1>1, FreeKnows DEF ImportInit, ImportTyped
  <1>4. OneOwner /\ JobsKnow
    BY <1>2, FreeKnows DEF OneOwner, Owns, JobsKnow
  <1>5. Judgement /\ Registered /\ ImportedIsBacked
    BY <1>1 DEF ImportInit, Judgement, Registered, ImportedIsBacked
  <1> QED BY <1>3, <1>4, <1>5 DEF ImportInv

\* A step of the stores that are not written to.
LEMMA StillUnharmed == ASSUME ImportInv, UNCHANGED stores PROVE CatalogUnharmed
  BY DEF stores, CatalogUnharmed, ImportInv, ImportedIsBacked, Has

LEMMA ImportNext_Inv == ASSUME ImportInv, [ImportNext]_importVars PROVE ImportInv' /\ CatalogUnharmed
  <1>1. CASE UNCHANGED importVars
    <2>1. UNCHANGED stores
      BY <1>1 DEF importVars, catalogVars, stores
    <2>2. ImportInv'
      BY <1>1 DEF importVars, catalogVars, ImportInv, ImportTyped, OneOwner, Owns, JobsKnow, AttemptKnows,
                  ServiceKnows, Judgement, Registered, ImportedIsBacked, Has
    <2> QED BY <2>1, <2>2, StillUnharmed
  <1>2. CASE Edit
    BY <1>2, EditKeeps, StillUnharmed DEF Edit, catalogVars, stores
  <1>3. ASSUME NEW p \in Importers,
               \/ Import(p) \/ Copy(p) \/ CheckCollision(p) \/ RequestCertificate(p)
               \/ Sanitize(p) \/ AppendJournal(p) \/ Kill(p)
        PROVE  ImportInv' /\ CatalogUnharmed
    <2>1. UNCHANGED stores
      BY <1>3 DEF Import, Copy, CheckCollision, RequestCertificate, Sanitize, AppendJournal, Kill, catalogVars, stores
    <2> QED
      BY <1>3, <2>1, StillUnharmed, ImportKeeps, CopyKeeps, CollisionKeeps, RequestKeeps, SanitizeKeeps, JournalKeeps,
         KillKeeps
  <1>4. ASSUME NEW p \in Importers,
               \/ Promote(p) \/ CopyCanonical(p) \/ InsertImport(p) \/ ImportFails(p)
               \/ CommitCertificate(p) \/ PublishDerivative(p) \/ RegisterDerivative(p)
        PROVE  ImportInv' /\ CatalogUnharmed
    BY <1>4, PromoteKeeps, CanonicalKeeps, InsertKeeps, FailKeeps, CommitKeeps, PublishKeeps, RegisterKeeps
  <1> QED BY <1>1, <1>2, <1>3, <1>4 DEF ImportNext

(* In every reachable state a promoted directory that is not registered yet *)
(* has at most one attempt that may remove it, each process knows what its  *)
(* next write relies on, and the catalog is backed (import_files, certify,  *)
(* sanitize_external).                                                      *)
THEOREM ImportInvariant == ImportSpec => []ImportInv
  <1> QED BY ImportInit_Inv, ImportNext_Inv, PTL DEF ImportSpec

(* A catalogued import has the preserved copies of its identity and the     *)
(* canonical file of its checksum, and what is certified was not in error,  *)
(* whatever else is imported, fails or is killed.                           *)
THEOREM ImportedIsBackedHolds == ImportSpec => []ImportedIsBacked
  <1>1. ImportInv => ImportedIsBacked
    BY DEF ImportInv
  <1> QED BY <1>1, ImportInvariant, PTL

(* A registered derivative is the one on disk, its import is there, and its *)
(* segments bridge no excluded row and no hole but a documented weekend,    *)
(* for files of any length on any grid.                                     *)
THEOREM DerivativeTraceableHolds == ImportSpec => []DerivativeTraceable
  <1>1. ImportInv => DerivativeTraceable
    <2> SUFFICES ASSUME ImportInv, NEW id \in DOMAIN lineage
                 PROVE  /\ Has(imports, id) /\ Has(derivatives, id) /\ derivatives[id] = lineage[id]
                        /\ Unbroken(lineage[id].bars)
      BY DEF DerivativeTraceable
    <2>1. Has(imports, id) /\ Has(derivatives, id) /\ derivatives[id] = lineage[id]
      BY DEF ImportInv, ImportTyped, Registered, Has
    <2>2. derivatives[id] \in Manifests
      BY <2>1 DEF ImportInv, ImportTyped, Has
    <2>3. PICK rows \in SourceContents : lineage[id].bars = Sanitized(rows)
      BY <2>1, <2>2 DEF Manifests
    <2> QED BY <2>1, <2>3, SanitizedUnbroken
  <1> QED BY <1>1, ImportInvariant, PTL

(* No step of any process, nor its failure, changes or removes a file that  *)
(* the catalog names: the clean-up of a failed attempt spares what others   *)
(* have registered, and a derivative once published is never replaced.      *)
CatalogStays == [][CatalogUnharmed]_importVars

THEOREM CatalogStaysHolds == ImportSpec => CatalogStays
  <1>1. ImportInv /\ [ImportNext]_importVars => [CatalogUnharmed]_importVars
    BY ImportNext_Inv
  <1> QED BY <1>1, ImportInvariant, PTL DEF ImportSpec, CatalogStays
==============================================================================
