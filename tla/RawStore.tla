------------------------------- MODULE RawStore -------------------------------
(***************************************************************************)
(* The raw candle store: a download from the terminal in chunks with       *)
(* retries, and the monthly writer that merges the answer into the         *)
(* canonical Parquet file of each month, its metadata sidecar and the      *)
(* catalog row, through a receipt that lets the next run tell its own      *)
(* interrupted publish from tampering.  One step is one file replacement   *)
(* or one transaction; the process may die between any two.  A file's      *)
(* checksum stands for its content.                                        *)
(***************************************************************************)
EXTENDS Observations

CONSTANTS Slots,          \* the minutes a download may ask for
          MonthLength,    \* minutes per month
          Quotes,         \* the terminal's histories: functions from Slots to values
          ChunkLength, Retries,
          MaxDownloads, MaxCrashes,
          NoFile

\* The rows the terminal may answer with.
RawRows == UNION {{[t |-> t, v |-> quote[t]] : t \in DOMAIN quote} : quote \in Quotes}

\* A missing file is told from every table, and from every receipt.
ASSUME NoFileAssumption ==
    /\ \A table \in SUBSET RawRows : table # NoFile
    /\ NoFile \notin [previous : (SUBSET RawRows) \cup {NoFile}, checksum : SUBSET RawRows]

VARIABLES file,           \* month -> the canonical Parquet's rows
          sidecar,        \* month -> what the metadata file describes
          receipt,        \* month -> the pending receipt
          row,            \* month -> checksum in the catalog's datasets table
          revisions,      \* month -> checksums in raw_dataset_revisions
          kept,           \* month -> files under .revisions
          evidence,       \* rows preserved under quarantine
          writer,         \* the process that downloads and writes
          spent           \* downloads and crashes so far (bounds)

disk == <<file, sidecar, receipt, kept, evidence>>
rawVars == <<disk, row, revisions, writer, spent>>

Month(t) == t \div MonthLength
Months == {Month(t) : t \in Slots}
InMonth(rows, m) == {o \in rows : Month(o.t) = m}

Idle == [pc |-> "idle"]
Writing(pc, todo, frame) == [pc |-> pc, todo |-> todo, frame |-> frame]
At(pc) == writer.pc = pc
Current == Min(writer.todo)

\* inventory over a month with the default, undocumented session profile.
Describe(table) ==
    [times |-> Times(table), segments |-> Segments(Ascending(Times(table)), {}, FALSE)]

RawInit ==
    /\ file = [m \in Months |-> NoFile]
    /\ sidecar = [m \in Months |-> NoFile]
    /\ receipt = [m \in Months |-> NoFile]
    /\ row = [m \in Months |-> NoFile]
    /\ revisions = [m \in Months |-> {}]
    /\ kept = [m \in Months |-> {}]
    /\ evidence = {}
    /\ writer = Idle
    /\ spent = [downloads |-> 0, crashes |-> 0]

-----------------------------------------------------------------------------
(* download *)

\* chunk_ranges: half-open cursor, inclusive request, so neighbours overlap.
ChunkRanges(start, end) ==
    [i \in 1..((end - start + ChunkLength - 1) \div ChunkLength) |->
        [left |-> start + (i - 1) * ChunkLength, right |-> Min({start + i * ChunkLength, end})]]

Download ==
    /\ At("idle") /\ spent.downloads < MaxDownloads
    /\ \E start, end \in Slots :
         /\ start < end
         /\ writer' = [pc |-> "rates", chunks |-> ChunkRanges(start, end), attempt |-> 1, frame |-> {}]
    /\ spent' = [spent EXCEPT !.downloads = @ + 1]
    /\ UNCHANGED <<disk, row, revisions>>

\* The terminal answers a chunk with the bars it has now.
Rates ==
    /\ At("rates")
    /\ LET chunk == Head(writer.chunks)
       IN  \E quote \in Quotes :
             LET frame == writer.frame \cup
                          {[t |-> t, v |-> quote[t]] :
                              t \in {s \in DOMAIN quote : chunk.left <= s /\ s <= chunk.right}}
             IN  writer' = IF Len(writer.chunks) > 1
                           THEN [writer EXCEPT !.chunks = Tail(@), !.attempt = 1, !.frame = frame]
                           ELSE Writing("begin", {}, frame)
    /\ UNCHANGED <<disk, row, revisions, spent>>

\* MT5Error: the chunk is asked again, the last failure ends the download.
RatesFail ==
    /\ At("rates")
    /\ writer' = IF writer.attempt < Retries THEN [writer EXCEPT !.attempt = @ + 1] ELSE Idle
    /\ UNCHANGED <<disk, row, revisions, spent>>

-----------------------------------------------------------------------------
(* write_months *)

\* normalize_chunks and audit of the whole answer before any month is touched.
Begin ==
    /\ At("begin")
    /\ LET refused == Conflicts(writer.frame) # {} \/ Erroneous(writer.frame)
       IN  /\ writer' = IF refused \/ writer.frame = {} THEN Idle
                        ELSE Writing("lookup", {Month(o.t) : o \in writer.frame}, writer.frame)
           /\ evidence' = IF refused /\ Conflicts(writer.frame) = {}
                          THEN evidence \cup writer.frame ELSE evidence
    /\ UNCHANGED <<file, sidecar, receipt, kept, row, revisions, spent>>

\* upsert_raw_dataset: one transaction, prior and new checksum become revisions.
Upsert(m) ==
    /\ row' = [row EXCEPT ![m] = file[m]]
    /\ revisions' = [revisions EXCEPT ![m] = @ \cup ({row[m], file[m]} \ {NoFile})]

\* The pending receipt names exactly the registered and the present checksum.
Explained(m) == receipt[m] = [previous |-> row[m], checksum |-> file[m]]

\* A registered month must match its row, or be an explained interruption.
Lookup ==
    /\ At("lookup")
    /\ LET m == Current
       IN  \/ /\ row[m] \in {NoFile, file[m]}
              /\ writer' = [writer EXCEPT !.pc = "merge"]
              /\ UNCHANGED <<row, revisions>>
           \/ /\ row[m] \notin {NoFile, file[m]} /\ file[m] # NoFile /\ Explained(m)
              /\ Upsert(m)
              /\ writer' = [writer EXCEPT !.pc = "merge"]
           \/ /\ row[m] \notin {NoFile, file[m]} /\ ~(file[m] # NoFile /\ Explained(m))
              /\ writer' = Idle
              /\ UNCHANGED <<row, revisions>>
    /\ UNCHANGED <<disk, spent>>

OnDisk(m) == IF file[m] = NoFile THEN {} ELSE file[m]
Merged(m) == OnDisk(m) \cup InMonth(writer.frame, m)

\* Mutant: a month whose rows did not change is not repaired, only released.
MergeMutant ==
    /\ At("merge")
    /\ LET m == Current
           conflicts == Conflicts(Merged(m))
       IN  /\ evidence' = evidence \cup conflicts
           /\ writer' = IF conflicts # {} THEN Idle
                        ELSE [writer EXCEPT !.pc = IF Merged(m) = file[m] THEN "unlink" ELSE "keep"]
    /\ UNCHANGED <<file, sidecar, receipt, kept, row, revisions, spent>>

\* A conflicting observation is preserved as evidence and stops the write.
Merge ==
    /\ At("merge")
    /\ LET m == Current
           conflicts == Conflicts(Merged(m))
       IN  /\ evidence' = evidence \cup conflicts
           /\ writer' = IF conflicts # {} THEN Idle
                        ELSE [writer EXCEPT !.pc = IF Merged(m) = file[m] THEN "sidecar" ELSE "keep"]
    /\ UNCHANGED <<file, sidecar, receipt, kept, row, revisions, spent>>

\* Mutant: a pending receipt is taken to mean the old bytes were kept before.
KeepMutant ==
    /\ At("keep")
    /\ LET m == Current
       IN  kept' = [kept EXCEPT ![m] =
                     IF receipt[m] = NoFile THEN @ \cup ({file[m]} \ {NoFile}) ELSE @]
    /\ writer' = [writer EXCEPT !.pc = "receipt"]
    /\ UNCHANGED <<file, sidecar, receipt, evidence, row, revisions, spent>>

\* _atomic_parquet: the old bytes first, then the receipt, then the rename.
Keep ==
    /\ At("keep")
    /\ LET m == Current
       IN  kept' = [kept EXCEPT ![m] = @ \cup ({file[m]} \ {NoFile})]
    /\ writer' = [writer EXCEPT !.pc = "receipt"]
    /\ UNCHANGED <<file, sidecar, receipt, evidence, row, revisions, spent>>

\* Mutant: a receipt that is still pending is left as it is.
WriteReceiptMutant ==
    /\ At("receipt")
    /\ LET m == Current
       IN  receipt' = [receipt EXCEPT ![m] =
                        IF @ = NoFile THEN [previous |-> file[m], checksum |-> Merged(m)] ELSE @]
    /\ writer' = [writer EXCEPT !.pc = "replace"]
    /\ UNCHANGED <<file, sidecar, kept, evidence, row, revisions, spent>>

WriteReceipt ==
    /\ At("receipt")
    /\ LET m == Current
       IN  receipt' = [receipt EXCEPT ![m] = [previous |-> file[m], checksum |-> Merged(m)]]
    /\ writer' = [writer EXCEPT !.pc = "replace"]
    /\ UNCHANGED <<file, sidecar, kept, evidence, row, revisions, spent>>

Replace ==
    /\ At("replace")
    /\ file' = [file EXCEPT ![Current] = Merged(Current)]
    /\ writer' = [writer EXCEPT !.pc = "sidecar"]
    /\ UNCHANGED <<sidecar, receipt, kept, evidence, row, revisions, spent>>

WriteSidecar ==
    /\ At("sidecar")
    /\ sidecar' = [sidecar EXCEPT ![Current] = Describe(Merged(Current))]
    /\ writer' = [writer EXCEPT !.pc = "upsert"]
    /\ UNCHANGED <<file, receipt, kept, evidence, row, revisions, spent>>

Register ==
    /\ At("upsert")
    /\ Upsert(Current)
    /\ writer' = [writer EXCEPT !.pc = "unlink"]
    /\ UNCHANGED <<disk, spent>>

\* The receipt goes last; then the next month of the answer.
Unlink ==
    /\ At("unlink")
    /\ receipt' = [receipt EXCEPT ![Current] = NoFile]
    /\ LET rest == writer.todo \ {Current}
       IN  writer' = IF rest = {} THEN Idle ELSE Writing("lookup", rest, writer.frame)
    /\ UNCHANGED <<file, sidecar, kept, evidence, row, revisions, spent>>

Crash ==
    /\ ~At("idle") /\ spent.crashes < MaxCrashes
    /\ writer' = Idle
    /\ spent' = [spent EXCEPT !.crashes = @ + 1]
    /\ UNCHANGED <<disk, row, revisions>>

RawNext == \/ Download \/ Rates \/ RatesFail \/ Begin \/ Lookup \/ Merge \/ Keep
           \/ WriteReceipt \/ Replace \/ WriteSidecar \/ Register \/ Unlink \/ Crash

RawSpec == RawInit /\ [][RawNext]_rawVars

-----------------------------------------------------------------------------
(* Properties *)

(* However a write is interrupted, the next write of a registered month is  *)
(* never refused as tampered with: the file is the registered one or the    *)
(* receipt explains it (write_months, "mismatch without recovery receipt"). *)
RegisteredRecoverable ==
    \A m \in Months :
        row[m] # NoFile => file[m] # NoFile /\ (file[m] = row[m] \/ Explained(m))

(* A month with no receipt pending is whole: file, catalog row and sidecar  *)
(* speak of the same rows, so a crash cannot leave a catalog row, or the    *)
(* continuity segments of the sidecar, behind the file unnoticed.           *)
MonthSettled ==
    \A m \in Months :
        receipt[m] = NoFile =>
            /\ file[m] = row[m]
            /\ file[m] # NoFile => sidecar[m] = Describe(file[m])

(* Every checksum the catalog ever registered for a month can still be read *)
(* back: it is the present file or a preserved revision (_atomic_parquet,   *)
(* "preserve the prior byte-level revision").                               *)
EveryRevisionKept ==
    \A m \in Months : revisions[m] \subseteq kept[m] \cup {file[m]}
=============================================================================
