------------------------------ MODULE Observations ------------------------------
(***************************************************************************)
(* What every data store does to the rows it is given: merge overlapping   *)
(* answers, audit them, cut them into continuity segments, sanitize a raw  *)
(* file.  A row is [t, v]: t a time on a grid of Grid units (NoTime when   *)
(* the timestamp cannot be read), v the bar's values taken as one, members *)
(* of Invalid being the values no integrity rule accepts.                  *)
(***************************************************************************)
EXTENDS Integers, Sequences, FiniteSets, FiniteSetsExt, SequencesExt

CONSTANTS NoTime, Invalid, Grid, Week, WeekClose, WeekOpen

\* The rows that disagree with another row at their timestamp.
Conflicts(rows) == {o \in rows : \E p \in rows : p.t = o.t /\ p.v # o.v}

\* audit: a table that is a set of unique rows fails on its values only.
Erroneous(rows) == \E o \in rows : o.v \in Invalid

Times(rows) == {o.t : o \in rows}

\* SessionProfile.classify with documented weekly boundaries: the last bar
\* ends at the close and the next one opens the following week.
ExpectedWeekend(p, n) ==
    /\ (p + Grid) % Week = WeekClose
    /\ n = p + Grid + ((WeekOpen - WeekClose) % Week)

\* One jump of the inventory resets the segment unless it is documented.
Resets(p, n, excluded, documented) ==
    /\ (n - p) \div Grid - 1 > 0
    /\ (\E e \in excluded : p < e /\ e < n) \/ ~(documented /\ ExpectedWeekend(p, n))

\* The segment of every bar of an ascending sequence of times.
Segments(times, excluded, documented) ==
    [i \in DOMAIN times |->
        Cardinality({j \in 2..i : Resets(times[j - 1], times[j], excluded, documented)})]

\* A set of times in ascending order: its i-th time has i - 1 before it.
Ascending(times) ==
    [i \in 1..Cardinality(times) |->
        CHOOSE t \in times : Cardinality({u \in times : u < t}) = i - 1]

-----------------------------------------------------------------------------
(* sanitize: every source row gets one classification, only VALID rows stay *)

OwnReason(row) == IF row.t = NoTime THEN "INVALID_TIMESTAMP"
                  ELSE IF row.v \in Invalid THEN "INVALID_OHLC"
                  ELSE IF row.t % Grid # 0 THEN "OFF_GRID" ELSE "VALID"

Reason(rows, i) ==
    LET same == {j \in DOMAIN rows : rows[i].t # NoTime /\ rows[j].t = rows[i].t}
    IN  IF \E j \in same : rows[j].v # rows[i].v THEN "DUPLICATE_CONFLICT"
        ELSE IF OwnReason(rows[i]) = "VALID" /\ \E j \in same : j < i
             THEN "DUPLICATE_IDENTICAL" ELSE OwnReason(rows[i])

\* The derivative: retained bars, their segments, the times that were excluded.
Sanitized(rows) ==
    LET reason == [i \in DOMAIN rows |-> Reason(rows, i)]
        times == Ascending({rows[i].t : i \in {j \in DOMAIN rows : reason[j] = "VALID"}})
        unreliable == {rows[i].t : i \in {j \in DOMAIN rows :
                           reason[j] \notin {"VALID", "DUPLICATE_IDENTICAL", "INVALID_TIMESTAMP"}}}
    IN  [times |-> times, excluded |-> unreliable,
         segments |-> IF \E i \in DOMAIN rows : reason[i] = "INVALID_TIMESTAMP"
                      THEN [i \in DOMAIN times |-> i - 1]
                      ELSE Segments(times, unreliable, TRUE)]

-----------------------------------------------------------------------------
(* _normalize: component files to one canonical file and its issues *)

\* A file is parsed whole: one unreadable timestamp drops the file's rows.
Readable(rows) == \A i \in DOMAIN rows : rows[i].t # NoTime

CanonicalRows(files) == FlattenSeq(SelectSeq(files, Readable))

\* Some issue of category confirmed_data_error: unreadable file, bad value,
\* off the grid, out of order, or a timestamp seen before.
Serious(files) ==
    LET rows == CanonicalRows(files)
    IN  \/ \E k \in DOMAIN files : ~Readable(files[k])
        \/ \E i \in DOMAIN rows : rows[i].v \in Invalid \/ rows[i].t % Grid # 0
        \/ \E i, j \in DOMAIN rows : i < j /\ rows[i].t >= rows[j].t
=============================================================================
