--------------------------- MODULE MarketArchiveProofs ---------------------------
(***************************************************************************)
(* Theorems about the two archives of the market data, which share nothing.*)
(* FeedArchive: for any number of pollers, any histories of the terminal,  *)
(* and any number of polls and deaths.  TickArchive: for any month of      *)
(* contiguous hours, any payloads of the provider, any number of runs and  *)
(* workers, and any number of fetches and crashes.                         *)
(***************************************************************************)
EXTENDS FeedArchive, TickArchive, FiniteSetTheorems, SequenceTheorems, TLAPS

-----------------------------------------------------------------------------
(* FeedArchive *)

ArchiveTyped ==
  /\ clock \in Nat
  /\ files \in [FeedMonths -> SUBSET SUBSET FeedBars]
  /\ pointer \in [FeedMonths -> (SUBSET FeedBars) \cup {NoPointer}]
  /\ poller = [p \in Pollers |-> poller[p]]
  /\ lock \in Pollers \cup {NoPointer}

\* What a poller has at hand at each of its steps, at a time of the clock.
Shape(x, time) ==
  \/ x = Asleep
  \/ x.pc = "rates" /\ x.now \in 0..time
  \/ x \in [pc : {"lock", "merge"}, bars : SUBSET FeedBars]
  \/ x \in [pc : {"file", "pointer"}, merged : SUBSET FeedBars, bars : SUBSET FeedBars,
            todo : SUBSET FeedMonths]

\* A poller is past the lock exactly while it holds it.
LockHeld == \A p \in Pollers : poller[p].pc \in {"merge", "file", "pointer"} <=> lock = p

\* A pointer names a file of its month, and that has the rows of the month.
Pointed ==
  \A m \in FeedMonths : pointer[m] # NoPointer =>
    pointer[m] \in files[m] /\ \A o \in pointer[m] : FeedMonthOf(o.t) = m

\* What the holder of the lock has merged contains what is archived; the months
\* it is done with are archived as it merged them.
Merging(p) ==
  poller[p].pc \in {"file", "pointer"} =>
    /\ Conflicts(poller[p].merged) = {}
    /\ Archive \subseteq poller[p].merged /\ poller[p].bars \subseteq poller[p].merged
    /\ \A o \in poller[p].merged : FeedMonthOf(o.t) \notin poller[p].todo => o \in Archive
    /\ poller[p].pc = "pointer" =>
         \A m \in FeedMonths : m = Min(poller[p].todo) => Group(p) \in files[m]

FeedInv ==
  /\ ArchiveTyped
  /\ \A p \in Pollers : Shape(poller[p], clock)
  /\ LockHeld
  /\ Pointed
  /\ Conflicts(Archive) = {} /\ acknowledged \subseteq Archive
  /\ \A p \in Pollers : Merging(p)

-----------------------------------------------------------------------------
(* Lemmas about the rows. *)

LEMMA FinishedBars ==
  ASSUME NEW history \in Histories, NEW t \in DOMAIN history
  PROVE  [t |-> t, v |-> history[t]] \in FeedBars
BY DEF FeedBars

LEMMA BarsInMonths == ASSUME NEW o \in FeedBars PROVE FeedMonthOf(o.t) \in FeedMonths
  <1>1. o.t \in 0..MaxClock
    BY FeedAssumption DEF FeedBars
  <1> QED BY <1>1 DEF FeedMonths

LEMMA FewerConflicts ==
  ASSUME NEW rows, NEW more, rows \subseteq more, Conflicts(more) = {}
  PROVE  Conflicts(rows) = {}
BY DEF Conflicts

\* Whatever the terminal says of a bar, one that had ended at the cutoff is finished.
LEMMA AnswersAreFinished ==
  ASSUME NEW history \in Histories, NEW start, NEW now \in 0..clock, clock \in Nat
  PROVE  CompletedBars(Answer(history, start, now), now) \subseteq FeedBars
  <1> SUFFICES ASSUME NEW o \in CompletedBars(Answer(history, start, now), now) PROVE o \in FeedBars
    OBVIOUS
  <1>1. PICK t \in DOMAIN history :
          o = [t |-> t, v |-> IF t + Grid <= clock THEN history[t] ELSE Forming]
    BY DEF CompletedBars, Answer
  <1>2. t + Grid <= now /\ t \in 0..MaxClock
    BY <1>1, FeedAssumption DEF CompletedBars
  <1>3. t + Grid <= clock
    BY <1>2, FeedAssumption
  <1> QED BY <1>1, <1>3, FinishedBars

-----------------------------------------------------------------------------
(* Lemmas about the pollers. *)

LEMMA PollerMoves ==
  ASSUME ArchiveTyped, NEW p \in Pollers, NEW x, Step(p, x)
  PROVE  /\ poller' = [q \in Pollers |-> poller'[q]] /\ poller'[p] = x
         /\ \A q \in Pollers \ {p} : poller'[q] = poller[q]
BY DEF ArchiveTyped, Step

\* Nobody but the holder of the lock is merging.
LEMMA AloneInside ==
  ASSUME FeedInv, NEW p \in Pollers, poller[p].pc \in {"merge", "file", "pointer"}
  PROVE  lock = p /\ \A q \in Pollers \ {p} : poller[q].pc \notin {"merge", "file", "pointer"}
BY DEF FeedInv, LockHeld

\* The invariant after a step that leaves the pointers alone.
LEMMA PointersStand ==
  ASSUME FeedInv, NEW p \in Pollers, NEW x, Step(p, x), pointer' = pointer,
         clock' = clock, acknowledged' = acknowledged,
         files' \in [FeedMonths -> SUBSET SUBSET FeedBars],
         \A m \in FeedMonths : files[m] \subseteq files'[m],
         lock' \in Pollers \cup {NoPointer}, LockHeld',
         Shape(poller'[p], clock'), Merging(p)'
  PROVE  FeedInv'
  <1>1. /\ poller' = [q \in Pollers |-> poller'[q]] /\ poller'[p] = x
        /\ \A q \in Pollers \ {p} : poller'[q] = poller[q]
    BY PollerMoves DEF FeedInv
  <1>2. ArchiveTyped'
    BY <1>1 DEF FeedInv, ArchiveTyped
  <1>3. Archive' = Archive
    BY DEF Archive
  <1>4. Pointed'
    BY DEF FeedInv, Pointed
  <1>5. ASSUME NEW q \in Pollers PROVE Shape(poller'[q], clock') /\ Merging(q)'
    <2>1. CASE q = p
      BY <2>1
    <2>2. CASE q # p
      <3>1. poller'[q] = poller[q]
        BY <1>1, <2>2
      <3>2. Shape(poller'[q], clock')
        BY <3>1 DEF FeedInv, Shape
      <3>3. Merging(q)'
        BY <1>3, <3>1 DEF FeedInv, Merging, Group
      <3> QED BY <3>2, <3>3
    <2> QED BY <2>1, <2>2
  <1>6. Conflicts(Archive)' = {} /\ (acknowledged \subseteq Archive)'
    BY <1>3 DEF FeedInv, Conflicts
  <1> QED BY <1>2, <1>4, <1>5, <1>6 DEF FeedInv

\* A poller outside the lock moves outside it, or gives up.
LEMMA MovesOutside ==
  ASSUME FeedInv, NEW p \in Pollers, NEW x, Step(p, x), poller[p].pc \notin {"merge", "file", "pointer"},
         x.pc \notin {"merge", "file", "pointer"}, Shape(x, clock'),
         UNCHANGED <<clock, files, pointer, lock, acknowledged>>
  PROVE  FeedInv'
  <1>1. poller'[p] = x /\ \A q \in Pollers \ {p} : poller'[q] = poller[q]
    BY PollerMoves DEF FeedInv
  <1>2. LockHeld'
    BY <1>1 DEF FeedInv, LockHeld
  <1>3. Merging(p)' /\ Shape(poller'[p], clock')
    BY <1>1 DEF Merging
  <1> QED BY <1>2, <1>3, PointersStand DEF FeedInv, ArchiveTyped

\* The holder of the lock lets it go.
LEMMA LeavesLock ==
  ASSUME FeedInv, NEW p \in Pollers, Step(p, Asleep), lock' = (IF lock = p THEN NoPointer ELSE lock),
         UNCHANGED <<clock, files, pointer, acknowledged>>
  PROVE  FeedInv'
  <1>1. poller'[p] = Asleep /\ \A q \in Pollers \ {p} : poller'[q] = poller[q]
    BY PollerMoves DEF FeedInv
  <1>2. LockHeld'
    BY <1>1, FeedAssumption DEF FeedInv, LockHeld, Asleep
  <1>3. Merging(p)' /\ Shape(poller'[p], clock')
    BY <1>1 DEF Merging, Shape, Asleep
  <1> QED BY <1>2, <1>3, PointersStand DEF FeedInv, ArchiveTyped

-----------------------------------------------------------------------------
(* The actions. *)

LEMMA TickKeeps ==
  ASSUME FeedInv, Tick
  PROVE  FeedInv'
  <1>1. ArchiveTyped' /\ clock \in Nat /\ clock' = clock + 1
    BY DEF Tick, FeedInv, ArchiveTyped
  <1>2. \A q \in Pollers : Shape(poller'[q], clock')
    BY <1>1 DEF Tick, FeedInv, Shape
  <1>3. \A q \in Pollers : Merging(q)'
    BY DEF Tick, FeedInv, Merging, Archive, Group
  <1>4. LockHeld' /\ Pointed'
    BY DEF Tick, FeedInv, LockHeld, Pointed
  <1>5. Conflicts(Archive)' = {} /\ (acknowledged \subseteq Archive)'
    BY DEF Tick, FeedInv, Archive, Conflicts
  <1> QED BY <1>1, <1>2, <1>3, <1>4, <1>5 DEF FeedInv

LEMMA PollKeeps ==
  ASSUME FeedInv, NEW p \in Pollers, Poll(p)
  PROVE  FeedInv'
  <1>1. PICK start : Step(p, [pc |-> "rates", now |-> clock, start |-> start])
    BY DEF Poll
  <1>2. Shape([pc |-> "rates", now |-> clock, start |-> start], clock')
    BY DEF Poll, Shape, FeedInv, ArchiveTyped
  <1> QED BY <1>1, <1>2, MovesOutside DEF Poll, Phase

\* Only finished bars leave ingest for the lock.
LEMMA IngestKeeps ==
  ASSUME FeedInv, NEW p \in Pollers, Ingest(p)
  PROVE  FeedInv'
  <1>1. poller[p].now \in 0..clock /\ clock \in Nat
    BY DEF FeedInv, Shape, Ingest, Phase, Asleep, ArchiveTyped
  <1>2. PICK history \in Histories :
          LET bars == CompletedBars(Answer(history, poller[p].start, poller[p].now), poller[p].now)
          IN  Step(p, IF bars = {} \/ Refused(Archive \cup bars) THEN Asleep
                      ELSE [pc |-> "lock", bars |-> bars])
    BY DEF Ingest
  <1> DEFINE bars == CompletedBars(Answer(history, poller[p].start, poller[p].now), poller[p].now)
  <1>3. bars \subseteq FeedBars
    BY <1>1, AnswersAreFinished
  <1> HIDE DEF bars
  <1>4. Shape(Asleep, clock') /\ Shape([pc |-> "lock", bars |-> bars], clock')
    BY <1>3 DEF Shape
  <1>5. Step(p, Asleep) \/ Step(p, [pc |-> "lock", bars |-> bars])
    BY <1>2 DEF bars
  <1>6. UNCHANGED <<clock, files, pointer, lock, acknowledged>> /\ poller[p].pc = "rates"
    BY DEF Ingest, Phase
  <1>7. Asleep.pc = "asleep"
    BY DEF Asleep
  <1> QED BY <1>4, <1>5, <1>6, <1>7, MovesOutside

LEMMA AcquireKeeps ==
  ASSUME FeedInv, NEW p \in Pollers, Acquire(p)
  PROVE  FeedInv'
  <1>1. poller[p] \in [pc : {"lock", "merge"}, bars : SUBSET FeedBars] /\ poller[p].pc = "lock"
    BY DEF Acquire, Phase, FeedInv, Shape, Asleep
  <1>2. CASE lock = NoPointer
    <2> DEFINE x == [poller[p] EXCEPT !.pc = "merge"]
    <2>1. Step(p, x) /\ lock' = p
      BY <1>2 DEF Acquire
    <2>2. x \in [pc : {"lock", "merge"}, bars : SUBSET FeedBars] /\ x.pc = "merge"
      BY <1>1
    <2> HIDE DEF x
    <2>3. poller'[p] = x /\ \A q \in Pollers \ {p} : poller'[q] = poller[q]
      BY <2>1, PollerMoves DEF FeedInv
    <2>4. \A q \in Pollers : poller[q].pc \notin {"merge", "file", "pointer"}
      BY <1>2, FeedAssumption DEF FeedInv, LockHeld
    <2>5. LockHeld'
      BY <2>1, <2>2, <2>3, <2>4 DEF LockHeld
    <2>6. Merging(p)' /\ Shape(poller'[p], clock')
      BY <2>2, <2>3 DEF Merging, Shape
    <2> QED BY <2>1, <2>5, <2>6, PointersStand DEF FeedInv, ArchiveTyped, Acquire
  <1>3. CASE lock # NoPointer
    <2>1. Step(p, Asleep) /\ UNCHANGED <<clock, files, pointer, lock, acknowledged>>
      BY <1>3 DEF Acquire
    <2> QED BY <1>1, <2>1, MovesOutside DEF Asleep, Shape
  <1> QED BY <1>2, <1>3

LEMMA MergeKeeps ==
  ASSUME FeedInv, NEW p \in Pollers, MergeLocked(p)
  PROVE  FeedInv'
  <1> DEFINE merged == Archive \cup poller[p].bars
             months == {FeedMonthOf(t) : t \in Times(merged)}
             x == [pc |-> "file", merged |-> merged, bars |-> poller[p].bars, todo |-> months]
  <1>1. poller[p] \in [pc : {"lock", "merge"}, bars : SUBSET FeedBars] /\ poller[p].pc = "merge"
    BY DEF MergeLocked, Phase, FeedInv, Shape, Asleep
  <1>2. lock = p
    BY <1>1, AloneInside
  <1>3. CASE Refused(merged)
    BY <1>2, <1>3, LeavesLock DEF MergeLocked
  <1>4. CASE ~Refused(merged)
    <2>1. Step(p, x) /\ lock' = lock
      BY <1>4 DEF MergeLocked
    <2>2. merged \subseteq FeedBars
      BY <1>1 DEF Archive, FeedInv, ArchiveTyped
    <2>3. \A o \in merged : FeedMonthOf(o.t) \in months
      BY DEF Times
    <2>4. months \subseteq FeedMonths
      BY <2>2, BarsInMonths DEF Times
    <2>5. Conflicts(merged) = {} /\ Archive \subseteq merged /\ poller[p].bars \subseteq merged
      BY <1>4 DEF Refused
    <2> HIDE DEF merged, months
    <2>6. /\ x \in [pc : {"file", "pointer"}, merged : SUBSET FeedBars, bars : SUBSET FeedBars,
                    todo : SUBSET FeedMonths]
          /\ x.pc = "file" /\ x.merged = merged /\ x.bars = poller[p].bars /\ x.todo = months
      BY <1>1, <2>2, <2>4
    <2> HIDE DEF x
    <2>7. poller'[p] = x /\ \A q \in Pollers \ {p} : poller'[q] = poller[q]
      BY <2>1, PollerMoves DEF FeedInv
    <2>8. LockHeld'
      BY <1>1, <2>1, <2>6, <2>7 DEF FeedInv, LockHeld
    <2>9. Archive' = Archive
      BY DEF MergeLocked, Archive
    <2>10. Merging(p)'
      BY <2>3, <2>5, <2>6, <2>7, <2>9 DEF Merging, Conflicts
    <2>11. Shape(poller'[p], clock')
      BY <2>6, <2>7 DEF Shape
    <2> QED BY <2>1, <2>8, <2>10, <2>11, PointersStand DEF FeedInv, ArchiveTyped, MergeLocked
  <1> QED BY <1>3, <1>4

LEMMA WriteKeeps ==
  ASSUME FeedInv, NEW p \in Pollers, WriteFile(p)
  PROVE  FeedInv'
  <1> DEFINE x == [poller[p] EXCEPT !.pc = "pointer"]
  <1>1. /\ poller[p] \in [pc : {"file", "pointer"}, merged : SUBSET FeedBars, bars : SUBSET FeedBars,
                          todo : SUBSET FeedMonths]
        /\ poller[p].pc = "file"
    BY DEF WriteFile, Phase, FeedInv, Shape, Asleep
  <1>2. Step(p, x)
    BY DEF WriteFile
  <1>3. /\ x \in [pc : {"file", "pointer"}, merged : SUBSET FeedBars, bars : SUBSET FeedBars,
                  todo : SUBSET FeedMonths]
        /\ x.pc = "pointer" /\ x.merged = poller[p].merged /\ x.bars = poller[p].bars
        /\ x.todo = poller[p].todo
    BY <1>1
  <1> HIDE DEF x
  <1>4. poller'[p] = x /\ \A q \in Pollers \ {p} : poller'[q] = poller[q]
    BY <1>2, PollerMoves DEF FeedInv
  <1>5. LockHeld'
    BY <1>1, <1>3, <1>4 DEF WriteFile, FeedInv, LockHeld
  <1>6. Group(p) \in SUBSET FeedBars /\ Group(p)' = Group(p)
    BY <1>1, <1>3, <1>4 DEF Group
  <1>7. /\ files' \in [FeedMonths -> SUBSET SUBSET FeedBars]
        /\ \A m \in FeedMonths : files[m] \subseteq files'[m]
        /\ \A m \in FeedMonths : m = Min(poller[p].todo) => Group(p) \in files'[m]
    BY <1>6 DEF WriteFile, FeedInv, ArchiveTyped
  <1>8. Archive' = Archive
    BY DEF WriteFile, Archive
  <1>9. Merging(p)'
    BY <1>1, <1>3, <1>4, <1>6, <1>7, <1>8 DEF FeedInv, Merging, Conflicts
  <1>10. Shape(poller'[p], clock')
    BY <1>3, <1>4 DEF Shape
  <1> QED BY <1>2, <1>5, <1>7, <1>9, <1>10, PointersStand DEF FeedInv, ArchiveTyped, WriteFile

\* The pointer of one month moves to what was merged: nothing served is lost,
\* since what is archived was merged under the same lock.
LEMMA PointedArchive ==
  ASSUME FeedInv, NEW p \in Pollers, Point(p)
  PROVE  /\ Archive \subseteq Archive' /\ Archive' \subseteq poller[p].merged
         /\ Pointed' /\ pointer' \in [FeedMonths -> (SUBSET FeedBars) \cup {NoPointer}]
         /\ \A o \in poller[p].merged : FeedMonthOf(o.t) \notin poller[p].todo \ {Min(poller[p].todo)}
                                          => o \in Archive'
  <1> DEFINE m == Min(poller[p].todo)
             merged == poller[p].merged
             group == Group(p)
  <1>1. /\ poller[p] \in [pc : {"file", "pointer"}, merged : SUBSET FeedBars, bars : SUBSET FeedBars,
                          todo : SUBSET FeedMonths]
        /\ poller[p].pc = "pointer"
    BY DEF Point, Phase, FeedInv, Shape, Asleep
  <1>2. /\ Archive \subseteq merged
        /\ \A o \in merged : FeedMonthOf(o.t) \notin poller[p].todo => o \in Archive
        /\ \A n \in FeedMonths : n = m => group \in files[n]
    BY <1>1 DEF FeedInv, Merging
  <1>3. group = {o \in merged : FeedMonthOf(o.t) = m}
    BY DEF Group
  <1>4. pointer' = [pointer EXCEPT ![m] = group] /\ files' = files
    BY DEF Point
  <1>5. group \in SUBSET FeedBars /\ group # NoPointer
    BY <1>1, <1>3, FeedAssumption
  <1>6. pointer' \in [FeedMonths -> (SUBSET FeedBars) \cup {NoPointer}]
    BY <1>4, <1>5 DEF FeedInv, ArchiveTyped
  <1> HIDE DEF m, merged, group
  <1>7. \A n \in FeedMonths : pointer'[n] = IF n = m THEN group ELSE pointer[n]
    BY <1>4 DEF FeedInv, ArchiveTyped
  <1>8. Pointed'
    BY <1>2, <1>3, <1>4, <1>7 DEF FeedInv, Pointed
  <1>9. Archive' \subseteq merged
    BY <1>2, <1>3, <1>7 DEF Archive
  <1>10. ASSUME NEW o \in Archive PROVE o \in Archive'
    <2>1. PICK n \in FeedMonths : pointer[n] # NoPointer /\ o \in pointer[n]
      BY DEF Archive
    <2>2. o \in merged /\ FeedMonthOf(o.t) = n
      BY <1>2, <2>1 DEF FeedInv, Pointed
    <2>3. o \in pointer'[n] /\ pointer'[n] # NoPointer
      BY <1>3, <1>5, <1>7, <2>1, <2>2
    <2> QED BY <2>3 DEF Archive
  <1>11. ASSUME NEW o \in merged, FeedMonthOf(o.t) = m PROVE o \in Archive'
    <2>1. m \in FeedMonths
      BY <1>1, <1>11, BarsInMonths DEF merged
    <2>2. o \in pointer'[m] /\ pointer'[m] # NoPointer
      BY <1>3, <1>5, <1>7, <1>11, <2>1
    <2> QED BY <2>1, <2>2 DEF Archive
  <1>12. ASSUME NEW o \in merged, FeedMonthOf(o.t) \notin poller[p].todo \ {m} PROVE o \in Archive'
    BY <1>2, <1>10, <1>11, <1>12
  <1> QED BY <1>6, <1>8, <1>9, <1>10, <1>12 DEF m, merged

LEMMA PointKeeps ==
  ASSUME FeedInv, NEW p \in Pollers, Point(p)
  PROVE  FeedInv'
  <1> DEFINE rest == poller[p].todo \ {Min(poller[p].todo)}
             merged == poller[p].merged
  <1>1. /\ poller[p] \in [pc : {"file", "pointer"}, merged : SUBSET FeedBars, bars : SUBSET FeedBars,
                          todo : SUBSET FeedMonths]
        /\ poller[p].pc = "pointer"
    BY DEF Point, Phase, FeedInv, Shape, Asleep
  <1>2. /\ Archive \subseteq Archive' /\ Archive' \subseteq merged /\ Pointed'
        /\ pointer' \in [FeedMonths -> (SUBSET FeedBars) \cup {NoPointer}]
        /\ \A o \in merged : FeedMonthOf(o.t) \notin rest => o \in Archive'
    BY PointedArchive
  <1>3. Conflicts(merged) = {} /\ poller[p].bars \subseteq merged
    BY <1>1 DEF FeedInv, Merging
  <1>4. Conflicts(Archive)' = {}
    BY <1>2, <1>3, FewerConflicts DEF Conflicts
  <1>5. lock = p /\ \A q \in Pollers \ {p} : poller[q].pc \notin {"merge", "file", "pointer"}
    BY <1>1, AloneInside
  <1>6. CASE rest # {}
    <2> DEFINE x == [poller[p] EXCEPT !.pc = "file", !.todo = rest]
    <2>1. Step(p, x) /\ UNCHANGED <<lock, acknowledged>>
      BY <1>6 DEF Point
    <2>2. /\ x \in [pc : {"file", "pointer"}, merged : SUBSET FeedBars, bars : SUBSET FeedBars,
                    todo : SUBSET FeedMonths]
          /\ x.pc = "file" /\ x.merged = merged /\ x.bars = poller[p].bars /\ x.todo = rest
      BY <1>1
    <2> HIDE DEF x, rest
    <2>3. /\ poller' = [q \in Pollers |-> poller'[q]] /\ poller'[p] = x
          /\ \A q \in Pollers \ {p} : poller'[q] = poller[q]
      BY <2>1, PollerMoves DEF FeedInv
    <2>4. ArchiveTyped' /\ LockHeld'
      BY <1>1, <1>2, <2>1, <2>2, <2>3 DEF Point, FeedInv, ArchiveTyped, LockHeld
    <2>5. Merging(p)'
      BY <1>2, <1>3, <2>2, <2>3 DEF Merging, Conflicts
    <2>6. \A q \in Pollers : Merging(q)'
      BY <1>5, <2>3, <2>5 DEF Merging
    <2>7. \A q \in Pollers : Shape(poller'[q], clock')
      BY <2>2, <2>3 DEF Shape, Point, FeedInv
    <2>8. (acknowledged \subseteq Archive)'
      BY <1>2, <2>1 DEF FeedInv
    <2> QED BY <1>2, <1>4, <2>4, <2>6, <2>7, <2>8 DEF FeedInv
  <1>7. CASE rest = {}
    <2>1. Step(p, Asleep) /\ lock' = NoPointer /\ acknowledged' = acknowledged \cup poller[p].bars
      BY <1>7 DEF Point
    <2>2. /\ poller' = [q \in Pollers |-> poller'[q]] /\ poller'[p] = Asleep
          /\ \A q \in Pollers \ {p} : poller'[q] = poller[q]
      BY <2>1, PollerMoves DEF FeedInv
    <2>3. ArchiveTyped'
      BY <1>2, <2>1, <2>2 DEF Point, FeedInv, ArchiveTyped
    <2>4. LockHeld' /\ \A q \in Pollers : Merging(q)'
      BY <1>5, <2>1, <2>2, FeedAssumption DEF LockHeld, Merging, Asleep
    <2>5. \A q \in Pollers : Shape(poller'[q], clock')
      BY <2>2 DEF Shape, Point, FeedInv
    <2>6. poller[p].bars \subseteq Archive'
      BY <1>2, <1>3, <1>7
    <2>7. (acknowledged \subseteq Archive)'
      BY <1>2, <2>1, <2>6 DEF FeedInv
    <2> QED BY <1>2, <1>4, <2>3, <2>4, <2>5, <2>7 DEF FeedInv
  <1> QED BY <1>6, <1>7

-----------------------------------------------------------------------------
(* Theorems. *)

LEMMA FeedInit_Inv == FeedInit => FeedInv
  <1> SUFFICES ASSUME FeedInit PROVE FeedInv
    OBVIOUS
  <1>1. Archive = {}
    BY DEF FeedInit, Archive
  <1>2. ArchiveTyped /\ Pointed /\ LockHeld
    BY FeedAssumption DEF FeedInit, ArchiveTyped, Pointed, LockHeld, Asleep
  <1>3. \A p \in Pollers : Shape(poller[p], clock) /\ Merging(p)
    BY DEF FeedInit, Shape, Merging, Asleep
  <1>4. Conflicts(Archive) = {} /\ acknowledged \subseteq Archive
    BY <1>1 DEF FeedInit, Conflicts
  <1> QED BY <1>2, <1>3, <1>4 DEF FeedInv

LEMMA FeedNext_Inv == FeedInv /\ [FeedNext]_feedVars => FeedInv'
  <1> SUFFICES ASSUME FeedInv, [FeedNext]_feedVars PROVE FeedInv'
    OBVIOUS
  <1>1. ASSUME NEW p \in Pollers, Die(p) PROVE FeedInv'
    BY <1>1, LeavesLock DEF Die
  <1>2. CASE UNCHANGED feedVars
    <2>1. ArchiveTyped' /\ LockHeld' /\ Pointed'
      BY <1>2 DEF feedVars, FeedInv, ArchiveTyped, LockHeld, Pointed
    <2>2. \A q \in Pollers : Shape(poller'[q], clock') /\ Merging(q)'
      BY <1>2 DEF feedVars, FeedInv, Merging, Archive, Group
    <2>3. Conflicts(Archive)' = {} /\ (acknowledged \subseteq Archive)'
      BY <1>2 DEF feedVars, FeedInv, Archive, Conflicts
    <2> QED BY <2>1, <2>2, <2>3 DEF FeedInv
  <1> QED
    BY <1>1, <1>2, TickKeeps, PollKeeps, IngestKeeps, AcquireKeeps, MergeKeeps, WriteKeeps, PointKeeps
    DEF FeedNext

(* The archive of the live feed and its pollers always have their types, the *)
(* writer lock has at most one holder, and what the holder has merged covers *)
(* everything that is archived at that moment.                               *)
THEOREM FeedInvariant == FeedSpec => []FeedInv
BY FeedInit_Inv, FeedNext_Inv, PTL DEF FeedSpec

(* Every bar an ingest acknowledged is served, nothing served was still      *)
(* forming, two bars are never served for one minute and no pointer dangles, *)
(* for any number of pollers that may die between any two writes.            *)
THEOREM AcknowledgedIsServedHolds == FeedSpec => []AcknowledgedIsServed
  <1>1. FeedInv => AcknowledgedIsServed
    <2> SUFFICES ASSUME FeedInv PROVE AcknowledgedIsServed
      OBVIOUS
    <2>1. Archive \subseteq FeedBars
      BY DEF FeedInv, ArchiveTyped, Archive
    <2> QED BY <2>1, FeedAssumption DEF FeedInv, Pointed, AcknowledgedIsServed
  <1> QED BY <1>1, FeedInvariant, PTL

(* What is served stays served: no step of any poller, nor its death, takes  *)
(* a bar out of the archive.                                                 *)
ServedStays == [][Archive \subseteq Archive']_feedVars

THEOREM ServedStaysHolds == FeedSpec => ServedStays
  <1>1. ASSUME FeedInv, [FeedNext]_feedVars PROVE Archive \subseteq Archive'
    <2>1. CASE \E p \in Pollers : Point(p)
      BY <1>1, <2>1, PointedArchive
    <2>2. CASE ~\E p \in Pollers : Point(p)
      <3>1. pointer' = pointer
        BY <1>1, <2>2 DEF FeedNext, feedVars, Tick, Poll, Ingest, Acquire, MergeLocked, WriteFile, Die
      <3> QED BY <3>1 DEF Archive
    <2> QED BY <2>1, <2>2
  <1>2. FeedInv /\ [FeedNext]_feedVars => [Archive \subseteq Archive']_feedVars
    BY <1>1
  <1> QED BY <1>2, FeedInvariant, PTL DEF FeedSpec, ServedStays

-----------------------------------------------------------------------------
(* TickArchive *)

\* The steps of a worker, and what a run carries in each of its states.
Steps == {"manifest?", "fetch", "raw", "decoded", "mt5", "manifest", "done", "failed"}

Tasks == [pc : Steps, attempt : Nat, status : {200, 404},
          payload : Payloads \cup {NoArtifact}, ticks : Conversions]

InBatch(x) ==
  /\ x.pc = "batch"
  /\ x \in [pc : {"batch"}, from : Hours, records : Seq(Manifests), task : [Batch(x.from) -> Tasks]]

Summing(x) == x \in [pc : {"summary"}, records : Seq(Manifests)]

ArtifactsTyped ==
  /\ raw \in [Hours -> Payloads \cup {NoArtifact}]
  /\ decoded \in [Hours -> Conversions \cup {NoArtifact}]
  /\ mt5 \in [Hours -> Conversions \cup {NoArtifact}]
  /\ manifest \in [Hours -> Manifests \cup {NoArtifact}]

TickTyped ==
  /\ ArtifactsTyped
  /\ run = [r \in Runs |-> run[r]]
  /\ \A r \in Runs : run[r] = Stopped \/ InBatch(run[r]) \/ Summing(run[r])

\* What a worker knows of the artifacts of its hour at each of its steps.
Knows(task, h) ==
  /\ task.pc \in {"manifest?", "fetch"} => task.status = 200 /\ task.ticks = <<>>
  /\ task.pc = "raw" => task.status = 200 /\ task.payload \in Payloads
  /\ task.pc \in {"decoded", "mt5", "manifest"} =>
       IF task.status = 404 THEN ExpectedClosure(h) /\ task.ticks = <<>>
       ELSE raw[h] # NoArtifact /\ Decodable(raw[h], h) /\ task.ticks = raw[h].ticks
  /\ task.pc \in {"mt5", "manifest"} => decoded[h] = task.ticks
  /\ task.pc = "manifest" => mt5[h] = task.ticks
  /\ task.pc = "done" => manifest[h] # NoArtifact

Backed(h) ==
  manifest[h] # NoArtifact =>
    HourBacked(h) /\ (manifest[h].status = 200 => manifest[h].source # NoArtifact)

Before(S, h) == {g \in S : g < h}

\* The records of the hours S, in the order of the hours.
InOrder(records, S) ==
  /\ Len(records) = Cardinality(S)
  /\ \A h \in S : manifest[h] # NoArtifact /\ records[Cardinality(Before(S, h)) + 1] = manifest[h]

Collected(x) ==
  /\ InBatch(x) => InOrder(x.records, Before(Hours, x.from))
  /\ Summing(x) => InOrder(x.records, Hours)

TickInv ==
  /\ TickTyped
  /\ \A r \in Runs : InBatch(run[r]) => \A h \in Batch(run[r].from) : Knows(run[r].task[h], h)
  /\ \A h \in Hours : Backed(h)
  /\ \A r \in Runs : Collected(run[r])
  /\ summary # NoArtifact => InOrder(summary, Hours) /\ HasTicks(summary)

\* Nothing that was published is changed.
Final ==
  \A h \in Hours :
    /\ raw[h] # NoArtifact => raw'[h] = raw[h]
    /\ decoded[h] # NoArtifact => decoded'[h] = decoded[h]
    /\ mt5[h] # NoArtifact => mt5'[h] = mt5[h]
    /\ manifest[h] # NoArtifact => manifest'[h] = manifest[h]

-----------------------------------------------------------------------------
(* What was known and backed stays so. *)

LEMMA KnowledgeStays ==
  ASSUME Final, NEW h \in Hours, NEW task \in Tasks, Knows(task, h)
  PROVE  Knows(task, h)'
  <1>1. task.ticks # NoArtifact
    BY TickAssumption DEF Tasks
  <1> QED BY <1>1 DEF Final, Knows

LEMMA HourStaysBacked ==
  ASSUME ArtifactsTyped, Final, NEW h \in Hours, Backed(h), manifest'[h] = manifest[h]
  PROVE  Backed(h)'
  <1>1. CASE manifest[h] = NoArtifact
    BY <1>1 DEF Backed
  <1>2. CASE manifest[h] # NoArtifact
    <2>1. manifest[h].decoded # NoArtifact /\ manifest[h].converted # NoArtifact
          /\ manifest[h].status \in {200, 404}
      BY <1>2, TickAssumption DEF ArtifactsTyped, Manifests
    <2> QED BY <1>2, <2>1 DEF Backed, HourBacked, Final
  <1> QED BY <1>1, <1>2

LEMMA OrderStays ==
  ASSUME Final, NEW records, NEW S \in SUBSET Hours, InOrder(records, S)
  PROVE  InOrder(records, S)'
BY DEF Final, InOrder

LEMMA CollectedStays ==
  ASSUME Final, NEW x, Collected(x)
  PROVE  Collected(x)'
  <1>1. Before(Hours, x.from) \in SUBSET Hours /\ Hours \in SUBSET Hours
    BY DEF Before
  <1>2. InBatch(x)' = InBatch(x) /\ Summing(x)' = Summing(x)
    BY DEF InBatch, Summing
  <1>3. InBatch(x) => InOrder(x.records, Before(Hours, x.from))'
    BY <1>1, OrderStays DEF Collected
  <1>4. Summing(x) => InOrder(x.records, Hours)'
    BY <1>1, OrderStays DEF Collected
  <1> QED BY <1>2, <1>3, <1>4 DEF Collected

LEMMA BusyIs ==
  ASSUME TickInv, NEW r \in Runs, Busy(r)
  PROVE  InBatch(run[r])
BY DEF TickInv, TickTyped, Busy, Stopped, Summing

\* The invariant after a worker's step: the others know what they knew.
LEMMA TaskMoves ==
  ASSUME TickInv, NEW r \in Runs, NEW h, NEW task \in Tasks, Busy(r), h \in DOMAIN run[r].task,
         Move(r, h, task), ArtifactsTyped', Final, Knows(task, h)',
         \A g \in Hours : Backed(g)', summary' = summary
  PROVE  TickInv'
  <1> DEFINE x == run[r]
  <1>1. InBatch(x)
    BY BusyIs
  <1>2. DOMAIN x.task = Batch(x.from) /\ Batch(x.from) \subseteq Hours
    BY <1>1 DEF InBatch, Batch
  <1>3. PICK y : y = [x EXCEPT !.task[h] = task]
    OBVIOUS
  <1>4. InBatch(y) /\ y.from = x.from /\ y.records = x.records /\ y.task = [x.task EXCEPT ![h] = task]
    BY <1>1, <1>2, <1>3 DEF InBatch
  <1>5. run' = [s \in Runs |-> run'[s]] /\ run'[r] = y /\ \A s \in Runs \ {r} : run'[s] = run[s]
    BY <1>3 DEF Move, TickInv, TickTyped
  <1>6. TickTyped'
    <2>1. \A s \in Runs : run'[s] = Stopped \/ InBatch(run'[s]) \/ Summing(run'[s])
      BY <1>4, <1>5 DEF TickInv, TickTyped
    <2> QED BY <1>5, <2>1 DEF TickTyped, InBatch, Summing
  <1>7. ASSUME NEW s \in Runs, InBatch(run'[s]), NEW g \in Batch(run'[s].from)
        PROVE  Knows(run[s].task[g], g)'
    <2>1. g \in Hours
      BY DEF Batch
    <2>2. CASE s = r /\ g = h
      BY <1>1, <1>2, <1>4, <1>5, <2>2 DEF InBatch
    <2>3. CASE ~(s = r /\ g = h)
      <3>1. InBatch(run[s]) /\ run'[s].from = run[s].from
        BY <1>1, <1>4, <1>5, <1>7
      <3>2. run'[s].task[g] = run[s].task[g] /\ run[s].task[g] \in Tasks
        BY <1>1, <1>2, <1>4, <1>5, <2>3, <3>1 DEF InBatch
      <3>3. Knows(run[s].task[g], g)
        BY <3>1 DEF TickInv
      <3>4. PICK z : z = run[s].task[g]
        OBVIOUS
      <3>5. Knows(z, g)'
        BY <2>1, <3>2, <3>3, <3>4, KnowledgeStays
      <3> QED BY <3>2, <3>4, <3>5
    <2> QED BY <2>2, <2>3
  <1>8. ASSUME NEW s \in Runs PROVE Collected(run[s])'
    <2>1. Collected(y)
      <3>1. InOrder(x.records, Before(Hours, x.from))
        BY <1>1 DEF TickInv, Collected
      <3>2. ~Summing(y)
        BY <1>4 DEF InBatch, Summing
      <3> QED BY <1>4, <3>1, <3>2 DEF Collected
    <2>2. PICK z : z = run'[s]
      OBVIOUS
    <2>3. Collected(z)
      BY <1>5, <2>1, <2>2 DEF TickInv
    <2>4. Collected(z)'
      BY <2>3, CollectedStays
    <2> QED BY <2>2, <2>4
  <1>9. (summary # NoArtifact => InOrder(summary, Hours) /\ HasTicks(summary))'
    <2>1. ASSUME summary # NoArtifact PROVE InOrder(summary, Hours)' /\ HasTicks(summary)'
      <3>1. InOrder(summary, Hours) /\ HasTicks(summary)
        BY <2>1 DEF TickInv
      <3>2. PICK records : records = summary
        OBVIOUS
      <3>3. InOrder(records, Hours)'
        BY <3>1, <3>2, OrderStays
      <3> QED BY <3>1, <3>2, <3>3 DEF HasTicks
    <2> QED BY <2>1
  <1> QED BY <1>6, <1>7, <1>8, <1>9 DEF TickInv

-----------------------------------------------------------------------------
(* The steps of a worker. *)

LEMMA WorkingIs ==
  ASSUME TickInv, NEW r \in Runs, NEW h, NEW pc, Working(r, h, pc)
  PROVE  /\ Busy(r) /\ h \in DOMAIN run[r].task /\ h \in Hours
         /\ run[r].task[h] \in Tasks /\ run[r].task[h].pc = pc
         /\ Knows(run[r].task[h], h)
  <1>1. InBatch(run[r]) /\ h \in DOMAIN run[r].task /\ run[r].task[h].pc = pc /\ Busy(r)
    BY BusyIs DEF Working
  <1>2. h \in Batch(run[r].from) /\ run[r].task[h] \in Tasks
    BY <1>1 DEF InBatch
  <1> QED BY <1>1, <1>2 DEF TickInv, Batch

\* The artifacts do not change.
LEMMA StoreStands ==
  ASSUME TickInv, UNCHANGED <<raw, decoded, mt5, manifest, summary>>
  PROVE  /\ ArtifactsTyped' /\ Final /\ \A g \in Hours : Backed(g)'
         /\ \A task \in Tasks, g \in Hours : Knows(task, g)' <=> Knows(task, g)
BY DEF TickInv, TickTyped, ArtifactsTyped, Final, Backed, HourBacked, Knows

\* A worker that gives up knows nothing.
LEMMA GivingUp ==
  ASSUME TickInv, NEW r \in Runs, NEW h, NEW pc, Working(r, h, pc),
         Move(r, h, Stage(r, h, "failed")), ArtifactsTyped', Final,
         \A g \in Hours : Backed(g)', summary' = summary
  PROVE  TickInv'
  <1>1. PICK task : task = Stage(r, h, "failed")
    OBVIOUS
  <1>2. task \in Tasks /\ task.pc = "failed" /\ Busy(r) /\ h \in DOMAIN run[r].task
    BY <1>1, WorkingIs DEF Stage, Tasks, Steps
  <1>3. Knows(task, h)'
    BY <1>2 DEF Knows
  <1> QED BY <1>1, <1>2, <1>3, TaskMoves

\* A worker's record after a step that changes some of its fields.
LEMMA NextStep ==
  ASSUME NEW old \in Tasks, NEW pc \in Steps, NEW x, x = [old EXCEPT !.pc = pc]
  PROVE  /\ x \in Tasks /\ x.pc = pc /\ x.status = old.status /\ x.payload = old.payload
         /\ x.ticks = old.ticks
BY DEF Tasks

LEMMA WithPayload ==
  ASSUME NEW old \in Tasks, NEW payload \in Payloads, NEW x, x = [old EXCEPT !.payload = payload]
  PROVE  x \in Tasks /\ x.pc = old.pc /\ x.status = old.status /\ x.payload = payload /\ x.ticks = old.ticks
BY DEF Tasks

LEMMA WithTicks ==
  ASSUME NEW old \in Tasks, NEW ticks \in Conversions, NEW x, x = [old EXCEPT !.ticks = ticks]
  PROVE  x \in Tasks /\ x.pc = old.pc /\ x.status = old.status /\ x.ticks = ticks
BY DEF Tasks

LEMMA WithStatus ==
  ASSUME NEW old \in Tasks, NEW x, x = [old EXCEPT !.status = 404]
  PROVE  x \in Tasks /\ x.pc = old.pc /\ x.status = 404 /\ x.ticks = old.ticks
BY DEF Tasks

LEMMA WithAttempt ==
  ASSUME NEW old \in Tasks, NEW x, x = [old EXCEPT !.attempt = @ + 1]
  PROVE  x \in Tasks /\ x.pc = old.pc /\ x.status = old.status /\ x.ticks = old.ticks
BY DEF Tasks

LEMMA CheckKeeps ==
  ASSUME TickInv, NEW r \in Runs, NEW h \in Hours, CheckManifest(r, h)
  PROVE  TickInv'
  <1> DEFINE old == run[r].task[h]
  <1>1. /\ Busy(r) /\ h \in DOMAIN run[r].task /\ old \in Tasks /\ old.pc = "manifest?" /\ Knows(old, h)
        /\ Working(r, h, "manifest?")
    BY WorkingIs DEF CheckManifest
  <1>2. /\ ArtifactsTyped' /\ Final /\ \A g \in Hours : Backed(g)' /\ summary' = summary
        /\ \A task \in Tasks, g \in Hours : Knows(task, g)' <=> Knows(task, g)
    BY StoreStands DEF CheckManifest
  <1>3. CASE Fail(r, h)
    BY <1>1, <1>2, <1>3, GivingUp DEF Fail
  <1>4. CASE ~Fail(r, h)
    <2>1. PICK task :
            /\ Move(r, h, task)
            /\ \/ manifest[h] # NoArtifact /\ task = [old EXCEPT !.pc = "done"]
               \/ raw[h] # NoArtifact /\ task = [[old EXCEPT !.pc = "raw"] EXCEPT !.payload = raw[h]]
               \/ task = [old EXCEPT !.pc = "fetch"]
      BY <1>4 DEF CheckManifest, Stage
    <2>2. raw[h] \in Payloads \cup {NoArtifact}
      BY DEF TickInv, TickTyped, ArtifactsTyped
    <2>3. task \in Tasks /\ Knows(task, h)
      <3>1. PICK z : z = old
        OBVIOUS
      <3>2. z \in Tasks /\ z.status = 200 /\ z.ticks = <<>>
        BY <1>1, <3>1 DEF Knows
      <3>3. CASE manifest[h] # NoArtifact /\ task = [z EXCEPT !.pc = "done"]
        BY <3>2, <3>3, NextStep DEF Knows, Steps
      <3>4. CASE raw[h] # NoArtifact /\ task = [[z EXCEPT !.pc = "raw"] EXCEPT !.payload = raw[h]]
        <4>1. PICK u : u = [z EXCEPT !.pc = "raw"]
          OBVIOUS
        <4>2. u \in Tasks /\ u.pc = "raw" /\ u.status = 200
          BY <3>2, <4>1, NextStep DEF Steps
        <4>3. PICK payload \in Payloads : payload = raw[h]
          BY <2>2, <3>4
        <4>4. task = [u EXCEPT !.payload = payload]
          BY <3>4, <4>1, <4>3
        <4>5. task \in Tasks /\ task.pc = "raw" /\ task.status = 200 /\ task.payload \in Payloads
          BY <4>2, <4>4, WithPayload
        <4> QED BY <4>5 DEF Knows
      <3>5. CASE task = [z EXCEPT !.pc = "fetch"]
        BY <3>2, <3>5, NextStep DEF Knows, Steps
      <3> QED BY <2>1, <3>1, <3>3, <3>4, <3>5
    <2> QED BY <1>1, <1>2, <2>1, <2>3, TaskMoves
  <1> QED BY <1>3, <1>4

LEMMA FetchKeeps ==
  ASSUME TickInv, NEW r \in Runs, NEW h \in Hours,
         FetchBody(r, h) \/ FetchMissing(r, h) \/ FetchError(r, h) \/ FetchRefused(r, h)
  PROVE  TickInv'
  <1> DEFINE old == run[r].task[h]
  <1>1. /\ Busy(r) /\ h \in DOMAIN run[r].task /\ old \in Tasks /\ old.pc = "fetch" /\ Knows(old, h)
        /\ Working(r, h, "fetch")
    BY WorkingIs DEF FetchBody, FetchMissing, FetchError, FetchRefused, Fetch
  <1>2. /\ ArtifactsTyped' /\ Final /\ \A g \in Hours : Backed(g)' /\ summary' = summary
        /\ \A task \in Tasks, g \in Hours : Knows(task, g)' <=> Knows(task, g)
    BY StoreStands DEF FetchBody, FetchMissing, FetchError, FetchRefused, Fetch
  <1>3. CASE Fail(r, h)
    BY <1>1, <1>2, <1>3, GivingUp DEF Fail
  <1>4. CASE ~Fail(r, h)
    <2>1. PICK task :
            /\ Move(r, h, task)
            /\ \/ \E payload \in Payloads : task = [[old EXCEPT !.pc = "raw"] EXCEPT !.payload = payload]
               \/ ExpectedClosure(h) /\ task = [[old EXCEPT !.pc = "decoded"] EXCEPT !.status = 404]
               \/ task = [old EXCEPT !.attempt = @ + 1]
      BY <1>4 DEF FetchBody, FetchMissing, FetchError, FetchRefused, Stage
    <2>2. task \in Tasks /\ Knows(task, h)
      <3>1. PICK z : z = old
        OBVIOUS
      <3>2. z \in Tasks /\ z.pc = "fetch" /\ z.status = 200 /\ z.ticks = <<>>
        BY <1>1, <3>1 DEF Knows
      <3>3. ASSUME NEW payload \in Payloads, task = [[z EXCEPT !.pc = "raw"] EXCEPT !.payload = payload]
            PROVE  task \in Tasks /\ Knows(task, h)
        <4>1. PICK u : u = [z EXCEPT !.pc = "raw"]
          OBVIOUS
        <4>2. u \in Tasks /\ u.pc = "raw" /\ u.status = 200 /\ task = [u EXCEPT !.payload = payload]
          BY <3>2, <3>3, <4>1, NextStep DEF Steps
        <4>3. task \in Tasks /\ task.pc = "raw" /\ task.status = 200 /\ task.payload \in Payloads
          BY <4>2, WithPayload
        <4> QED BY <4>3 DEF Knows
      <3>4. CASE ExpectedClosure(h) /\ task = [[z EXCEPT !.pc = "decoded"] EXCEPT !.status = 404]
        <4>1. PICK u : u = [z EXCEPT !.pc = "decoded"]
          OBVIOUS
        <4>2. u \in Tasks /\ u.pc = "decoded" /\ u.ticks = <<>> /\ task = [u EXCEPT !.status = 404]
          BY <3>2, <3>4, <4>1, NextStep DEF Steps
        <4>3. task \in Tasks /\ task.pc = "decoded" /\ task.status = 404 /\ task.ticks = <<>>
          BY <4>2, WithStatus
        <4> QED BY <3>4, <4>3 DEF Knows
      <3>5. CASE task = [z EXCEPT !.attempt = @ + 1]
        BY <3>2, <3>5, WithAttempt DEF Knows
      <3> QED BY <2>1, <3>1, <3>3, <3>4, <3>5
    <2> QED BY <1>1, <1>2, <2>1, <2>2, TaskMoves
  <1> QED BY <1>3, <1>4

\* Every manifest but that of the published hour is backed as it was.
LEMMA BackedByOthers ==
  ASSUME TickInv, ArtifactsTyped, Final, manifest' = manifest
  PROVE  \A g \in Hours : Backed(g)'
  <1> SUFFICES ASSUME NEW g \in Hours PROVE Backed(g)'
    OBVIOUS
  <1> QED BY HourStaysBacked DEF TickInv

LEMMA RawKeeps ==
  ASSUME TickInv, NEW r \in Runs, NEW h \in Hours, PublishRaw(r, h)
  PROVE  TickInv'
  <1> DEFINE old == run[r].task[h]
  <1>1. /\ Busy(r) /\ h \in DOMAIN run[r].task /\ old \in Tasks /\ old.pc = "raw" /\ Knows(old, h)
        /\ Working(r, h, "raw")
    BY WorkingIs DEF PublishRaw
  <1>2. ArtifactsTyped
    BY DEF TickInv, TickTyped
  <1>3. old.status = 200 /\ old.payload \in Payloads /\ old.payload # NoArtifact
    BY <1>1, TickAssumption DEF Knows
  <1>4. /\ raw' = [raw EXCEPT ![h] = Published(raw[h], old.payload)]
        /\ UNCHANGED <<decoded, mt5, manifest, summary>>
    BY DEF PublishRaw
  <1>5. ArtifactsTyped' /\ Final
    BY <1>2, <1>3, <1>4 DEF ArtifactsTyped, Final, Published
  <1>6. \A g \in Hours : Backed(g)'
    BY <1>2, <1>4, <1>5, BackedByOthers
  <1>7. CASE Conflicting(raw[h], old.payload) \/ ~Decodable(old.payload, h)
    BY <1>1, <1>4, <1>5, <1>6, <1>7, GivingUp DEF PublishRaw
  <1>8. CASE ~(Conflicting(raw[h], old.payload) \/ ~Decodable(old.payload, h))
    <2>1. PICK task : /\ Move(r, h, task)
                      /\ task = [[old EXCEPT !.pc = "decoded"] EXCEPT !.ticks = old.payload.ticks]
      BY <1>8 DEF PublishRaw, Stage
    <2>2. raw'[h] = old.payload
      BY <1>2, <1>4, <1>8 DEF Conflicting, Published, ArtifactsTyped
    <2>3. task \in Tasks /\ task.pc = "decoded" /\ task.status = 200 /\ task.ticks = old.payload.ticks
      <3>1. PICK z : z = old
        OBVIOUS
      <3>2. PICK u : u = [z EXCEPT !.pc = "decoded"]
        OBVIOUS
      <3>3. u \in Tasks /\ u.pc = "decoded" /\ u.status = 200
        BY <1>1, <1>3, <3>1, <3>2, NextStep DEF Steps
      <3>4. PICK ticks \in Conversions : ticks = old.payload.ticks
        BY <1>3 DEF Conversions
      <3>5. task = [u EXCEPT !.ticks = ticks]
        BY <2>1, <3>1, <3>2, <3>4
      <3> QED BY <3>3, <3>4, <3>5, WithTicks
    <2>5. Knows(task, h)'
      BY <1>3, <1>8, <2>2, <2>3 DEF Knows
    <2> QED BY <1>1, <1>4, <1>5, <1>6, <2>1, <2>3, <2>5, TaskMoves
  <1> QED BY <1>7, <1>8

\* Decoded and converted ticks are the ticks the worker has.
LEMMA ConversionKeeps ==
  ASSUME TickInv, NEW r \in Runs, NEW h \in Hours, PublishDecoded(r, h) \/ PublishMt5(r, h)
  PROVE  TickInv'
  <1> DEFINE old == run[r].task[h]
  <1>1. /\ Busy(r) /\ h \in DOMAIN run[r].task /\ old \in Tasks /\ Knows(old, h)
        /\ \/ PublishDecoded(r, h) /\ old.pc = "decoded" /\ Working(r, h, "decoded")
           \/ PublishMt5(r, h) /\ old.pc = "mt5" /\ Working(r, h, "mt5")
    BY WorkingIs DEF PublishDecoded, PublishMt5
  <1>2. ArtifactsTyped
    BY DEF TickInv, TickTyped
  <1>3. PICK ticks \in Conversions : ticks = old.ticks
    BY <1>1 DEF Tasks
  <1>4. ticks # NoArtifact
    BY TickAssumption
  <1>5. CASE PublishDecoded(r, h) /\ old.pc = "decoded"
    <2>1. /\ decoded' = [decoded EXCEPT ![h] = Published(decoded[h], ticks)]
          /\ UNCHANGED <<raw, mt5, manifest, summary>>
      BY <1>3, <1>5 DEF PublishDecoded, Conversion
    <2>2. ArtifactsTyped' /\ Final
      BY <1>2, <1>4, <2>1 DEF ArtifactsTyped, Final, Published
    <2>3. \A g \in Hours : Backed(g)'
      BY <1>2, <2>1, <2>2, BackedByOthers
    <2>4. CASE Conflicting(decoded[h], ticks)
      BY <1>1, <1>3, <1>5, <2>1, <2>2, <2>3, <2>4, GivingUp DEF PublishDecoded, Conversion, Fail
    <2>5. CASE ~Conflicting(decoded[h], ticks)
      <3>1. PICK z, task : z = old /\ task = [z EXCEPT !.pc = "mt5"]
        OBVIOUS
      <3>2. Move(r, h, task)
        BY <1>3, <1>5, <2>5, <3>1 DEF PublishDecoded, Conversion, Stage
      <3>3. task \in Tasks /\ task.pc = "mt5" /\ task.status = z.status /\ task.ticks = ticks
        BY <1>1, <1>3, <3>1, NextStep DEF Steps
      <3>4. decoded'[h] = ticks
        BY <1>2, <2>1, <2>5 DEF Conflicting, Published, ArtifactsTyped
      <3>5. Knows(task, h)'
        BY <1>1, <1>3, <1>5, <2>1, <3>1, <3>3, <3>4 DEF Knows
      <3> QED BY <1>1, <2>1, <2>2, <2>3, <3>2, <3>3, <3>5, TaskMoves
    <2> QED BY <2>4, <2>5
  <1>6. CASE PublishMt5(r, h) /\ old.pc = "mt5"
    <2>1. /\ mt5' = [mt5 EXCEPT ![h] = Published(mt5[h], ticks)]
          /\ UNCHANGED <<raw, decoded, manifest, summary>>
      BY <1>3, <1>6 DEF PublishMt5, Conversion
    <2>2. ArtifactsTyped' /\ Final
      BY <1>2, <1>4, <2>1 DEF ArtifactsTyped, Final, Published
    <2>3. \A g \in Hours : Backed(g)'
      BY <1>2, <2>1, <2>2, BackedByOthers
    <2>4. CASE Conflicting(mt5[h], ticks)
      BY <1>1, <1>3, <1>6, <2>1, <2>2, <2>3, <2>4, GivingUp DEF PublishMt5, Conversion, Fail
    <2>5. CASE ~Conflicting(mt5[h], ticks)
      <3>1. PICK z, task : z = old /\ task = [z EXCEPT !.pc = "manifest"]
        OBVIOUS
      <3>2. Move(r, h, task)
        BY <1>3, <1>6, <2>5, <3>1 DEF PublishMt5, Conversion, Stage
      <3>3. task \in Tasks /\ task.pc = "manifest" /\ task.status = z.status /\ task.ticks = ticks
        BY <1>1, <1>3, <3>1, NextStep DEF Steps
      <3>4. mt5'[h] = ticks
        BY <1>2, <2>1, <2>5 DEF Conflicting, Published, ArtifactsTyped
      <3>5. Knows(task, h)'
        BY <1>1, <1>3, <1>6, <2>1, <3>1, <3>3, <3>4 DEF Knows
      <3> QED BY <1>1, <2>1, <2>2, <2>3, <3>2, <3>3, <3>5, TaskMoves
    <2> QED BY <2>4, <2>5
  <1> QED BY <1>1, <1>5, <1>6

LEMMA CountsAreNatural ==
  ASSUME NEW ticks \in Conversions
  PROVE  Len(ticks) \in Nat /\ Duplicates(ticks) \in Nat
  <1>1. ticks \in Seq(Ticks)
    <2>1. <<>> \in Seq(Ticks)
      OBVIOUS
    <2>2. ticks = <<>> \/ \E payload \in Payloads : ticks = payload.ticks
      BY DEF Conversions
    <2> QED BY <2>1, <2>2, TickAssumption
  <1>2. Len(ticks) \in Nat
    BY <1>1
  <1>3. IsFiniteSet(2..Len(ticks))
    BY <1>2, FS_Interval
  <1>4. IsFiniteSet({i \in 2..Len(ticks) : ticks[i].ms = ticks[i - 1].ms})
    BY <1>3, FS_Subset
  <1> QED BY <1>2, <1>4, FS_CardinalityType DEF Duplicates

\* A manifest is written of artifacts that agree with one another.
LEMMA ManifestKeeps ==
  ASSUME TickInv, NEW r \in Runs, NEW h \in Hours, PublishManifest(r, h)
  PROVE  TickInv'
  <1> DEFINE old == run[r].task[h]
  <1>1. /\ Busy(r) /\ h \in DOMAIN run[r].task /\ old \in Tasks /\ old.pc = "manifest" /\ Knows(old, h)
        /\ Working(r, h, "manifest")
    BY WorkingIs DEF PublishManifest
  <1>2. ArtifactsTyped
    BY DEF TickInv, TickTyped
  <1>3. PICK record : record = RecordOf(r, h)
    OBVIOUS
  <1>4. /\ old.status \in {200, 404} /\ old.ticks \in Conversions
        /\ decoded[h] = old.ticks /\ mt5[h] = old.ticks
        /\ IF old.status = 404 THEN ExpectedClosure(h) /\ old.ticks = <<>>
           ELSE raw[h] # NoArtifact /\ Decodable(raw[h], h) /\ old.ticks = raw[h].ticks
    BY <1>1 DEF Knows, Tasks
  <1>5. /\ record \in Manifests /\ record.status = old.status
        /\ record.source = (IF old.status = 200 THEN raw[h] ELSE NoArtifact)
        /\ record.decoded = old.ticks /\ record.converted = old.ticks
    <2>1. raw[h] \in Payloads \cup {NoArtifact}
      BY <1>2 DEF ArtifactsTyped
    <2>2. Len(old.ticks) \in Nat /\ Duplicates(old.ticks) \in Nat
      BY <1>4, CountsAreNatural
    <2> QED BY <1>3, <1>4, <2>1, <2>2 DEF RecordOf, Manifests
  <1>6. record # NoArtifact
    BY <1>5, TickAssumption
  <1>7. /\ manifest' = [manifest EXCEPT ![h] = Published(manifest[h], record)]
        /\ UNCHANGED <<raw, decoded, mt5, summary>>
    BY <1>3 DEF PublishManifest
  <1>8. ArtifactsTyped' /\ Final
    BY <1>2, <1>5, <1>6, <1>7 DEF ArtifactsTyped, Final, Published
  <1>9. \A g \in Hours : Backed(g)'
    <2> SUFFICES ASSUME NEW g \in Hours PROVE Backed(g)'
      OBVIOUS
    <2>1. Backed(g)
      BY DEF TickInv
    <2>2. CASE manifest'[g] = manifest[g]
      BY <1>2, <1>8, <2>1, <2>2, HourStaysBacked
    <2>3. CASE manifest'[g] # manifest[g]
      <3>1. g = h /\ manifest'[h] = record
        BY <1>2, <1>7, <2>3 DEF ArtifactsTyped, Published
      <3>2. HourBacked(h)'
        BY <1>4, <1>5, <1>6, <1>7, <3>1 DEF HourBacked
      <3> QED BY <1>4, <1>5, <3>1, <3>2 DEF Backed
    <2> QED BY <2>2, <2>3
  <1>10. CASE Conflicting(manifest[h], record)
    BY <1>1, <1>3, <1>7, <1>8, <1>9, <1>10, GivingUp DEF PublishManifest, Fail
  <1>11. CASE ~Conflicting(manifest[h], record)
    <2>1. PICK z, task : z = old /\ task = [z EXCEPT !.pc = "done"]
      OBVIOUS
    <2>2. Move(r, h, task)
      BY <1>3, <1>11, <2>1 DEF PublishManifest, Stage
    <2>3. task \in Tasks /\ task.pc = "done"
      BY <1>1, <2>1, NextStep DEF Steps
    <2>4. manifest'[h] # NoArtifact
      BY <1>2, <1>6, <1>7 DEF ArtifactsTyped, Published
    <2>5. Knows(task, h)'
      BY <2>3, <2>4 DEF Knows
    <2> QED BY <1>1, <1>7, <1>8, <1>9, <2>2, <2>3, <2>5, TaskMoves
  <1> QED BY <1>10, <1>11

-----------------------------------------------------------------------------
(* The hours in order. *)

LEMMA RankIncreases ==
  ASSUME NEW S \in SUBSET Nat, IsFiniteSet(S), NEW h \in S
  PROVE  /\ Cardinality(Before(S, h)) \in 0..(Cardinality(S) - 1)
         /\ \A g \in S : g < h => Cardinality(Before(S, g)) < Cardinality(Before(S, h))
  <1>1. \A g \in S : IsFiniteSet(Before(S, g)) /\ Cardinality(Before(S, g)) \in Nat
    <2> SUFFICES ASSUME NEW g \in S PROVE IsFiniteSet(Before(S, g)) /\ Cardinality(Before(S, g)) \in Nat
      OBVIOUS
    <2>1. Before(S, g) \in SUBSET S
      BY DEF Before
    <2> QED BY <2>1, FS_Subset, FS_CardinalityType
  <1>2. Cardinality(S) \in Nat
    BY FS_CardinalityType
  <1>3. Before(S, h) \in SUBSET S /\ h \notin Before(S, h)
    BY DEF Before
  <1>4. Cardinality(Before(S, h)) < Cardinality(S)
    <2>1. Cardinality(Before(S, h)) <= Cardinality(S)
          /\ (Cardinality(S) = Cardinality(Before(S, h)) => S = Before(S, h))
      BY <1>3, FS_Subset
    <2> QED BY <1>1, <1>2, <1>3, <2>1
  <1>5. ASSUME NEW g \in S, g < h
        PROVE  Cardinality(Before(S, g)) < Cardinality(Before(S, h))
    <2>1. \A f \in S : f < g => f < h
      BY <1>5
    <2>2. g \in Nat /\ ~(g < g)
      OBVIOUS
    <2>3. Before(S, g) \in SUBSET Before(S, h) /\ g \in Before(S, h) /\ g \notin Before(S, g)
      BY <1>5, <2>1, <2>2 DEF Before
    <2>4. Cardinality(Before(S, g)) <= Cardinality(Before(S, h))
          /\ (Cardinality(Before(S, h)) = Cardinality(Before(S, g)) => Before(S, h) = Before(S, g))
      BY <1>1, <2>3, FS_Subset
    <2> QED BY <1>1, <2>3, <2>4
  <1> QED BY <1>1, <1>2, <1>4, <1>5

\* The hour at a place of a set is the one of that rank.
LEMMA RankIdentifies ==
  ASSUME NEW S \in SUBSET Nat, IsFiniteSet(S), NEW h \in S
  PROVE  (CHOOSE g \in S : Cardinality(Before(S, g)) = Cardinality(Before(S, h))) = h
  <1>1. ASSUME NEW g \in S, Cardinality(Before(S, g)) = Cardinality(Before(S, h)) PROVE g = h
    <2>1. Cardinality(Before(S, g)) \in Nat /\ Cardinality(Before(S, h)) \in Nat
      BY RankIncreases, FS_CardinalityType
    <2>2. ~(g < h) /\ ~(h < g)
      BY <1>1, <2>1, RankIncreases
    <2> QED BY <2>2
  <1> QED BY <1>1

LEMMA HoursAre == Hours \in SUBSET Nat /\ IsFiniteSet(Hours)
  <1>1. PICK first \in Nat, last \in Nat : Hours = first..last
    BY TickAssumption
  <1>2. IsFiniteSet(first..last)
    BY FS_Interval
  <1> QED BY <1>1, <1>2

\* Every place is that of an hour.
LEMMA RankTaken ==
  ASSUME NEW S \in SUBSET Nat, IsFiniteSet(S), NEW i \in 1..Cardinality(S)
  PROVE  \E h \in S : Cardinality(Before(S, h)) = i - 1
  <1> DEFINE n == Cardinality(S)
             f == [h \in S |-> Cardinality(Before(S, h))]
  <1>1. n \in Nat
    BY FS_CardinalityType
  <1>2. f \in [S -> 0..(n - 1)]
    BY RankIncreases
  <1>3. \A g, h \in S : f[g] = f[h] => g = h
    <2> SUFFICES ASSUME NEW g \in S, NEW h \in S, g # h, f[g] = f[h] PROVE FALSE
      OBVIOUS
    <2>1. f[g] \in Nat /\ f[h] \in Nat /\ Cardinality(Before(S, g)) = Cardinality(Before(S, h))
      BY <1>1, <1>2
    <2>2. g < h \/ h < g
      OBVIOUS
    <2> QED BY <2>1, <2>2, RankIncreases
  <1>4. f \in Injection(S, 0..(n - 1))
    BY <1>2, <1>3 DEF Injection, IsInjective
  <1>5. IsFiniteSet(0..(n - 1)) /\ Cardinality(0..(n - 1)) = n
    <2>1. 0 \in Int /\ n - 1 \in Int
      BY <1>1
    <2>2. Cardinality(0..(n - 1)) = IF 0 > n - 1 THEN 0 ELSE (n - 1) - 0 + 1
      BY <2>1, FS_Interval
    <2> QED BY <1>1, <2>1, <2>2, FS_Interval
  <1> HIDE DEF f, n
  <1>6. f \in Surjection(S, 0..(n - 1))
    BY <1>4, <1>5, FS_Injection DEF n
  <1>7. i - 1 \in 0..(n - 1)
    BY <1>1 DEF n
  <1>8. \E h \in S : f[h] = i - 1
    BY <1>6, <1>7 DEF Surjection
  <1> QED BY <1>8 DEF f

LEMMA Concatenated ==
  \A s, t \in Seq(Manifests) :
    /\ Len(s \o t) = Len(s) + Len(t)
    /\ \A i \in 1..Len(s) : (s \o t)[i] = s[i]
    /\ \A i \in 1..Len(t) : (s \o t)[Len(s) + i] = t[i]
OBVIOUS

LEMMA FunctionIsSequence ==
  ASSUME NEW S, NEW n \in Nat, NEW f \in [1..n -> S]
  PROVE  f \in Seq(S) /\ Len(f) = n
OBVIOUS

\* The records of a batch follow those of the hours before it.
LEMMA BatchAppended ==
  ASSUME NEW from \in Hours, NEW records \in Seq(Manifests), InOrder(records, Before(Hours, from)),
         NEW ordered,
         ordered = [i \in 1..Cardinality(Batch(from)) |->
                      manifest[CHOOSE h \in Batch(from) : Cardinality(Before(Batch(from), h)) = i - 1]],
         \A h \in Batch(from) : manifest[h] \in Manifests /\ manifest[h] # NoArtifact
  PROVE  /\ ordered \in Seq(Manifests)
         /\ InOrder(records \o ordered, Before(Hours, from + Workers))
  <1> DEFINE S == Before(Hours, from)
             B == Batch(from)
             T == Before(Hours, from + Workers)
  <1>1. /\ S \in SUBSET Nat /\ B \in SUBSET Nat /\ T = S \cup B /\ S \cap B = {}
        /\ \A g \in S, h \in B : g < h
    BY HoursAre, TickAssumption DEF Before, Batch
  <1>2. /\ IsFiniteSet(S) /\ IsFiniteSet(B) /\ Cardinality(S) \in Nat /\ Cardinality(B) \in Nat
        /\ Cardinality(T) = Cardinality(S) + Cardinality(B)
    <2>1. IsFiniteSet(S) /\ IsFiniteSet(B)
      BY HoursAre, FS_Subset DEF Before, Batch
    <2>2. Cardinality(T) = Cardinality(S) + Cardinality(B) - Cardinality(S \cap B)
      BY <1>1, <2>1, FS_Union
    <2>3. Cardinality(S \cap B) = 0
      BY <1>1, FS_EmptySet
    <2> QED BY <2>1, <2>2, <2>3, FS_CardinalityType
  <1> HIDE DEF S, B, T
  <1>3. /\ Len(records) = Cardinality(S)
        /\ \A h \in S : manifest[h] # NoArtifact /\ records[Cardinality(Before(S, h)) + 1] = manifest[h]
    BY DEF InOrder, S
  <1>4. ordered = [i \in 1..Cardinality(B) |-> manifest[CHOOSE h \in B : Cardinality(Before(B, h)) = i - 1]]
    BY DEF B
  <1>5. \A h \in B : /\ Cardinality(Before(B, h)) + 1 \in 1..Cardinality(B)
                     /\ ordered[Cardinality(Before(B, h)) + 1] = manifest[h]
    <2> SUFFICES ASSUME NEW h \in B
                 PROVE  /\ Cardinality(Before(B, h)) + 1 \in 1..Cardinality(B)
                        /\ ordered[Cardinality(Before(B, h)) + 1] = manifest[h]
      OBVIOUS
    <2> DEFINE k == Cardinality(Before(B, h))
    <2>1. k \in 0..(Cardinality(B) - 1)
      BY <1>1, <1>2, RankIncreases
    <2>2. (CHOOSE g \in B : Cardinality(Before(B, g)) = k) = h
      BY <1>1, <1>2, RankIdentifies
    <2> HIDE DEF k
    <2>3. k + 1 \in 1..Cardinality(B) /\ (k + 1) - 1 = k
      BY <1>2, <2>1
    <2>4. ordered[k + 1] = manifest[CHOOSE g \in B : Cardinality(Before(B, g)) = (k + 1) - 1]
      BY <1>4, <2>3
    <2>5. ordered[k + 1] = manifest[h]
      BY <2>2, <2>3, <2>4
    <2> QED BY <2>3, <2>5 DEF k
  <1>6. ordered \in Seq(Manifests) /\ Len(ordered) = Cardinality(B)
    <2>1. ASSUME NEW i \in 1..Cardinality(B) PROVE ordered[i] \in Manifests
      <3>1. PICK h \in B : Cardinality(Before(B, h)) = i - 1
        BY <1>1, <1>2, RankTaken
      <3>2. Cardinality(Before(B, h)) + 1 = i
        BY <1>2, <3>1
      <3>3. ordered[i] = manifest[h]
        BY <1>5, <3>2
      <3> QED BY <3>3 DEF B
    <2>2. ordered \in [1..Cardinality(B) -> Manifests]
      BY <1>4, <2>1
    <2>3. PICK n \in Nat : n = Cardinality(B)
      BY <1>2
    <2>4. ordered \in [1..n -> Manifests]
      BY <2>2, <2>3
    <2>5. ordered \in Seq(Manifests) /\ Len(ordered) = n
      BY <2>4, FunctionIsSequence
    <2> QED BY <2>3, <2>5
  <1>9. PICK all : all = records \o ordered
    OBVIOUS
  <1>7. /\ Len(all) = Cardinality(S) + Cardinality(B)
        /\ \A i \in 1..Cardinality(S) : all[i] = records[i]
        /\ \A i \in 1..Cardinality(B) : all[Cardinality(S) + i] = ordered[i]
    <2>1. PICK m \in Nat, n \in Nat : m = Cardinality(S) /\ n = Cardinality(B)
      BY <1>2
    <2>2. records \in Seq(Manifests) /\ ordered \in Seq(Manifests) /\ Len(records) = m /\ Len(ordered) = n
      BY <1>3, <1>6, <2>1
    <2>3. /\ Len(all) = m + n
          /\ \A i \in 1..m : all[i] = records[i]
          /\ \A i \in 1..n : all[m + i] = ordered[i]
      BY <1>9, <2>2, Concatenated
    <2> QED BY <2>1, <2>3
  <1>8. ASSUME NEW h \in T
        PROVE  manifest[h] # NoArtifact /\ all[Cardinality(Before(T, h)) + 1] = manifest[h]
    <2>1. CASE h \in S
      <3>1. Before(T, h) = Before(S, h)
        <4>1. \A g \in B : ~(g < h)
          BY <1>1, <2>1
        <4> QED BY <1>1, <4>1 DEF Before
      <3>2. Cardinality(Before(S, h)) \in 0..(Cardinality(S) - 1)
        BY <1>1, <1>2, <2>1, RankIncreases
      <3>3. PICK k \in 0..(Cardinality(S) - 1) : k = Cardinality(Before(S, h))
        BY <3>2
      <3>4. k + 1 \in 1..Cardinality(S)
        BY <1>2
      <3>5. all[k + 1] = records[k + 1]
        BY <1>7, <3>4
      <3> QED BY <1>3, <2>1, <3>1, <3>3, <3>5
    <2>2. CASE h \in B
      <3>1. Before(T, h) = S \cup Before(B, h) /\ S \cap Before(B, h) = {}
        BY <1>1, <2>2 DEF Before
      <3>2. IsFiniteSet(Before(B, h))
        BY <1>2, FS_Subset DEF Before
      <3>3. Cardinality(Before(T, h)) = Cardinality(S) + Cardinality(Before(B, h)) - Cardinality(S \cap Before(B, h))
        BY <1>2, <3>1, <3>2, FS_Union
      <3>4. Cardinality(S \cap Before(B, h)) = 0
        BY <3>1, FS_EmptySet
      <3>5. PICK k \in Nat : k = Cardinality(Before(B, h))
        BY <3>2, FS_CardinalityType
      <3>6. Cardinality(Before(T, h)) + 1 = Cardinality(S) + (k + 1)
        BY <1>2, <3>3, <3>4, <3>5
      <3>7. k + 1 \in 1..Cardinality(B) /\ ordered[k + 1] = manifest[h]
        BY <1>5, <2>2, <3>5
      <3>8. all[Cardinality(S) + (k + 1)] = manifest[h]
        BY <1>7, <3>7
      <3> QED BY <2>2, <3>6, <3>8 DEF B
    <2> QED BY <1>1, <2>1, <2>2
  <1> QED BY <1>2, <1>6, <1>7, <1>8, <1>9 DEF InOrder, T

-----------------------------------------------------------------------------
(* The steps of a run. *)

\* The invariant after a step that leaves the artifacts alone.
LEMMA RunMoves ==
  ASSUME TickInv, NEW r \in Runs, NEW y, run' = [run EXCEPT ![r] = y],
         UNCHANGED <<raw, decoded, mt5, manifest>>,
         y = Stopped \/ InBatch(y) \/ Summing(y), Collected(y),
         InBatch(y) => \A g \in Batch(y.from) : Knows(y.task[g], g),
         (summary # NoArtifact => InOrder(summary, Hours) /\ HasTicks(summary))'
  PROVE  TickInv'
  <1>1. run' = [s \in Runs |-> run'[s]] /\ run'[r] = y /\ \A s \in Runs \ {r} : run'[s] = run[s]
    BY DEF TickInv, TickTyped
  <1>2. TickTyped'
    <2>1. \A s \in Runs : run'[s] = Stopped \/ InBatch(run'[s]) \/ Summing(run'[s])
      BY <1>1 DEF TickInv, TickTyped
    <2>2. ArtifactsTyped'
      BY DEF TickInv, TickTyped, ArtifactsTyped
    <2> QED BY <1>1, <2>1, <2>2 DEF TickTyped, InBatch, Summing
  <1>3. \A h \in Hours : Backed(h)'
    BY DEF TickInv, Backed, HourBacked
  <1>4. ASSUME NEW s \in Runs
        PROVE  Collected(run[s])' /\ (InBatch(run[s]) => \A g \in Batch(run[s].from) : Knows(run[s].task[g], g))'
    <2>1. PICK z : z = run'[s]
      OBVIOUS
    <2>2. Collected(z) /\ (InBatch(z) => \A g \in Batch(z.from) : Knows(z.task[g], g))
      BY <1>1, <2>1 DEF TickInv
    <2>3. Collected(z)'
      BY <2>2 DEF Collected, InOrder, InBatch, Summing
    <2>4. (InBatch(z) => \A g \in Batch(z.from) : Knows(z.task[g], g))'
      BY <2>2 DEF Knows, InBatch
    <2> QED BY <2>1, <2>3, <2>4
  <1> QED BY <1>2, <1>3, <1>4 DEF TickInv

LEMMA StoppedKeeps ==
  ASSUME TickInv, NEW r \in Runs, run' = [run EXCEPT ![r] = Stopped],
         UNCHANGED <<raw, decoded, mt5, manifest>>,
         (summary # NoArtifact => InOrder(summary, Hours) /\ HasTicks(summary))'
  PROVE  TickInv'
  <1>1. Collected(Stopped) /\ ~InBatch(Stopped)
    BY DEF Stopped, Collected, InBatch, Summing
  <1> QED BY <1>1, RunMoves

LEMMA SummaryStands ==
  ASSUME TickInv, UNCHANGED <<manifest, summary>>
  PROVE  (summary # NoArtifact => InOrder(summary, Hours) /\ HasTicks(summary))'
BY DEF TickInv, InOrder, HasTicks

\* A batch begins with workers that know nothing.
LEMMA BatchBegins ==
  ASSUME TickInv, NEW r \in Runs, NEW from \in Hours, NEW records \in Seq(Manifests),
         run' = [run EXCEPT ![r] = NewBatch(from, records)],
         InOrder(records, Before(Hours, from)),
         UNCHANGED <<raw, decoded, mt5, manifest, summary>>
  PROVE  TickInv'
  <1>1. PICK y : y = NewBatch(from, records)
    OBVIOUS
  <1>2. /\ y.pc = "batch" /\ y.from = from /\ y.records = records
        /\ y.task = [g \in Batch(from) |-> Task("manifest?")]
        /\ y \in [pc : {"batch"}, from : {from}, records : {records},
                  task : {[g \in Batch(from) |-> Task("manifest?")]}]
    BY <1>1 DEF NewBatch
  <1>3. Task("manifest?") \in Tasks
    BY DEF Task, Tasks, Steps, Conversions
  <1>4. InBatch(y)
    BY <1>2, <1>3 DEF InBatch
  <1>5. \A g \in Batch(y.from) : Knows(y.task[g], g)
    BY <1>2 DEF Knows, Task
  <1>6. Collected(y)
    BY <1>2 DEF Collected, Summing
  <1> QED BY <1>1, <1>4, <1>5, <1>6, RunMoves, SummaryStands

LEMMA StartKeeps ==
  ASSUME TickInv, NEW r \in Runs, Start(r)
  PROVE  TickInv'
  <1> DEFINE from == Min(Hours)
  <1>1. from \in Hours /\ \A h \in Hours : from <= h
    <2>1. PICK first \in Hours, last \in Hours : Hours = first..last
      BY TickAssumption
    <2>2. \A h \in Hours : first <= h
      BY <2>1
    <2> QED BY <2>2 DEF Min
  <1>2. Before(Hours, from) = {}
    <2> HIDE DEF from
    <2>1. \A h \in Hours : h \in Nat /\ from \in Nat
      BY <1>1, HoursAre
    <2>2. \A h \in Hours : ~(h < from)
      BY <1>1, <2>1
    <2> QED BY <2>2 DEF Before
  <1>3. <<>> \in Seq(Manifests) /\ Len(<<>>) = 0
    OBVIOUS
  <1>4. InOrder(<<>>, Before(Hours, from))
    BY <1>2, <1>3, FS_EmptySet DEF InOrder
  <1> HIDE DEF from
  <1>5. run' = [run EXCEPT ![r] = NewBatch(from, <<>>)] /\ UNCHANGED <<raw, decoded, mt5, manifest, summary>>
    BY DEF Start, from
  <1> QED BY <1>1, <1>3, <1>4, <1>5, BatchBegins

\* The results of a batch are taken in the order of the hours, whatever the
\* order its workers ended in.
LEMMA CollectKeeps ==
  ASSUME TickInv, NEW r \in Runs, Collect(r)
  PROVE  TickInv'
  <1> DEFINE x == run[r]
             from == x.from
             next == from + Workers
             batch == {h \in DOMAIN x.task : x.task[h].pc = "done"}
             ordered == [i \in 1..Cardinality(batch) |->
                           manifest[CHOOSE h \in batch : Cardinality({g \in batch : g < h}) = i - 1]]
             records == x.records \o ordered
  <1>1. InBatch(x) /\ Busy(r)
    BY BusyIs DEF Collect
  <1>2. /\ from \in Hours /\ x.records \in Seq(Manifests) /\ DOMAIN x.task = Batch(from)
        /\ \A h \in Batch(from) : Knows(x.task[h], h) /\ h \in Hours
        /\ InOrder(x.records, Before(Hours, from))
    BY <1>1 DEF TickInv, InBatch, Collected, Batch
  <1>3. UNCHANGED <<raw, decoded, mt5, manifest, summary>>
    BY DEF Collect
  <1>4. CASE Failed(r)
    <2>1. run' = [run EXCEPT ![r] = Stopped]
      BY <1>4 DEF Collect
    <2> QED BY <1>3, <2>1, StoppedKeeps, SummaryStands
  <1>5. CASE ~Failed(r)
    <2>1. batch = Batch(from)
      BY <1>2, <1>5 DEF Collect, Failed
    <2>2. \A h \in Batch(from) : manifest[h] # NoArtifact /\ manifest[h] \in Manifests
      <3>1. \A h \in Batch(from) : x.task[h].pc = "done"
        BY <1>2, <1>5 DEF Collect, Failed
      <3> QED BY <1>2, <3>1 DEF Knows, TickInv, TickTyped, ArtifactsTyped
    <2>3. PICK b, o :
            /\ b = batch
            /\ o = [i \in 1..Cardinality(b) |-> manifest[CHOOSE h \in b : Cardinality({g \in b : g < h}) = i - 1]]
      OBVIOUS
    <2>4. o = [i \in 1..Cardinality(Batch(from)) |->
                 manifest[CHOOSE h \in Batch(from) : Cardinality(Before(Batch(from), h)) = i - 1]]
      <3>1. b = Batch(from)
        BY <2>1, <2>3
      <3> HIDE DEF x, from, next, batch, ordered, records
      <3> QED BY <2>3, <3>1 DEF Before
    <2>5. PICK f, q : f = from /\ q = x.records
      OBVIOUS
    <2>6. o \in Seq(Manifests) /\ InOrder(q \o o, Before(Hours, f + Workers))
      BY <1>2, <2>2, <2>4, <2>5, BatchAppended
    <2>7. q \o o \in Seq(Manifests)
      BY <1>2, <2>5, <2>6
    <2>8. PICK first \in Hours, last \in Hours : Hours = first..last
      BY TickAssumption
    <2>9. f \in Nat /\ f >= first /\ f + Workers \in Nat /\ first \in Nat /\ last \in Nat /\ f \in Hours
      <3> HIDE DEF x, from, next, batch, ordered, records
      <3>1. f \in Hours /\ Hours \subseteq Nat /\ Workers \in Nat
        BY <1>2, <2>5, TickAssumption
      <3>2. f \in Nat /\ first \in Nat /\ last \in Nat /\ f \in first..last
        BY <2>8, <3>1
      <3> QED BY <3>1, <3>2
    <2>10. run' = [run EXCEPT ![r] = IF Batch(f + Workers) # {} THEN NewBatch(f + Workers, q \o o)
                                     ELSE [pc |-> "summary", records |-> q \o o]]
      <3>1. run' = [run EXCEPT ![r] = IF Batch(next) # {} THEN NewBatch(next, records)
                                      ELSE [pc |-> "summary", records |-> records]]
        BY <1>5 DEF Collect
      <3>2. next = f + Workers /\ records = q \o o
        BY <2>3, <2>5
      <3> HIDE DEF x, from, next, batch, ordered, records
      <3> QED BY <3>1, <3>2
    <2> HIDE DEF x, from, next, batch, ordered, records
    <2>11. CASE Batch(f + Workers) # {}
      <3>1. PICK g \in Hours : f + Workers <= g
        BY <2>11 DEF Batch
      <3>2. f + Workers \in Hours
        BY <2>8, <2>9, <3>1, TickAssumption
      <3>3. PICK n : n = f + Workers
        OBVIOUS
      <3> QED BY <1>3, <2>6, <2>7, <2>10, <2>11, <3>2, <3>3, BatchBegins
    <2>12. CASE Batch(f + Workers) = {}
      <3>1. f + Workers > last
        <4>1. f + Workers \notin Batch(f + Workers)
          BY <2>12
        <4>2. f + Workers < f + Workers + Workers
          BY <2>9, TickAssumption
        <4>3. f + Workers \notin Hours
          BY <2>9, <4>1, <4>2 DEF Batch
        <4> QED BY <2>8, <2>9, <4>3, TickAssumption
      <3>2. Before(Hours, f + Workers) = Hours
        BY <2>8, <2>9, <3>1 DEF Before
      <3>3. PICK y : y = [pc |-> "summary", records |-> q \o o]
        OBVIOUS
      <3>4. Summing(y) /\ ~InBatch(y) /\ y.records = q \o o
        BY <2>7, <3>3 DEF Summing, InBatch
      <3>5. Collected(y)
        BY <2>6, <3>2, <3>4 DEF Collected
      <3>6. run' = [run EXCEPT ![r] = y]
        BY <2>10, <2>12, <3>3
      <3> QED BY <1>3, <3>4, <3>5, <3>6, RunMoves, SummaryStands
    <2> QED BY <2>11, <2>12
  <1> QED BY <1>4, <1>5

LEMMA CertifyKeeps ==
  ASSUME TickInv, NEW r \in Runs, Certify(r)
  PROVE  TickInv'
  <1>1. Summing(run[r])
    BY DEF Certify, TickInv, TickTyped, Stopped, InBatch
  <1>2. InOrder(run[r].records, Hours)
    BY <1>1 DEF TickInv, Collected
  <1>3. /\ run' = [run EXCEPT ![r] = Stopped] /\ UNCHANGED <<raw, decoded, mt5, manifest>>
        /\ summary' = summary \/ (summary' = run[r].records /\ HasTicks(run[r].records))
    BY DEF Certify, Published
  <1>4. (summary # NoArtifact => InOrder(summary, Hours) /\ HasTicks(summary))'
    <2>1. CASE summary' = summary
      BY <1>3, <2>1, SummaryStands
    <2>2. CASE summary' = run[r].records /\ HasTicks(run[r].records)
      BY <1>2, <1>3, <2>2 DEF InOrder, HasTicks
    <2> QED BY <1>3, <2>1, <2>2
  <1> QED BY <1>3, <1>4, StoppedKeeps

-----------------------------------------------------------------------------
(* Theorems. *)

LEMMA TickInit_Inv == TickInit => TickInv
BY DEF TickInit, TickInv, TickTyped, ArtifactsTyped, Backed, Collected, InBatch, Summing, Stopped

LEMMA TickNext_Inv == TickInv /\ [TickNext]_tickVars => TickInv'
  <1> SUFFICES ASSUME TickInv, [TickNext]_tickVars PROVE TickInv'
    OBVIOUS
  <1>1. ASSUME NEW r \in Runs, TickCrash(r) PROVE TickInv'
    BY <1>1, StoppedKeeps, SummaryStands DEF TickCrash
  <1>2. CASE UNCHANGED tickVars
    BY <1>2 DEF tickVars, TickInv, TickTyped, ArtifactsTyped, Knows, Backed, HourBacked, Collected, InOrder,
      HasTicks, InBatch, Summing
  <1> QED
    BY <1>1, <1>2, StartKeeps, CollectKeeps, CertifyKeeps, CheckKeeps, FetchKeeps, RawKeeps, ConversionKeeps,
      ManifestKeeps DEF TickNext

(* The artifacts of the tick archive and its runs always have their types,   *)
(* every manifest is backed by artifacts that agree, and a worker knows what *)
(* of its hour is published.                                                 *)
THEOREM TickInvariant == TickSpec => []TickInv
BY TickInit_Inv, TickNext_Inv, PTL DEF TickSpec

(* A certified month is complete and true, for any month, any provider, any  *)
(* number of runs and workers, and any number of fetches and crashes.        *)
THEOREM MonthCertifiedHolds == TickSpec => []MonthCertified
  <1>1. TickInv => MonthCertified
    <2> SUFFICES ASSUME TickInv, summary # NoArtifact
                 PROVE  /\ Len(summary) = Cardinality(Hours) /\ HasTicks(summary)
                        /\ \A h \in Hours : HourBacked(h)
                             /\ summary[Cardinality({g \in Hours : g < h}) + 1] = manifest[h]
      BY DEF MonthCertified
    <2> QED BY DEF TickInv, InOrder, Before, Backed
  <1> QED BY <1>1, TickInvariant, PTL
=============================================================================
