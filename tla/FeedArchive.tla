------------------------------ MODULE FeedArchive ------------------------------
(***************************************************************************)
(* The incremental archive of a live feed: pollers read the archive, ask   *)
(* the terminal for what followed, drop the bar still forming, and under a *)
(* writer lock merge, write content-addressed monthly files and move the   *)
(* month's pointer to them.  Pollers run concurrently and may die anywhere;*)
(* the operating system then releases the lock.                            *)
(***************************************************************************)
EXTENDS Observations

CONSTANTS Pollers,
          MaxClock,      \* the feed's last minute
          FeedMonth,     \* minutes per month
          Histories,     \* finished bars the terminal may report: functions from minutes
          Forming,       \* the value of a bar that is not finished
          InitialWindow, Overlap,
          MaxPolls, MaxDeaths, NoPointer

\* The bars the terminal has, once they are finished.
FeedBars == UNION {{[t |-> t, v |-> history[t]] : t \in DOMAIN history} : history \in Histories}

ASSUME FeedAssumption ==
    /\ Grid \in Nat /\ MaxClock \in Nat
    /\ \A history \in Histories : DOMAIN history \subseteq 0..MaxClock
    /\ \A o \in FeedBars : o.v # Forming
    /\ NoPointer \notin Pollers /\ \A rows \in SUBSET FeedBars : rows # NoPointer

VARIABLES clock,
          files,         \* month -> contents of the .parquet files in its folder
          pointer,       \* month -> content current.json names
          lock,          \* the poller holding .writer.lock, or NoPointer
          poller,
          acknowledged,  \* bars of ingests that returned ARCHIVED
          polls          \* polls and deaths so far (bounds)

feedVars == <<clock, files, pointer, lock, poller, acknowledged, polls>>

FeedMonthOf(t) == t \div FeedMonth
FeedMonths == {FeedMonthOf(t) : t \in 0..MaxClock}
Asleep == [pc |-> "asleep"]
Phase(p, pc) == poller[p].pc = pc
Step(p, value) == poller' = [poller EXCEPT ![p] = value]

FeedInit ==
    /\ clock = 1
    /\ files = [m \in FeedMonths |-> {}]
    /\ pointer = [m \in FeedMonths |-> NoPointer]
    /\ lock = NoPointer
    /\ poller = [p \in Pollers |-> Asleep]
    /\ acknowledged = {}
    /\ polls = [started |-> 0, deaths |-> 0]

\* read: every pointed file verified, all months together.
Archive == UNION {pointer[m] : m \in {n \in FeedMonths : pointer[n] # NoPointer}}

Tick ==
    /\ clock < MaxClock
    /\ clock' = clock + 1
    /\ UNCHANGED <<files, pointer, lock, poller, acknowledged, polls>>

-----------------------------------------------------------------------------
\* poll: the cutoff is taken first, the start from what is archived now.
Poll(p) ==
    /\ Phase(p, "asleep") /\ polls.started < MaxPolls
    /\ Step(p, [pc |-> "rates", now |-> clock,
                start |-> IF Archive = {} THEN clock - InitialWindow
                          ELSE Max(Times(Archive)) - Overlap])
    /\ polls' = [polls EXCEPT !.started = @ + 1]
    /\ UNCHANGED <<clock, files, pointer, lock, acknowledged>>

\* The terminal answers later than the cutoff: a bar is finished by its clock.
Answer(history, start, now) ==
    {[t |-> t, v |-> IF t + Grid <= clock THEN history[t] ELSE Forming] :
        t \in {s \in DOMAIN history : start <= s /\ s <= now}}

\* Only bars that had ended at the cutoff are kept.
CompletedBars(rows, now) == {o \in rows : o.t + Grid <= now}

\* merge_archive: identical overlap is one row, a different value is fatal.
Refused(rows) == Conflicts(rows) # {} \/ Erroneous(rows)

\* ingest up to the lock: nothing new, or a merge that must already be valid.
Ingest(p) ==
    /\ Phase(p, "rates")
    /\ \E history \in Histories :
         LET bars == CompletedBars(Answer(history, poller[p].start, poller[p].now), poller[p].now)
         IN  Step(p, IF bars = {} \/ Refused(Archive \cup bars) THEN Asleep
                     ELSE [pc |-> "lock", bars |-> bars])
    /\ UNCHANGED <<clock, files, pointer, lock, acknowledged, polls>>

\* Mutant: the lock is opened but never waited for or refused.
AcquireMutant(p) ==
    /\ Phase(p, "lock")
    /\ lock' = p /\ Step(p, [poller[p] EXCEPT !.pc = "merge"])
    /\ UNCHANGED <<clock, files, pointer, acknowledged, polls>>

\* Non-blocking: a second writer gives up.
Acquire(p) ==
    /\ Phase(p, "lock")
    /\ IF lock = NoPointer THEN lock' = p /\ Step(p, [poller[p] EXCEPT !.pc = "merge"])
                           ELSE Step(p, Asleep) /\ UNCHANGED lock
    /\ UNCHANGED <<clock, files, pointer, acknowledged, polls>>

\* The archive is read again under the lock.
MergeLocked(p) ==
    /\ Phase(p, "merge")
    /\ LET merged == Archive \cup poller[p].bars
       IN  IF Refused(merged) THEN Step(p, Asleep) /\ lock' = NoPointer
           ELSE /\ Step(p, [pc |-> "file", merged |-> merged, bars |-> poller[p].bars,
                            todo |-> {FeedMonthOf(t) : t \in Times(merged)}])
                /\ UNCHANGED lock
    /\ UNCHANGED <<clock, files, pointer, acknowledged, polls>>

Group(p) == {o \in poller[p].merged : FeedMonthOf(o.t) = Min(poller[p].todo)}

\* A file is written under its fingerprint, unless it is already there.
WriteFile(p) ==
    /\ Phase(p, "file")
    /\ files' = [files EXCEPT ![Min(poller[p].todo)] = @ \cup {Group(p)}]
    /\ Step(p, [poller[p] EXCEPT !.pc = "pointer"])
    /\ UNCHANGED <<clock, pointer, lock, acknowledged, polls>>

\* current.json is replaced last; after the last month the ingest returns.
Point(p) ==
    /\ Phase(p, "pointer")
    /\ LET m == Min(poller[p].todo)
           rest == poller[p].todo \ {m}
       IN  /\ pointer' = [pointer EXCEPT ![m] = Group(p)]
           /\ IF rest # {}
              THEN /\ Step(p, [poller[p] EXCEPT !.pc = "file", !.todo = rest])
                   /\ UNCHANGED <<lock, acknowledged>>
              ELSE /\ Step(p, Asleep)
                   /\ lock' = NoPointer
                   /\ acknowledged' = acknowledged \cup poller[p].bars
    /\ UNCHANGED <<clock, files, polls>>

Die(p) ==
    /\ ~Phase(p, "asleep") /\ polls.deaths < MaxDeaths
    /\ Step(p, Asleep)
    /\ lock' = IF lock = p THEN NoPointer ELSE lock
    /\ polls' = [polls EXCEPT !.deaths = @ + 1]
    /\ UNCHANGED <<clock, files, pointer, acknowledged>>

FeedNext == Tick \/ \E p \in Pollers : \/ Poll(p) \/ Ingest(p) \/ Acquire(p) \/ MergeLocked(p)
                                       \/ WriteFile(p) \/ Point(p) \/ Die(p)

FeedSpec == FeedInit /\ [][FeedNext]_feedVars

-----------------------------------------------------------------------------
(* Properties *)

(* Every bar an ingest acknowledged is served from then on, whatever other  *)
(* writers do and wherever they die; nothing served was still forming when  *)
(* it was taken; two different bars are never served for one minute; and    *)
(* every pointer names a file that exists.                                  *)
AcknowledgedIsServed ==
    /\ acknowledged \subseteq Archive
    /\ Conflicts(Archive) = {} /\ \A o \in Archive : o.v # Forming
    /\ \A m \in FeedMonths : pointer[m] \in files[m] \cup {NoPointer}
=============================================================================
