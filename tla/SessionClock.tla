----------------------------- MODULE SessionClock -----------------------------
(***************************************************************************)
(* Local wall-clock blocks and sessions over a stream of UTC bars          *)
(* (market_state/session_clock.py, block_aggregation.py,                   *)
(* session_summary.py, the multi-timeframe snapshots and their joins).     *)
(*                                                                         *)
(* An instant is a number of base steps since the epoch, so every bar is   *)
(* on the base grid.  A bar is named by its opening instant: a history is  *)
(* a function `bars` from opening instants to candles [o, h, l, c], and    *)
(* the instants outside its domain are missing bars.                       *)
(***************************************************************************)
EXTENDS Integers, FiniteSets, FiniteSetsExt

CONSTANTS
  Day,            \* base steps of 24 local hours
  Frames,         \* frame id -> [zone, anchor, size]: a BlockConfig
  Sessions,       \* session id -> [zone, start, startFold, end, endFold]
  Relationships   \* set of [reference, observed] pairs of session ids

\* A zone is [change, before, after]: its UTC offset is `before` until the
\* instant `change` and `after` from then on.
Offset(zone, t) == IF t < zone.change THEN zone.before ELSE zone.after
Local(zone, t) == t + Offset(zone, t)

\* Wall time to instant, as zoneinfo does it: an ambiguous wall time is its
\* first occurrence for fold 0; a skipped one takes the offset before for
\* fold 0.  Fold 1 takes the other offset in both cases.
ToUtc(zone, w, fold) ==
  LET edge == zone.change + (IF fold = 0 THEN Max({zone.before, zone.after})
                                         ELSE Min({zone.before, zone.after}))
  IN  w - (IF w < edge THEN zone.before ELSE zone.after)

BoundaryExists(zone, w, fold) == Local(zone, ToUtc(zone, w, fold)) = w

ASSUME DayAssumption == Day \in Nat \ {0}

\* The wall times that a clock change skips or repeats.
Shifted(zone) == zone.change + Min({zone.before, zone.after}) ..
                   zone.change + Max({zone.before, zone.after}) - 1

\* The wall times that a clock change skips.
Skipped(zone) == zone.change + zone.before .. zone.change + zone.after - 1

\* Blocks tile the 24 local hours.  None starts inside the hour of a clock
\* change: the configured blocks are whole hours, and clocks change on the hour.
TilesDay(frame) ==
  /\ frame.size \in Nat \ {0}
  /\ Day % frame.size = 0
  /\ frame.anchor \in 0 .. Day - 1
  /\ frame.zone \in [change : Int, before : Int, after : Int]
  /\ \A w \in Shifted(frame.zone) :
        w - 1 \in Shifted(frame.zone) => (w - frame.anchor) % frame.size # 0

ASSUME FramesAssumption == \A f \in DOMAIN Frames : TilesDay(Frames[f])

\* Sessions start and end by day, clocks change at night: no session starts in
\* an hour that a change skips or repeats, and none ends in one it skips.
ASSUME SessionsAssumption ==
  /\ \A s \in DOMAIN Sessions :
        /\ Sessions[s].start \in 0 .. Day - 1
        /\ Sessions[s].end \in 0 .. Day - 1
        /\ Sessions[s].start # Sessions[s].end
        /\ {Sessions[s].startFold, Sessions[s].endFold} \subseteq {0, 1}
        /\ Sessions[s].zone \in [change : Int, before : Int, after : Int]
        /\ \A w \in Shifted(Sessions[s].zone) : (w - Sessions[s].start) % Day # 0
        /\ \A w \in Skipped(Sessions[s].zone) : (w - Sessions[s].end) % Day # 0
  /\ \A r \in Relationships :
        /\ {r.reference, r.observed} \subseteq DOMAIN Sessions
        /\ r.reference # r.observed

NoBar == [o |-> 0, h |-> 0, l |-> 0, c |-> 0]

Completed(bars, decision) == {t \in DOMAIN bars : t + 1 <= decision}

\* The candle of the whole grid start .. end - 1.
Merge(bars, start, end) ==
  [o |-> bars[start].o, c |-> bars[end - 1].c,
   h |-> Max({bars[t].h : t \in start .. end - 1}),
   l |-> Min({bars[t].l : t \in start .. end - 1})]

-------------------------------------------------------------------------------
(* Blocks. *)

ResolveBlock(t, frame) ==
  LET wall   == Local(frame.zone, t)
      today  == (wall \div Day) * Day + frame.anchor
      anchor == IF wall < today THEN today - Day ELSE today
      index  == (wall - anchor) \div frame.size
      start  == anchor + index * frame.size
  IN  [date  |-> anchor \div Day, index |-> index,
       start |-> ToUtc(frame.zone, start, 0),
       end   |-> ToUtc(frame.zone, start + frame.size, 0)]

\* aggregate_completed_blocks raises when a completed bar falls in a block that
\* has no elapsed time.
BlocksRaise(bars, decision, frame) ==
  \E t \in Completed(bars, decision) :
     LET b == ResolveBlock(t, frame) IN b.end <= b.start

\* A block is emitted when it has ended and its members are exactly its grid.
CompletedBlocks(bars, decision, frame) ==
  LET done      == Completed(bars, decision)
      members(b) == {t \in done : LET r == ResolveBlock(t, frame)
                                  IN r.start = b.start /\ r.end = b.end}
      ended     == {b \in {ResolveBlock(t, frame) : t \in done} : b.end <= decision}
  IN  {[block |-> b, candle |-> Merge(bars, b.start, b.end)] :
         b \in {x \in ended : members(x) = x.start .. x.end - 1}}

NoWindow == [start |-> 0, end |-> 0]
Window(b) == [start |-> b.start, end |-> b.end]

\* Takes the block of the base bar, ended or not.
ExpectedCompletedWindowMutant(decision, frame) == Window(ResolveBlock(decision - 1, frame))

\* The latest block that ended at or before the decision: probe the instant
\* before each block that has not.  NoWindow is the ValueError of a probe
\* that does not move back.
ExpectedCompletedWindow(decision, frame) ==
  LET probe[p \in Int] ==
        LET b == ResolveBlock(p, frame)
        IN  IF b.start < b.end /\ b.end <= decision THEN Window(b)
            ELSE IF b.start - 1 >= p THEN NoWindow ELSE probe[b.start - 1]
  IN  probe[decision]

\* The candle of a window among completed blocks; NoBar when it is not there.
CandleOf(blocks, window) ==
  LET found == {x \in blocks : Window(x.block) = window}
  IN  IF found = {} THEN NoBar ELSE (CHOOSE x \in found : TRUE).candle

\* A snapshot asked for directly at the decision instant.
MultiTimeframeSnapshot(bars, decision) ==
  [decision |-> decision,
   base     |-> IF decision - 1 \in DOMAIN bars THEN bars[decision - 1] ELSE NoBar,
   frames   |-> [f \in DOMAIN Frames |->
     LET w == ExpectedCompletedWindow(decision, Frames[f])
     IN  [window |-> w,
          candle |-> CandleOf(CompletedBlocks(bars, decision, Frames[f]), w)]]]

\* One pass over the whole history: blocks are aggregated once, at its end,
\* and every bar's snapshot looks its windows up among them.
HistoricalSnapshots(bars) ==
  LET blocks == [f \in DOMAIN Frames |->
                   CompletedBlocks(bars, Max(DOMAIN bars) + 1, Frames[f])]
  IN  [t \in DOMAIN bars |->
        [decision |-> t + 1, base |-> bars[t],
         frames   |-> [f \in DOMAIN Frames |->
           LET w == ExpectedCompletedWindow(t + 1, Frames[f])
           IN  [window |-> w, candle |-> CandleOf(blocks[f], w)]]]]

\* The snapshot joined to an anchor: the one whose base bar ends at the
\* evidence instant, with the frames it lacks.
JoinMultiTimeframe(bars, evidence) ==
  LET s == HistoricalSnapshots(bars)[evidence - 1]
  IN  [snapshot |-> s,
       missing  |-> {f \in DOMAIN Frames : s.frames[f].candle = NoBar}]

-------------------------------------------------------------------------------
(* Sessions. *)

SessionWindow(s, date) ==
  LET last == IF s.end < s.start THEN date + 1 ELSE date
      from == date * Day + s.start
      to   == last * Day + s.end
  IN  [date  |-> date,
       start |-> ToUtc(s.zone, from, s.startFold),
       end   |-> ToUtc(s.zone, to, s.endFold),
       valid |-> /\ BoundaryExists(s.zone, from, s.startFold)
                 /\ BoundaryExists(s.zone, to, s.endFold)]

Direction(candle) == CASE candle.c > candle.o -> "BULLISH"
                       [] candle.c < candle.o -> "BEARISH"
                       [] OTHER -> "FLAT"

\* Only dates on which a supplied bar opens are tried (and, overnight, the
\* dates before them); a session with any bar missing is omitted.
SessionDates(bars, decision, s) ==
  LET dates == {Local(s.zone, t) \div Day : t \in Completed(bars, decision)}
  IN  dates \union (IF s.end < s.start THEN {d - 1 : d \in dates} ELSE {})

CompletedSessions(bars, decision) ==
  UNION {LET s == Sessions[id]
         IN  {[id |-> id, date |-> w.date, start |-> w.start, end |-> w.end,
               candle |-> Merge(bars, w.start, w.end),
               direction |-> Direction(Merge(bars, w.start, w.end))] :
                w \in {x \in {SessionWindow(s, d) : d \in SessionDates(bars, decision, s)} :
                         /\ x.end <= decision
                         /\ x.start .. x.end - 1 \subseteq Completed(bars, decision)}}
         : id \in DOMAIN Sessions}

\* A rejected boundary fails the aggregation of every session.
SessionsRaise(bars, decision) ==
  \E id \in DOMAIN Sessions : \E d \in SessionDates(bars, decision, Sessions[id]) :
     LET w == SessionWindow(Sessions[id], d) IN ~w.valid \/ w.end <= w.start

Position(value, candle) == CASE value > candle.h -> "ABOVE"
                             [] value < candle.l -> "BELOW"
                             [] OTHER -> "INSIDE"

CompareSessions(ref, obs) ==
  LET above   == obs.candle.h > ref.candle.h
      below   == obs.candle.l < ref.candle.l
      overlap == Min({ref.end, obs.end}) - Max({ref.start, obs.start})
  IN  [open |-> Position(obs.candle.o, ref.candle),
       close |-> Position(obs.candle.c, ref.candle),
       above |-> above, below |-> below, both |-> above /\ below,
       highReturned |-> above /\ obs.candle.c <= ref.candle.h,
       lowReturned  |-> below /\ obs.candle.c >= ref.candle.l,
       inside |-> ~above /\ ~below,
       ranges |-> <<ref.candle.h - ref.candle.l, obs.candle.h - obs.candle.l>>,
       sameDirection |-> ref.direction = obs.direction,
       overlap |-> Max({0, overlap})]

\* Keeps yesterday's window at the very start of today's.
RelevantMutant(s, decision) ==
  LET today == Local(s.zone, decision) \div Day
      w     == SessionWindow(s, today)
  IN  IF w.start >= decision THEN SessionWindow(s, today - 1) ELSE w

\* Today's window once it has started, else yesterday's.
Relevant(s, decision) ==
  LET today == Local(s.zone, decision) \div Day
      w     == SessionWindow(s, today)
  IN  IF w.start > decision THEN SessionWindow(s, today - 1) ELSE w

NoSummary == [id |-> "none"]

\* The slot of each session at an anchor: summaries are looked up by session
\* and local date, and an active session has none.
SessionSlots(bars, last, evidence) ==
  [id \in DOMAIN Sessions |->
     LET w      == Relevant(Sessions[id], evidence)
         active == w.start <= evidence /\ evidence < w.end
         found  == {x \in CompletedSessions(bars, last) : x.id = id /\ x.date = w.date}
     IN  [window |-> Window(w), active |-> active,
          summary |-> IF active \/ found = {} THEN NoSummary
                      ELSE CHOOSE x \in found : TRUE]]

RelationshipSlots(slots) ==
  [r \in Relationships |->
     LET ref == slots[r.reference].summary
         obs == slots[r.observed].summary
     IN  [unavailable |-> {id \in {r.reference, r.observed} : slots[id].summary = NoSummary},
          relationship |-> IF NoSummary \in {ref, obs} THEN NoSummary
                           ELSE CompareSessions(ref, obs)]]
===============================================================================
