--------------------------- MODULE DiscoveryRecords ---------------------------
(***************************************************************************)
(* The discovery records of a growing history of bars: every anchor found  *)
(* in a continuity segment, joined to its causal contexts and to what the  *)
(* bars after it did (research/discovery_record_builder.py,                *)
(* research_record.py, discovery_projection.py,                            *)
(* discovery_context_projection.py).                                       *)
(*                                                                         *)
(* The history grows by one base step at a time; a step whose bar is       *)
(* missing ends the continuity segment.                                    *)
(***************************************************************************)
EXTENDS LevelHistory, MarketStructure

CONSTANTS
  Candles,    \* the candles a bar may have
  Daily,      \* the frame whose candle gives the daily levels
  MaxSteps,   \* bound: base steps of a history
  MaxMissing  \* bound: missing bars of a history

VARIABLES
  bars,       \* opening instant -> candle
  clock       \* the instant the next bar opens at

vars == <<bars, clock>>

ASSUME StreamAssumption ==
  /\ Daily \in DOMAIN Frames
  /\ Candles \subseteq [o : Int, h : Int, l : Int, c : Int]
  /\ \A k \in Candles : /\ k.l > 0
                        /\ k.l <= Min({k.o, k.c})
                        /\ k.h >= Max({k.o, k.c})

Init == bars = <<>> /\ clock = 0

NextBar ==
  /\ clock < MaxSteps
  /\ \E candle \in Candles :
        bars' = [t \in DOMAIN bars \union {clock} |->
                   IF t = clock THEN candle ELSE bars[t]]
  /\ clock' = clock + 1

MissBar ==
  /\ clock < MaxSteps
  /\ clock - Cardinality(DOMAIN bars) < MaxMissing
  /\ clock' = clock + 1
  /\ UNCHANGED bars

Next == NextBar \/ MissBar

Spec == Init /\ [][Next]_vars

-------------------------------------------------------------------------------
(* Records of a segment. *)

Cut(history, end) == [t \in {u \in DOMAIN history : u < end} |-> history[t]]

\* The continuity segments: maximal runs of bars with none missing.
Segments(history) ==
  LET whole(x) == /\ x[1] <= x[2]
                  /\ x[1] .. x[2] \subseteq DOMAIN history
                  /\ x[1] - 1 \notin DOMAIN history /\ x[2] + 1 \notin DOMAIN history
  IN  {[t \in x[1] .. x[2] |-> history[t]] :
         x \in {y \in (DOMAIN history) \X (DOMAIN history) : whole(y)}}

\* Keeps the bars of the horizon.
EligibleMutant(segment) == segment

\* The last Max(Horizons) bars of a segment only measure outcomes.
Eligible(segment) == Cut(segment, Max(DOMAIN segment) + 1 - Max(Horizons))

SegmentAnchors(segment) ==
  LET prefix == Eligible(segment)
  IN  IF DOMAIN prefix = {} THEN {} ELSE Anchors(prefix, Max(DOMAIN prefix) + 1)

\* Contexts are joined from the bars up to the last evidence.
ContextOf(prefix, last, anchor) ==
  LET known == Cut(prefix, last)
      slots == SessionSlots(known, last, anchor.evidence)
  IN  [frames        |-> JoinMultiTimeframe(known, anchor.evidence),
       sessions      |-> slots,
       relationships |-> RelationshipSlots(slots),
       market        |-> MarketContexts(prefix)[anchor.evidence - Min(DOMAIN prefix)],
       transition    |-> anchor.semantics]

LastEvidence(anchors) == Max({a.evidence : a \in anchors})

SegmentRecords(segment) ==
  LET anchors == SegmentAnchors(segment)
  IN  {[anchor   |-> a,
        context  |-> ContextOf(Eligible(segment), LastEvidence(anchors), a),
        outcomes |-> [h \in Horizons |-> ForwardOutcome(segment, a, h)]] : a \in anchors}

Records(history) == UNION {SegmentRecords(g) : g \in Segments(history)}

\* What assembling a segment's records would reject.
AssemblyRaises(segment) ==
  LET prefix   == Eligible(segment)
      decision == Max(DOMAIN prefix) + 1
      anchors  == SegmentAnchors(segment)
      rejected(a) ==
        LET known == Cut(prefix, LastEvidence(anchors))
            slots == SessionSlots(known, LastEvidence(anchors), a.evidence)
        IN  \/ a.evidence < a.instance.available
            \/ a.evidence - 1 \notin DOMAIN known
            \/ known[a.evidence - 1].c # a.reference
            \/ OutcomeRaises(segment, a)
            \/ \E id \in DOMAIN Sessions :
                  ~slots[id].active /\ slots[id].window.end > a.evidence
  IN  /\ DOMAIN prefix # {}
      /\ \/ \E x \in GeometryInstances(prefix, decision) : HistoryRaises(prefix, x, decision)
         \/ \E f \in DOMAIN Frames : BlocksRaise(prefix, decision, Frames[f])
         \/ SessionsRaise(prefix, decision)
         \/ \E a \in anchors : rejected(a)

-------------------------------------------------------------------------------
(* Projection to a row. *)

Shape(candle, reference) ==
  LET span == candle.h - candle.l
  IN  IF candle = NoBar THEN NoValue
      ELSE <<Direction(candle), SafeRatio(span, reference),
             SafeRatio(AbsValue(candle.c - candle.o), span), SafeRatio(candle.c - candle.l, span)>>

DailyLevels(candle) == <<candle.o, candle.h, candle.l, candle.c>>

\* Identity, predictors and targets of a record, each in its own namespace.
Project(record) ==
  LET a        == record.anchor
      c        == record.context
      snapshot == c.frames.snapshot
      daily    == snapshot.frames[Daily].candle
      shape(k) == Shape(k, a.reference)
  IN  [meta |-> [evidence |-> a.evidence, block |-> a.instance.block,
                 price |-> a.instance.price, reference |-> a.reference],
       x |-> [kind |-> a.kind, level |-> a.instance.level,
              block |-> a.instance.block.index, code |-> a.code,
              base |-> shape(snapshot.base),
              frames |-> [f \in DOMAIN Frames |-> shape(snapshot.frames[f].candle)],
              missing |-> c.frames.missing,
              sessions |-> [id \in DOMAIN Sessions |->
                 LET slot == c.sessions[id]
                 IN  <<slot.active, IF slot.summary = NoSummary THEN NoValue
                                    ELSE shape(slot.summary.candle)>>],
              relationships |-> c.relationships,
              market |-> c.market, transition |-> c.transition,
              daily |-> IF daily = NoBar THEN NoValue
                        ELSE [i \in DOMAIN DailyLevels(daily) |->
                                MeasureLevel(snapshot.base, DailyLevels(daily)[i],
                                             c.market.row.atr)]],
       y |-> record.outcomes]

-------------------------------------------------------------------------------
(* Properties. *)

\* A snapshot of the one-pass history is the snapshot that was asked for when
\* its bar closed, and the one asked for now with every later bar supplied: a
\* block completed later never replaces a missing one.
HistoricalIsCausal ==
  DOMAIN bars # {} =>
    \A t \in DOMAIN bars :
      /\ HistoricalSnapshots(bars)[t] = MultiTimeframeSnapshot(Cut(bars, t + 1), t + 1)
      /\ HistoricalSnapshots(bars)[t] = MultiTimeframeSnapshot(bars, t + 1)

\* The expected window of a frame is the latest block with elapsed time to
\* have ended, and the relevant session the latest to have started, also on
\* the day the clocks change.
ClockFindsLatest ==
  /\ \A f \in DOMAIN Frames :
       LET w == ExpectedCompletedWindow(clock, Frames[f])
       IN  /\ w.start < w.end /\ w.end <= clock
           /\ \A t \in 0 .. clock :
                LET b == ResolveBlock(t, Frames[f])
                IN  b.start < b.end /\ b.end <= clock => b.end <= w.end
  /\ \A id \in DOMAIN Sessions :
       LET w == Relevant(Sessions[id], clock)
       IN  /\ w.start <= clock
           /\ \A d \in w.date - 1 .. w.date + 2 :
                SessionWindow(Sessions[id], d).start <= clock => d <= w.date

\* The touch episodes of a level are the touch runs of its states, and an
\* untouched checkpoint claims no bar that a touch pattern claims.
LevelViewsAgree ==
  \A g \in Segments(bars) : \A x \in GeometryInstances(g, Max(DOMAIN g) + 1) :
    LET history == InteractionHistory(g, x, Max(DOMAIN g) + 1)
        runs    == StateRuns(States(history, x.price))
        touches == InOrder({k \in DOMAIN runs : runs[k].state = "TOUCH"})
    IN  /\ TouchEpisodes(history) =
             [n \in DOMAIN touches |-> [first |-> runs[touches[n]].first,
                                        last  |-> runs[touches[n]].last]]
        /\ \A n \in {a.index : a \in CheckpointAnchors(x, history)} :
             \A p \in Range(TouchPatterns(runs)) : p.first > n

\* No check of a record, of a context or of an outcome rejects what the
\* builder assembles from a segment.
RecordsAssemble == \A g \in Segments(bars) : ~AssemblyRaises(g)

\* A record knew its anchor, and everything it is predicted from, at its
\* evidence instant: the bars from there on change neither.
NoLookahead ==
  \A g \in Segments(bars) : \A r \in SegmentRecords(g) :
    LET seen == Cut(g, r.anchor.evidence)
    IN  /\ r.anchor \in Anchors(seen, r.anchor.evidence)
        /\ Project(r).x = Project([r EXCEPT
             !.context = ContextOf(seen, r.anchor.evidence, r.anchor)]).x

\* The batch gives every bar the ATR, the swing counts and the latest swings
\* that a snapshot measures from the bars visible at that bar's close.
SnapshotsAgree ==
  \A g \in Segments(bars) : \A i \in 1 .. Cardinality(DOMAIN g) :
    LET c == MarketContexts(g)[i]
        s == MarketStateSnapshot(g, c.row.decision, c.row.decision)
    IN  c.row.atr = s.atr /\ c.counts = s.counts /\ c.latest = s.latest

\* A bar never revises a record: what was recorded stays, as it was.
RecordsNeverRevised == [][Records(bars) \subseteq Records(bars')]_bars

\* What was found by bar n comes first and unchanged; the rest is found later.
Extends(now, before, n) ==
  /\ IsPrefix(before, now)
  /\ \A k \in Len(before) + 1 .. Len(now) : now[k].at > n

\* A bar never revises a swing or a break of the segment it extends: those
\* that bars of the segment confirmed are the ones found before the bar.
StructureNeverRevised ==
  [][\A g \in Segments(bars) : \A h \in Segments(bars') :
       Min(DOMAIN g) = Min(DOMAIN h) =>
         /\ \A kind \in Kinds : Extends(ConfirmedSwings(Series(h), kind),
                                        ConfirmedSwings(Series(g), kind), Cardinality(DOMAIN g))
         /\ Extends(StructureBreaks(Series(h)), StructureBreaks(Series(g)), Cardinality(DOMAIN g))]_bars
===============================================================================
