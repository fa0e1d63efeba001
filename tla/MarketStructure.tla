---------------------------- MODULE MarketStructure ----------------------------
(***************************************************************************)
(* Swings, structure breaks, volatility and multi-timeframe features, once *)
(* as the batch that labels every bar of a history                         *)
(* (discovery_market_context.py, universal/*.py) and once as the snapshot  *)
(* measured from the bars visible at one cutoff (engine.py).               *)
(*                                                                         *)
(* s is a sequence of candles in time order, numbered from 1.  Ratios are  *)
(* pairs <<numerator, denominator>>; NoValue stands for None.              *)
(***************************************************************************)
EXTENDS Ordering, Sequences, SequencesExt

CONSTANTS
  Left, Right,   \* bars on either side of a swing
  CountWindow,   \* swings of a kind that are compared
  AtrPeriod,     \* Wilder period
  RankWindow,    \* observations a percentile of the batch needs
  RankHistory,   \* observations a percentile of a snapshot uses
  Lookback,      \* bars of the prior range
  Contexts       \* context timeframe -> base steps

ASSUME StructureAssumption ==
  /\ {Left, Right, CountWindow, AtrPeriod, RankWindow, RankHistory,
      Lookback} \subseteq Nat \ {0}
  /\ \A c \in DOMAIN Contexts : Contexts[c] \in Nat \ {0}

NoValue == <<>>

Series(bars) == LET times == InOrder(DOMAIN bars)
                IN  Listed([i \in DOMAIN times |-> bars[times[i]]])

SafeRatio(num, den) == IF den = 0 THEN NoValue ELSE <<num, den>>

-------------------------------------------------------------------------------
(* Volatility. *)

AbsValue(x) == IF x < 0 THEN -x ELSE x

TrueRange(s, i) == Max({s[i].h - s[i].l, AbsValue(s[i].h - s[i - 1].c),
                        AbsValue(s[i].l - s[i - 1].c)})

\* One step of Wilder's mean.  The mean is num / AtrPeriod^exp.
WilderStep(atr, range) ==
  [num |-> atr.num * (AtrPeriod - 1) + range * AtrPeriod ^ atr.exp,
   exp |-> atr.exp + 1]

SumOf(ranges) == FoldFunction(LAMBDA range, sum : sum + range, 0, ranges)

WilderSeed(s) == [num |-> SumOf([i \in 2 .. AtrPeriod + 1 |-> TrueRange(s, i)]), exp |-> 1]

Positive(atr) == IF atr.num > 0 THEN <<atr.num, AtrPeriod ^ atr.exp>> ELSE NoValue

\* The ATR of a whole history: the mean is carried over the ranges after the seed.
WilderAtr(s) ==
  LET mean[k \in Nat] == IF k = 0 THEN WilderSeed(s)
                         ELSE WilderStep(mean[k - 1], TrueRange(s, k + AtrPeriod + 1))
  IN  IF Len(s) <= AtrPeriod THEN NoValue ELSE Positive(mean[Len(s) - AtrPeriod - 1])

\* The ATR of every bar in one pass.
AtrSeries(s) ==
  LET run[i \in Nat] == IF i <= AtrPeriod + 1 THEN WilderSeed(s)
                        ELSE WilderStep(run[i - 1], TrueRange(s, i))
  IN  Listed([i \in DOMAIN s |-> IF i <= AtrPeriod THEN NoValue ELSE Positive(run[i])])

AtMost(x, y) == x[1] * y[2] <= y[1] * x[2]

\* Weak rank of the current value among the values of a history.
CausalPercentile(current, history) ==
  LET values == SelectSeq(history, LAMBDA v : v # NoValue)
  IN  IF current = NoValue \/ values = <<>> THEN NoValue
      ELSE <<Len(SelectSeq(values, LAMBDA v : AtMost(v, current))), Len(values)>>

\* The batch asks for a full window of valid values.
PercentileSeries(values) ==
  [i \in DOMAIN values |->
     LET window == SubSeq(values, i - RankWindow + 1, i)
     IN  IF i < RankWindow \/ NoValue \in Range(window) THEN NoValue
         ELSE CausalPercentile(values[i], window)]

Ranges(s) == [i \in DOMAIN s |-> <<s[i].h - s[i].l, 1>>]

-------------------------------------------------------------------------------
(* Swings and structure. *)

Kinds == {"HIGH", "LOW"}
Beyond(kind, x, y) == IF kind = "HIGH" THEN x > y ELSE x < y
Extreme(kind, bar) == IF kind = "HIGH" THEN bar.h ELSE bar.l

\* Strict pivots, in the order of their bars.
ConfirmedSwings(s, kind) ==
  LET pivots == {i \in Left + 1 .. Len(s) - Right :
                   \A j \in (i - Left .. i + Right) \ {i} :
                      Beyond(kind, Extreme(kind, s[i]), Extreme(kind, s[j]))}
      order  == InOrder(pivots)
  IN  Listed([k \in DOMAIN order |-> [index |-> order[k], at |-> order[k] + Right,
                                      price |-> Extreme(kind, s[order[k]])]])

\* The swings of both kinds.
SwingsOf(s) == [HIGH |-> ConfirmedSwings(s, "HIGH"), LOW |-> ConfirmedSwings(s, "LOW")]

\* How many of the last CountWindow swings rose, and fell, from their
\* predecessor.
StructureCounts(swings) ==
  LET recent == SubSeq(swings, Max({1, Len(swings) - CountWindow + 1}), Len(swings))
      pairs  == 1 .. Len(recent) - 1
  IN  [higher |-> Cardinality({k \in pairs : recent[k + 1].price > recent[k].price}),
       lower  |-> Cardinality({k \in pairs : recent[k + 1].price < recent[k].price})]

\* "H" or "L" against the preceding swing of the kind: HH, LH, HL or LL.
Label(swings, k) ==
  CASE k = 1 \/ swings[k].price = swings[k - 1].price -> "none"
    [] swings[k].price > swings[k - 1].price -> "H"
    [] OTHER -> "L"

\* The last swing of a kind confirmed by bar i; 0 when there is none.
LatestConfirmed(swings, i) == Max({0} \union {k \in DOMAIN swings : swings[k].at <= i})

\* Tests the close against a swing not confirmed yet.
CrossedMutant(s, swings, kind, i) ==
  LET k == LatestConfirmed(swings, i + Right)
  IN  /\ i > 1 /\ k # 0
      /\ ~Beyond(kind, s[i - 1].c, swings[k].price)
      /\ Beyond(kind, s[i].c, swings[k].price)

\* The close of bar i crosses the last confirmed swing of a kind.
Crossed(s, swings, kind, i) ==
  LET k == LatestConfirmed(swings, i)
  IN  /\ i > 1 /\ k # 0
      /\ ~Beyond(kind, s[i - 1].c, swings[k].price)
      /\ Beyond(kind, s[i].c, swings[k].price)

\* A swing confirmed at bar i sets the regime when both kinds agree.
Established(swings, i, regime) ==
  LET label(kind) == LET k == LatestConfirmed(swings[kind], i)
                     IN  IF k = 0 THEN "none" ELSE Label(swings[kind], k)
      fresh == \E kind \in Kinds : \E k \in DOMAIN swings[kind] : swings[kind][k].at = i
  IN  CASE fresh /\ label("HIGH") = "H" /\ label("LOW") = "H" -> "BULLISH"
        [] fresh /\ label("HIGH") = "L" /\ label("LOW") = "L" -> "BEARISH"
        [] OTHER -> regime

\* The close of bar i breaks the last confirmed swing of a kind, unless it is
\* broken already.
TestSwing(s, swings, state, kind, i) ==
  LET key  == <<kind, LatestConfirmed(swings[kind], i)>>
      side == IF kind = "HIGH" THEN "BULLISH" ELSE "BEARISH"
  IN  IF Crossed(s, swings[kind], kind, i) /\ key \notin state.broken
        THEN [regime |-> side, broken |-> state.broken \union {key},
              breaks |-> Append(state.breaks,
                [at |-> i, side |-> side, broken |-> key,
                 kind |-> IF state.regime \in {"none", side} THEN "BOS" ELSE "CHOCH"])]
        ELSE state

\* A bar tests the high first, then the low.
ScanBar(s, swings, state, i) ==
  LET opened == [state EXCEPT !.regime = Established(swings, i, @)]
  IN  TestSwing(s, swings, TestSwing(s, swings, opened, "HIGH", i), "LOW", i)

\* The state of the break scan after the last bar: the regime, the swings
\* already broken and the breaks so far.
BreakScan(s) ==
  LET swings == SwingsOf(s)
      scan[i \in Nat] == IF i = 0 THEN [regime |-> "none", broken |-> {}, breaks |-> <<>>]
                         ELSE ScanBar(s, swings, scan[i - 1], i)
  IN  scan[Len(s)]

StructureBreaks(s) == BreakScan(s).breaks

\* Only the last break of a bar is kept in its context.
BreakAt(breaks, i) ==
  LET here == {k \in DOMAIN breaks : breaks[k].at = i}
  IN  IF here = {} THEN "none" ELSE <<breaks[Max(here)].kind, breaks[Max(here)].side>>

-------------------------------------------------------------------------------
(* The batch. *)

PriorStructure(s, i) ==
  IF i <= Lookback THEN NoValue
  ELSE LET high == Max({s[j].h : j \in i - Lookback .. i - 1})
           low  == Min({s[j].l : j \in i - Lookback .. i - 1})
       IN  <<high, low, s[i].c > high, s[i].c < low>>

\* Whole UTC buckets of a context timeframe, by their start.
CompletedBuckets(bars, size) ==
  {b \in {(t \div size) * size : t \in DOMAIN bars} : b .. b + size - 1 \subseteq DOMAIN bars}

\* Direction of the latest bucket that ended by the decision, and the closes
\* of the buckets up to it.
ContextAt(bars, size, decision) ==
  LET ended == InOrder({b \in CompletedBuckets(bars, size) : b + size <= decision})
      last  == ended[Len(ended)]
  IN  IF ended = <<>> THEN NoValue
      ELSE <<bars[last + size - 1].c - bars[last].o,
             [k \in DOMAIN ended |-> bars[ended[k] + size - 1].c]>>

\* A row per completed bar; it is ready when none of its features is missing.
FeatureRows(bars) ==
  LET s     == Series(bars)
      times == InOrder(DOMAIN bars)
      atr   == AtrSeries(s)
      atrRank   == PercentileSeries(atr)
      rangeRank == PercentileSeries(Ranges(s))
  IN  [i \in DOMAIN s |->
        LET context == [c \in DOMAIN Contexts |-> ContextAt(bars, Contexts[c], times[i] + 1)]
            prior   == PriorStructure(s, i)
        IN  [decision |-> times[i] + 1, candle |-> s[i], atr |-> atr[i],
             atrRank |-> atrRank[i], rangeRank |-> rangeRank[i], prior |-> prior,
             context |-> context,
             ready |-> /\ atr[i] # NoValue /\ atrRank[i] # NoValue
                       /\ rangeRank[i] # NoValue /\ prior # NoValue
                       /\ \A c \in DOMAIN Contexts : context[c] # NoValue]]

\* The latest swing of a kind as a bar sees it.
LatestSwing(swings, i, close) ==
  LET k == LatestConfirmed(swings, i)
  IN  IF k = 0 THEN NoValue
      ELSE <<swings[k].price, close - swings[k].price, i - swings[k].at>>

\* Keeps one swing too few.
RecentSwingsMutant(swings, i) ==
  LET known == SelectSeq(swings, LAMBDA w : w.at <= i)
  IN  SubSeq(known, Max({1, Len(known) + 2 - CountWindow}), Len(known))

\* A confirmed swing joins the recent swings of its kind, which drop to the
\* last CountWindow.
JoinRecent(recent, swing, i) ==
  IF swing.at > i THEN recent
  ELSE SubSeq(Append(recent, swing), Max({1, Len(recent) + 2 - CountWindow}), Len(recent) + 1)

\* The swings counted after bar i, kept bar by bar.
RecentSwings(swings, i) ==
  LET recent[k \in Nat] == IF k = 0 THEN <<>> ELSE JoinRecent(recent[k - 1], swings[k], i)
  IN  recent[Len(swings)]

\* The context of every decision instant of a history.
MarketContexts(bars) ==
  LET s      == Series(bars)
      rows   == FeatureRows(bars)
      swings == SwingsOf(s)
      breaks == StructureBreaks(s)
  IN  [i \in DOMAIN s |->
        [row    |-> rows[i],
         counts |-> [kind \in Kinds |-> StructureCounts(RecentSwings(swings[kind], i))],
         latest |-> [kind \in Kinds |-> LatestSwing(swings[kind], i, s[i].c)],
         labels |-> [kind \in Kinds |->
                       LET k == LatestConfirmed(swings[kind], i)
                       IN  IF k = 0 THEN "none" ELSE Label(swings[kind], k)],
         break  |-> BreakAt(breaks, i)]]

\* Distances of a bar from a level, in price and in ATRs.
MeasureLevel(bar, level, atr) ==
  LET range == CASE bar.l > level -> bar.l - level
                 [] bar.h < level -> bar.h - level
                 [] OTHER -> 0
      prices == <<bar.c - level, range, Max({0, bar.h - level}), Max({0, level - bar.l})>>
  IN  [price |-> prices,
       atr   |-> [i \in DOMAIN prices |->
                    IF atr = NoValue THEN NoValue ELSE SafeRatio(prices[i] * atr[2], atr[1])]]

-------------------------------------------------------------------------------
(* The snapshot. *)

\* Bars that are not complete at the cutoff are excluded, and flagged.
MarketStateSnapshot(bars, decision, cutoff) ==
  LET visible == {t \in DOMAIN bars : t + 1 <= cutoff}
      s       == Series([t \in visible |-> bars[t]])
      atr     == WilderAtr(s)
      series  == SelectSeq([i \in DOMAIN s |-> WilderAtr(SubSeq(s, 1, i))],
                           LAMBDA v : v # NoValue)
      history == SubSeq(series, Max({1, Len(series) - RankHistory + 1}), Len(series))
      swings  == SwingsOf(s)
  IN  [decision |-> decision, cutoff |-> cutoff, atr |-> atr,
       atrRank  |-> CausalPercentile(atr, history),
       counts   |-> [kind \in Kinds |-> StructureCounts(swings[kind])],
       latest   |-> [kind \in Kinds |-> LatestSwing(swings[kind], Len(s), s[Len(s)].c)],
       excluded |-> visible # DOMAIN bars]
===============================================================================
