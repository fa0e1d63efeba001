------------------------------ MODULE Strategies ------------------------------
(***************************************************************************)
(* The strategy plugins and the runtime that replays bars to them          *)
(* (strategies/runtime.py, s001/, version0/, examples/synthetic_test.py).  *)
(*                                                                         *)
(* The base timeframe is one step long, an hour HourSize steps and a block *)
(* of Version 0 BlockSize steps.  A frame lists candles with their opening *)
(* instants t.  Ratios are pairs <<numerator, denominator>>; a setup and a *)
(* signal are identified by their contents.                                *)
(***************************************************************************)
EXTENDS Ordering, SequencesExt

CONSTANTS
  HourSize, BlockSize,
  NewYork,         \* [change, before, after]: offset of local time
  S001,            \* the registered parameters of S001
  StopDistance, TargetDistance,  \* of Version 0, in price
  EveryN,          \* parameter of the synthetic strategy
  Warmup           \* strategy -> frame -> bars required

ASSUME StrategiesAssumption ==
  /\ {HourSize, BlockSize, EveryN, StopDistance, TargetDistance} \subseteq Nat \ {0}
  /\ S001.momentumLookback \in Nat \ {0, 1}
  /\ {S001.trendLookback, S001.trendPeriod, S001.momentumPeriod, S001.maximumBars,
      S001.rewardRisk} \subseteq Nat \ {0}
  /\ Warmup["S001"].base >= 2

None == <<>>
Directions == {"LONG", "SHORT"}
Opposite(direction) == IF direction = "LONG" THEN "SHORT" ELSE "LONG"

Latest(s, n) == SubSeq(s, Max({1, Len(s) - n + 1}), Len(s))

-------------------------------------------------------------------------------
(* Frames. *)

Base(bars) == LET times == InOrder(DOMAIN bars)
              IN  Listed([i \in DOMAIN times |-> bars[times[i]] @@ [t |-> times[i]]])

\* Only buckets with all their bars become bars of the higher timeframe.
HourBars(bars) ==
  LET whole == InOrder({b \in {(t \div HourSize) * HourSize : t \in DOMAIN bars} :
                          b .. b + HourSize - 1 \subseteq DOMAIN bars})
      bucket(b) == {bars[t] : t \in b .. b + HourSize - 1}
  IN  Listed([i \in DOMAIN whole |->
         [t |-> whole[i], o |-> bars[whole[i]].o, c |-> bars[whole[i] + HourSize - 1].c,
          h |-> Max({k.h : k \in bucket(whole[i])}), l |-> Min({k.l : k \in bucket(whole[i])})]])

Size == [base |-> 1, hour |-> HourSize]

-------------------------------------------------------------------------------
(* Features of S001. *)

Distance(x, y) == IF x < y THEN y - x ELSE x - y
Reaches(x, minimum) == x[1] * minimum[2] >= minimum[1] * x[2]

TrueRanges(s) ==
  Listed([i \in 1 .. Len(s) - 1 |->
     Max({s[i + 1].h - s[i + 1].l, Distance(s[i + 1].h, s[i].c), Distance(s[i + 1].l, s[i].c)})])

\* Wilder's mean true range, from the first bar.
Atr(s, period) ==
  LET ranges == TrueRanges(s)
      mean   == FoldLeft(LAMBDA atr, range : <<(period - 1) * atr[1] + range * atr[2], period * atr[2]>>,
                         <<FoldLeft(+, 0, SubSeq(ranges, 1, period)), period>>,
                         SubSeq(ranges, period + 1, Len(ranges)))
  IN  IF Len(ranges) < period \/ mean[1] = 0 THEN None ELSE mean

\* Displacement of the last bars, in ATRs: its direction, or "NONE" when it is
\* below the minimum.
Displaced(s, lookback, period, minimum) ==
  LET atr   == Atr(s, period)
      move  == s[Len(s)].c - s[Len(s) - lookback + 1].o
  IN  IF Len(s) < Max({lookback, period + 1}) \/ atr = None \/ move = 0 THEN "NONE"
      ELSE IF Reaches(<<Distance(move, 0) * atr[2], atr[1]>>, minimum)
           THEN IF move > 0 THEN "LONG" ELSE "SHORT" ELSE "NONE"

Trend(hours) == Displaced(hours, S001.trendLookback, S001.trendPeriod, S001.trendMinimum)
Momentum(base) == Displaced(base, S001.momentumLookback, S001.momentumPeriod, S001.momentumMinimum)

\* The side of a bar a pullback works towards, and the side it came from.
Far(direction, bar) == IF direction = "LONG" THEN bar.l ELSE bar.h
Near(direction, bar) == IF direction = "LONG" THEN bar.h ELSE bar.l
Beyond(direction, x, y) == IF direction = "LONG" THEN x > y ELSE x < y

\* The impulse in the last bars: its start is the most extreme bar, the first
\* of equals, that a later bar rises from; its end the extreme after that.
ImpulseAnchors(base, direction) ==
  LET w == Latest(base, S001.momentumLookback)
      best(S, side(_), d) == CHOOSE i \in S : \A j \in S :
                               \/ Beyond(d, side(w[i]), side(w[j]))
                               \/ side(w[i]) = side(w[j]) /\ i <= j
      end(i)  == best(i + 1 .. Len(w), LAMBDA bar : Near(direction, bar), direction)
      starts  == {i \in 1 .. Len(w) - 1 :
                    Beyond(direction, Near(direction, w[end(i)]), Far(direction, w[i]))}
      start   == best(starts, LAMBDA bar : Far(direction, bar), Opposite(direction))
  IN  IF starts = {} THEN None
      ELSE [start |-> w[start].t, end |-> w[end(start)].t,
            origin |-> Far(direction, w[start]), peak |-> Near(direction, w[end(start)])]

-------------------------------------------------------------------------------
(* The setups of S001. *)

NewSetup(direction, anchors, now) ==
  [direction |-> direction, created |-> now, anchors |-> anchors,
   started |-> FALSE, extreme |-> None, bars |-> 0]

\* What the bar that just closed does to a setup: nothing, a longer pullback,
\* a terminal state with its reason, or a signal.
Advance(setup, base, trend, now) ==
  LET direction == setup.direction
      anchors  == setup.anchors
      current  == base[Len(base)]
      previous == base[Len(base) - 1]
      far      == Far(direction, current)
      begins   == Beyond(Opposite(direction), far, Far(direction, previous))
      extreme  == IF setup.started /\ Beyond(Opposite(direction), setup.extreme, far)
                  THEN setup.extreme ELSE far
      depth    == <<Distance(anchors.peak, extreme), Distance(anchors.peak, anchors.origin)>>
      armed    == Beyond(direction, anchors.peak, extreme) /\ Reaches(depth, S001.minimumPullback)
      tooDeep  == Beyond(direction, anchors.peak, extreme) /\ ~Reaches(S001.maximumPullback, depth)
      confirms == Beyond(direction, current.c, Near(direction, previous))
      risk     == Distance(current.c, extreme)
      pulled   == [setup EXCEPT !.started = TRUE, !.extreme = extreme, !.bars = @ + 1]
      ended(reason) == [kind |-> reason]
  IN  CASE current.t <= anchors.end \/ (~setup.started /\ ~begins) -> [kind |-> "WAITING", setup |-> setup]
        [] OTHER ->
           CASE tooDeep -> ended("INVALID_DEPTH")
             [] ~tooDeep /\ armed /\ confirms ->
                  IF trend # direction THEN ended("INVALID_CONTEXT_LOST")
                  ELSE IF ~Beyond(direction, current.c, extreme) THEN ended("INVALID_STOP_GEOMETRY")
                  ELSE [kind |-> "SIGNAL_EMITTED", signal |->
                          [direction |-> direction, entry |-> "MARKET_CLOSE", signal |-> now,
                           price |-> current.c, stop |-> extreme, expires |-> 0, quantity |-> 1,
                           target |-> IF direction = "LONG" THEN current.c + S001.rewardRisk * risk
                                      ELSE current.c - S001.rewardRisk * risk]]
             [] ~tooDeep /\ ~(armed /\ confirms) ->
                  IF pulled.bars >= S001.maximumBars THEN ended("EXPIRED_TIME")
                  ELSE [kind |-> "MONITORED", setup |-> pulled]

\* A setup remains active only while it waits or is monitored.
Kept(step) == step.kind \in {"WAITING", "MONITORED"}

\* active lists the setups in the order they were created.  A decision works
\* on every setup, and looks for a new one only when nothing ended in it and
\* no position is unresolved.
EvaluateS001(plugin, base, hours, now) ==
  LET trend == Trend(hours)
      steps == Listed([k \in DOMAIN plugin.active |-> Advance(plugin.active[k], base, trend, now)])
      kept  == SelectSeq(steps, Kept)
      out   == SelectSeq(steps, LAMBDA x : x.kind = "SIGNAL_EMITTED")
      active   == [k \in DOMAIN kept |-> kept[k].setup]
      position == plugin.position \/ out # <<>>
      anchors  == ImpulseAnchors(base, trend)
      creates  == /\ ~position /\ Len(kept) = Len(steps)
                  /\ trend # "NONE" /\ \A k \in DOMAIN active : active[k].direction # trend
                  /\ Momentum(base) = trend
                  /\ anchors # None
  IN  [plugin  |-> [active   |-> IF creates THEN Append(active, NewSetup(trend, anchors, now)) ELSE active,
                    position |-> position],
       signals |-> [k \in DOMAIN out |-> out[k].signal]]

-------------------------------------------------------------------------------
(* Version 0 and the synthetic strategy. *)

Local(t) == t + (IF t < NewYork.change THEN NewYork.before ELSE NewYork.after)

\* At a local block boundary, a limit below the body of the last bars.
EvaluateVersion0(plugin, base, hours, now) ==
  LET block == Latest(base, BlockSize)
      open  == block[1].o
      close == block[Len(block)].c
      fib3  == Min({open, close}) - Distance(open, close)
      fresh == Len(block) = BlockSize /\ Local(now) % BlockSize = 0 /\ plugin.boundary # now
  IN  [plugin  |-> [boundary |-> IF fresh THEN now ELSE plugin.boundary],
       signals |-> IF ~fresh \/ open = close THEN <<>>
                   ELSE << [direction |-> "LONG", entry |-> "LIMIT", signal |-> now,
                            price |-> fib3, stop |-> fib3 - StopDistance,
                            target |-> fib3 + TargetDistance,
                            expires |-> now + BlockSize, quantity |-> 1] >>]

EvaluateSynthetic(plugin, base, hours, now) ==
  LET seen  == plugin.seen + 1
      price == base[Len(base)].c
  IN  [plugin  |-> [seen |-> seen],
       signals |-> IF seen % EveryN # 0 THEN <<>>
                   ELSE << [direction |-> "LONG", entry |-> "MARKET_NEXT_OPEN", signal |-> now,
                            price |-> price, stop |-> price - 1, target |-> price + 2,
                            expires |-> 0, quantity |-> 1] >>]

-------------------------------------------------------------------------------
(* The runtime. *)

Strategies == {"S001", "VERSION0", "SYNTHETIC"}

Reset == [S001 |-> [active |-> <<>>, position |-> FALSE],
          VERSION0 |-> [boundary |-> -1],
          SYNTHETIC |-> [seen |-> 0]]

Evaluate(strategy, plugin, base, hours, now) ==
  CASE strategy = "S001"      -> EvaluateS001(plugin, base, hours, now)
    [] strategy = "VERSION0"  -> EvaluateVersion0(plugin, base, hours, now)
    [] strategy = "SYNTHETIC" -> EvaluateSynthetic(plugin, base, hours, now)

\* Mutant: a bar is visible from its opening instant.
VisibleMutant(frame, timeframe, decision) ==
  SelectSeq(frame, LAMBDA bar : bar.t < decision)

\* The bars of a frame that are complete at a decision.
Visible(frame, timeframe, decision) ==
  SelectSeq(frame, LAMBDA bar : bar.t + Size[timeframe] <= decision)

\* One decision at the close of every base bar, skipped until every frame is
\* warm; the plugin keeps its state from one to the next.
Replay(strategy, bars) ==
  LET base  == Base(bars)
      hours == HourBars(bars)
      decide(run, now) ==
        LET b == Visible(base, "base", now)
            h == Visible(hours, "hour", now)
            result == Evaluate(strategy, run.plugin, b, h, now)
        IN  IF Len(b) < Warmup[strategy].base \/ Len(h) < Warmup[strategy].hour THEN run
            ELSE [plugin |-> result.plugin, signals |-> run.signals \o result.signals]
  IN  FoldLeft(decide, [plugin |-> Reset[strategy], signals |-> <<>>],
               Listed([i \in DOMAIN base |-> base[i].t + Size["base"]]))

Signals(strategy, bars) == Replay(strategy, bars).signals
===============================================================================
