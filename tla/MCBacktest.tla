------------------------------ MODULE MCBacktest ------------------------------
(* An instance of StrategyRuns for TLC: an hour of two steps.  S001 asks for *)
(* half an ATR of displacement and for a pullback of a quarter to nine       *)
(* tenths of the impulse.                                                    *)
EXTENDS StrategyRuns

Candle(o, h, l, c) == [o |-> o, h |-> h, l |-> l, c |-> c, spread |-> 1]

Rise == Candle(5, 6, 5, 6)
Fall == Candle(3, 4, 0, 0)
Drop == Candle(7, 10, 4, 4)
Push == Candle(6, 7, 4, 7)

OpeningOf == <<Fall, Drop, Drop, Drop>>
CandlesOfTape == {Rise, Fall, Drop, Push}

S001Of == [trendLookback |-> 1, trendPeriod |-> 1, trendMinimum |-> <<1, 2>>,
           momentumLookback |-> 2, momentumPeriod |-> 1, momentumMinimum |-> <<1, 2>>,
           minimumPullback |-> <<1, 4>>, maximumPullback |-> <<9, 10>>,
           maximumBars |-> 4, rewardRisk |-> 1]
WarmupOf == [S001 |-> [base |-> 2, hour |-> 2], VERSION0 |-> [base |-> 2, hour |-> 0],
             SYNTHETIC |-> [base |-> 2, hour |-> 0]]
Springtime == [change |-> 4, before |-> 0, after |-> 1]

ExecutionOf == [spreadModel |-> "HISTORICAL", fixedSpread |-> 0, point |-> 1,
                commissionModel |-> "PER_LOT", commission |-> 1,
                slippageModel |-> "FIXED", slippage |-> 1, interval |-> 1]

\* Intents of a file: each entry type and direction, one pair with the same id.
Order(id, direction, entry, signal, price, stop, target, expires) ==
  [id |-> id, direction |-> direction, entry |-> entry, signal |-> signal, price |-> price,
   stop |-> stop, target |-> target, expires |-> expires, quantity |-> 1]
IntentsOfFile == <<
  Order(1, "SHORT", "MARKET_NEXT_OPEN", 4, 0, 12, 2, 0),
  Order(2, "LONG", "LIMIT", 3, 4, 1, 7, 0),
  Order(3, "SHORT", "LIMIT", 3, 7, 11, 3, 6),
  Order(4, "SHORT", "MARKET_CLOSE", 4, 0, 9, 1, 0),
  Order(5, "LONG", "STOP", 4, 7, 1, 9, 0),
  Order(6, "LONG", "MARKET_NEXT_OPEN", 5, 0, 1, 9, 0),
  Order(6, "LONG", "MARKET_NEXT_OPEN", 6, 0, 1, 9, 0),
  Order(7, "LONG", "MARKET_CLOSE", 7, 0, 1, 9, 0)>>
===============================================================================
