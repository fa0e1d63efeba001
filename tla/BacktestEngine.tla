---------------------------- MODULE BacktestEngine ----------------------------
(***************************************************************************)
(* The execution engine (execution/engine.py), its costs and the metrics   *)
(* of a ledger: what becomes of trade intents on a market.                 *)
(*                                                                         *)
(* A market is a function from the opening instants of its bars to candles *)
(* [o, h, l, c, spread]; Prepared lists it in time order.  R multiples are *)
(* pairs <<profit, risk>>.                                                 *)
(***************************************************************************)
EXTENDS Ordering, SequencesExt

CONSTANTS
  Execution,   \* the ExecutionConfig
  YearLength   \* instants per year

ASSUME ExecutionAssumption ==
  /\ Execution.spreadModel \in {"ZERO", "FIXED", "HISTORICAL"}
  /\ Execution.commissionModel \in {"ZERO", "PER_TRADE", "PER_LOT"}
  /\ Execution.slippageModel \in {"ZERO", "FIXED"}
  /\ {Execution.fixedSpread, Execution.commission, Execution.slippage} \subseteq Nat
  /\ {Execution.point, Execution.interval, YearLength} \subseteq Nat \ {0}

NoIndex == 0

-------------------------------------------------------------------------------
(* Costs. *)

SpreadDistance(points) ==
  CASE Execution.spreadModel = "ZERO"       -> 0
    [] Execution.spreadModel = "FIXED"      -> Execution.fixedSpread
    [] Execution.spreadModel = "HISTORICAL" -> Max({0, points}) * Execution.point

Commission(quantity) ==
  CASE Execution.commissionModel = "ZERO"      -> 0
    [] Execution.commissionModel = "PER_TRADE" -> Execution.commission
    [] Execution.commissionModel = "PER_LOT"   -> Execution.commission * quantity * 2

Slippage(quantity) ==
  IF Execution.slippageModel = "ZERO" THEN 0 ELSE Execution.slippage * quantity

-------------------------------------------------------------------------------
(* Entry. *)

Prepared(market) ==
  LET times == InOrder(DOMAIN market)
  IN  Listed([i \in DOMAIN times |-> [t |-> times[i], bar |-> market[times[i]]]])

DatasetEnd(rows) == rows[Len(rows)].t + Execution.interval

\* The first bar that opens at or after an instant, past the end if none does.
FirstFrom(rows, instant) == Cardinality({i \in DOMAIN rows : rows[i].t < instant}) + 1

\* Bars at which a resting order is reached, before it expires.
Fills(intent, rows) ==
  LET expiry == IF intent.expires = NoIndex THEN DatasetEnd(rows) ELSE intent.expires
  IN  {i \in FirstFrom(rows, intent.signal) .. Len(rows) :
         /\ rows[i].t < expiry
         /\ \/ intent.direction = "LONG" /\ rows[i].bar.l <= intent.price
            \/ intent.direction = "SHORT" /\ rows[i].bar.h >= intent.price}

\* An intent at the market takes the next open, or the close the signal was
\* decided on; one at a limit the first bar that reaches it.
EntryIndex(intent, rows) ==
  LET from   == FirstFrom(rows, intent.signal)
      closed == {i \in DOMAIN rows : rows[i].t = intent.signal - Execution.interval}
      fills  == Fills(intent, rows)
  IN  CASE intent.entry = "MARKET_NEXT_OPEN" -> IF from > Len(rows) THEN NoIndex ELSE from
        [] intent.entry = "MARKET_CLOSE" -> IF closed = {} THEN NoIndex ELSE Max(closed)
        [] intent.entry = "LIMIT" -> IF fills = {} THEN NoIndex ELSE Min(fills)

EntryPrice(intent, row) ==
  CASE intent.entry = "MARKET_NEXT_OPEN" -> row.bar.o
    [] intent.entry = "MARKET_CLOSE"     -> row.bar.c
    [] intent.entry = "LIMIT"            -> intent.price

Sign(intent) == IF intent.direction = "LONG" THEN 1 ELSE -1

Risk(intent, price) == Sign(intent) * (price - intent.stop)

-------------------------------------------------------------------------------
(* Exit. *)

\* What a bar does to an open position: it is held, or ends at a price.
\* A position is closed at the bid, a short one at the ask.  When both prices
\* are within the bar the stop counts.
Outcome(intent, bar) ==
  LET long   == intent.direction = "LONG"
      quote(p) == IF long THEN p ELSE p + SpreadDistance(bar.spread)
      stopped(p) == IF long THEN p <= intent.stop ELSE p >= intent.stop
      reached(p) == IF long THEN p >= intent.target ELSE p <= intent.target
      open   == quote(bar.o)
      worst  == quote(IF long THEN bar.l ELSE bar.h)
      best   == quote(IF long THEN bar.h ELSE bar.l)
  IN  CASE stopped(open) -> [price |-> open, reason |-> "GAP_THROUGH_SL"]
        [] ~stopped(open) /\ reached(open) ->
             [price |-> intent.target, reason |-> "GAP_BEYOND_TP_CONSERVATIVE"]
        [] ~stopped(open) /\ ~reached(open) /\ stopped(worst) ->
             [price |-> intent.stop,
              reason |-> IF reached(best) THEN "SAME_BAR_AMBIGUOUS_SL_FIRST" ELSE "STOP_LOSS"]
        [] ~reached(open) /\ ~stopped(worst) /\ reached(best) ->
             [price |-> intent.target, reason |-> "TAKE_PROFIT"]
        [] OTHER -> [reason |-> "HELD"]

Gaps(rows, after, upto) ==
  Cardinality({i \in after + 1 .. upto : rows[i].t - rows[i - 1].t > Execution.interval})

Recorded(intent) == [id |-> intent.id, signal |-> intent.signal]

Reject(intent, reason) == Recorded(intent) @@ [status |-> "REJECTED", reason |-> reason]

\* A position entered at a bar, which is never before the signal.  One entered at a close meets its first bar
\* after it, every other one the bar it was entered in.
Hold(intent, rows, entry) ==
  LET price  == EntryPrice(intent, rows[entry])
      start  == IF intent.entry = "MARKET_CLOSE" THEN entry + 1 ELSE entry
      ending == {i \in start .. Len(rows) : Outcome(intent, rows[i].bar).reason # "HELD"}
      risk   == Risk(intent, price)
      opened == Recorded(intent) @@ [entryTime |-> IF intent.entry = "MARKET_CLOSE"
                                                   THEN intent.signal ELSE rows[entry].t,
                                     entryPrice |-> price, risk |-> risk]
  IN  IF ending = {}
        THEN opened @@ [status |-> "OPEN", reason |-> "END_OF_DATA",
                        held |-> Len(rows) - entry + 1, gaps |-> Gaps(rows, entry, Len(rows))]
        ELSE LET exit  == Min(ending)
                 out   == Outcome(intent, rows[exit].bar)
                 gross == (out.price - price) * Sign(intent) * intent.quantity
                 costs == SpreadDistance(rows[entry].bar.spread) * intent.quantity
                          + Commission(intent.quantity) + Slippage(intent.quantity)
             IN  opened @@ [status |-> "CLOSED", reason |-> out.reason,
                            exitTime |-> rows[exit].t, exitPrice |-> out.price,
                            grossR |-> <<gross, risk * intent.quantity>>,
                            netR |-> <<gross - costs, risk * intent.quantity>>,
                            held |-> exit - entry + 1, gaps |-> Gaps(rows, entry, exit)]

Execute(intent, rows) ==
  IF intent.entry = "STOP" THEN Reject(intent, "UNSUPPORTED_ENTRY_TYPE")
  ELSE IF rows # <<>> /\ (intent.signal < rows[1].t \/ intent.signal > DatasetEnd(rows))
    THEN Reject(intent, "SIGNAL_OUTSIDE_DATASET")
  ELSE
    LET entry == IF rows = <<>> THEN NoIndex ELSE EntryIndex(intent, rows)
        price == EntryPrice(intent, rows[entry])
    IN  CASE entry = NoIndex ->
               Reject(intent, IF intent.entry = "MARKET_NEXT_OPEN"
                              THEN "MISSING_NEXT_OPEN_EXECUTION_CANDLE"
                              ELSE "IMPOSSIBLE_SIGNAL_TIMESTAMP")
          [] entry # NoIndex /\ Risk(intent, price) <= 0 -> Reject(intent, "INVALID_STOP_LOSS")
          [] entry # NoIndex /\ Risk(intent, price) > 0 /\ Sign(intent) * (intent.target - price) <= 0 ->
               Reject(intent, "INVALID_TAKE_PROFIT")
          [] OTHER -> Hold(intent, rows, entry)

\* A run over a list of intents on the market of their symbol: one record each, in the order of the signals.
Ledger(intents, market) ==
  LET rows  == Prepared(market)
      order == SortSeq(intents, LAMBDA a, b : a.signal < b.signal \/ (a.signal = b.signal /\ a.id < b.id))
      copies(id) == Len(SelectSeq(intents, LAMBDA x : x.id = id))
  IN  Listed([k \in DOMAIN order |->
         IF copies(order[k].id) > 1 THEN Reject(order[k], "DUPLICATE_TRADE_INTENT_ID")
         ELSE Execute(order[k], rows)])

-------------------------------------------------------------------------------
(* Metrics. *)

\* The least common multiple of two denominators.
Common(m, n) == Min({k \in {m * i : i \in 1 .. n} : k % n = 0})
Over(x, n) == x[1] * (n \div x[2])
Plus(x, y) == LET n == Common(x[2], y[2]) IN <<Over(x, n) + Over(y, n), n>>
Less(x, y) == LET n == Common(x[2], y[2]) IN Over(x, n) < Over(y, n)
Total(values) == FoldLeft(Plus, <<0, 1>>, values)

Closed(ledger) == SelectSeq(ledger, LAMBDA x : x.status = "CLOSED")

\* The closed trades in the order of their exits.
EquityOrder(ledger) ==
  SortSeq(Closed(ledger), LAMBDA a, b : a.exitTime < b.exitTime
                                         \/ (a.exitTime = b.exitTime /\ a.id < b.id))

\* Largest fall of the accumulated R below its peak, the peak being at least 0.
Drawdown(trades) ==
  FoldLeft(LAMBDA run, x :
             LET equity == Plus(run.equity, x.netR)
                 peak   == IF Less(run.peak, equity) THEN equity ELSE run.peak
                 fall   == Plus(peak, <<-equity[1], equity[2]>>)
             IN  [equity |-> equity, peak |-> peak,
                  worst |-> IF Less(run.worst, fall) THEN fall ELSE run.worst],
           [equity |-> <<0, 1>>, peak |-> <<0, 1>>, worst |-> <<0, 1>>], trades).worst

SignOf(x) == IF x[1] > 0 THEN 1 ELSE IF x[1] < 0 THEN -1 ELSE 0

Streak(trades, wanted) ==
  FoldLeft(LAMBDA run, x :
             LET current == IF SignOf(x.netR) = wanted THEN run.current + 1 ELSE 0
             IN  [current |-> current, longest |-> Max({run.longest, current})],
           [current |-> 0, longest |-> 0], trades).longest

SummaryValues(trades) ==
  LET values == Listed([k \in DOMAIN trades |-> trades[k].netR])
      net(wanted) == SelectSeq(values, LAMBDA x : SignOf(x) = wanted)
  IN  [resolved |-> Len(trades), wins |-> Len(net(1)), losses |-> Len(net(-1)),
       breakeven |-> Len(net(0)),
       netR |-> Total(values),
       grossR |-> Total([k \in DOMAIN trades |-> trades[k].grossR]),
       profit |-> Total(net(1)), loss |-> Total(net(-1)),
       drawdown |-> Drawdown(trades),
       winning |-> Streak(trades, 1), losing |-> Streak(trades, -1),
       held |-> FoldLeft(LAMBDA sum, x : sum + x.held, 0, trades)]

Summarize(ledger) ==
  [total |-> Len(ledger),
   rejected |-> Len(SelectSeq(ledger, LAMBDA x : x.status = "REJECTED"))]
  @@ SummaryValues(EquityOrder(ledger))

\* The summaries of the years in which trades were closed.
YearlyBreakdown(ledger) ==
  LET year(x) == x.exitTime \div YearLength
      closed  == Closed(ledger)
  IN  [y \in {year(closed[k]) : k \in DOMAIN closed} |->
         SummaryValues(SelectSeq(closed, LAMBDA x : year(x) = y))]
===============================================================================
