----------------------------- MODULE StrategyRuns -----------------------------
(***************************************************************************)
(* Strategies replayed, and their intents executed, on a market that grows *)
(* by one base step at a time (partition/service.py, sealed strategy       *)
(* execution; cli.py, backtest).  A step whose bar is missing is a gap.    *)
(***************************************************************************)
EXTENDS BacktestEngine, Strategies

CONSTANTS
  Opening,     \* the candles of the first steps
  TapeCandles, \* the candles a later bar may have
  Intents,     \* trade intents that come from a file
  MaxTape, MaxGaps   \* bounds: steps of the market, and how many lack a bar

VARIABLES tape,   \* opening instant -> candle
          now     \* the instant the next bar opens at

tapeVars == <<tape, now>>

TapeInit ==
  /\ tape = [t \in 0 .. Len(Opening) - 1 |-> Opening[t + 1]]
  /\ now = Len(Opening)

Bar ==
  /\ now < MaxTape
  /\ \E candle \in TapeCandles : tape' = tape @@ (now :> candle)
  /\ now' = now + 1

Gap ==
  /\ now < MaxTape /\ now - Cardinality(DOMAIN tape) < MaxGaps
  /\ now' = now + 1
  /\ UNCHANGED tape

TapeNext == Bar \/ Gap

TapeSpec == TapeInit /\ [][TapeNext]_tapeVars

\* The intents of a strategy's run, which carry the ids of their signals.
IntentsOf(strategy, bars) ==
  LET first  == CASE strategy = "S001" -> 100 [] strategy = "VERSION0" -> 200
                  [] strategy = "SYNTHETIC" -> 300
      emitted == Signals(strategy, bars)
  IN  Listed([k \in DOMAIN emitted |-> emitted[k] @@ [id |-> first + emitted[k].signal]])

-------------------------------------------------------------------------------
(* Properties *)

\* What the strategies signal on the market so far, and what an execution of
\* their intents and those of the file reports.
Report(bars) ==
  LET signals == [S001 |-> IntentsOf("S001", bars), VERSION0 |-> IntentsOf("VERSION0", bars),
                  SYNTHETIC |-> IntentsOf("SYNTHETIC", bars)]
      ledger  == Ledger(signals.S001 \o signals.VERSION0 \o signals.SYNTHETIC \o Intents, bars)
  IN  [signals |-> signals, equity |-> EquityOrder(ledger),
       summary |-> Summarize(ledger), years |-> YearlyBreakdown(ledger)]

(* A run knows nothing of later bars: when the market goes on, every signal *)
(* stays as it was, no closed trade changes or disappears, new trades join  *)
(* the equity curve at its end, and neither the drawdown nor a streak that  *)
(* was already reported becomes smaller (runtime.py, "history truncated at  *)
(* the cutoff"; engine.py; metrics.py).                                     *)
TradesNeverRevised ==
  [][tape' # tape =>
     LET before == Report(tape)
         after  == Report(tape')
     IN  /\ \A s \in Strategies : IsPrefix(before.signals[s], after.signals[s])
         /\ IsPrefix(before.equity, after.equity)
         /\ ~Less(after.summary.drawdown, before.summary.drawdown)
         /\ after.summary.winning >= before.summary.winning
         /\ after.summary.losing >= before.summary.losing
         /\ DOMAIN before.years \subseteq DOMAIN after.years]_tapeVars

(* Until the execution resolves the position of a signal, S001 emits        *)
(* nothing further (strategies/s001/README.md).  Nothing in the system      *)
(* calls notify_position_resolved, so a run signals in one decision.        *)
OneUnresolvedPosition ==
  [][Signals("S001", tape) # <<>> => Signals("S001", tape') = Signals("S001", tape)]_tapeVars
===============================================================================
