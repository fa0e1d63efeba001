----------------------------- MODULE LevelHistory -----------------------------
(***************************************************************************)
(* Price levels projected from the body of a completed block, how the bars *)
(* after it meet them, and the research anchors that evidence them         *)
(* (price_geometry.py, geometry_lifecycle.py, level_interaction*.py,       *)
(* level_state_sequence.py, touch_*.py, research_anchor.py,                *)
(* future_outcome.py).                                                     *)
(***************************************************************************)
EXTENDS SessionClock, Ordering, Sequences, SequencesExt

CONSTANTS
  Block,         \* the frame whose blocks carry the levels
  Levels,        \* level id -> coordinate
  Checkpoints,   \* bars after which an untouched level is recorded
  Horizons       \* forward horizons, in bars

ASSUME LevelsAssumption ==
  /\ \A f \in DOMAIN Levels : Levels[f] \in Int
  /\ \A f, g \in DOMAIN Levels : Levels[f] = Levels[g] => f = g
  /\ Checkpoints \subseteq Nat \ {0}
  /\ Horizons \subseteq Nat \ {0} /\ Horizons # {} /\ IsFiniteSet(Horizons)
  /\ TilesDay(Block)

\* Coordinate 0 is the open of the block and coordinate -1 its close.
LevelPrice(candle, coordinate) == candle.o + coordinate * (candle.o - candle.c)

\* A level of a completed block, which may be used from the end of the block.
GeometryInstances(bars, decision) ==
  {[block |-> x.block, available |-> x.block.end, level |-> id,
    price |-> LevelPrice(x.candle, Levels[id])] :
     x \in CompletedBlocks(bars, decision, Block), id \in DOMAIN Levels}

\* What one bar did at a price.
Observe(t, bar, price) ==
  LET touched == bar.l <= price /\ price <= bar.h
      body    == Min({bar.o, bar.c}) <= price /\ price <= Max({bar.o, bar.c})
  IN  [open |-> t, close |-> bar.c, low |-> bar.l, high |-> bar.h,
       touched |-> touched, bodyTouched |-> body,
       wickOnly |-> touched /\ ~body,
       above |-> bar.h > price, below |-> bar.l < price]

\* Every completed bar since the level became available is required.
HistoryRaises(bars, instance, decision) ==
  \E t \in instance.available .. decision - 1 : t \notin DOMAIN bars

\* The observations, oldest first.
InteractionHistory(bars, instance, decision) ==
  [i \in 1 .. decision - instance.available |->
     LET t == instance.available + i - 1
     IN  Observe(t, bars[t], instance.price)]

RangeState(observation, price) == CASE observation.touched -> "TOUCH"
                                    [] observation.low > price -> "ABOVE"
                                    [] observation.high < price -> "BELOW"

States(history, price) == [i \in DOMAIN history |-> RangeState(history[i], price)]

\* Splits a run at every bar.
StateRunsMutant(states) ==
  [k \in DOMAIN states |-> [state |-> states[k], first |-> k, last |-> k]]

\* The maximal runs of equal states, in order.
StateRuns(states) ==
  LET starts == InOrder({i \in DOMAIN states : i = 1 \/ states[i] # states[i - 1]})
  IN  [k \in DOMAIN starts |->
        [state |-> states[starts[k]], first |-> starts[k],
         last |-> IF k < Len(starts) THEN starts[k + 1] - 1 ELSE Len(states)]]

\* The touched bar i extends the open episode when it follows its last bar.
JoinEpisode(done, i) ==
  IF done # <<>> /\ done[Len(done)].last = i - 1
    THEN [done EXCEPT ![Len(done)].last = i]
    ELSE Append(done, [first |-> i, last |-> i])

\* Touch episodes are grouped from the indices of the touched bars.
TouchEpisodes(history) ==
  LET touched == InOrder({i \in DOMAIN history : history[i].touched})
      grouped[n \in Nat] == IF n = 0 THEN <<>> ELSE JoinEpisode(grouped[n - 1], touched[n])
  IN  grouped[Len(touched)]

\* The touch runs with the states on either side of them.
TouchPatterns(runs) ==
  LET touches == InOrder({k \in DOMAIN runs : runs[k].state = "TOUCH"})
  IN  [n \in DOMAIN touches |->
        LET k == touches[n]
        IN  [index |-> n - 1, first |-> runs[k].first, last |-> runs[k].last,
             before |-> IF k = 1 THEN "START" ELSE runs[k - 1].state,
             after  |-> IF k = Len(runs) THEN "END" ELSE runs[k + 1].state]]

\* A sweep traded beyond the level before returning to the side it came from.
LevelTransition(pattern, history) ==
  LET touch == {history[i] : i \in pattern.first .. pattern.last}
  IN  [reclaim |-> IF pattern.before = "START" \/ pattern.after = "END"
                     THEN "none" ELSE pattern.after,
       sweep   |-> CASE /\ pattern.before = "BELOW" /\ pattern.after = "BELOW"
                        /\ \E o \in touch : o.above -> "ABOVE"
                     [] /\ pattern.before = "ABOVE" /\ pattern.after = "ABOVE"
                        /\ \E o \in touch : o.below -> "BELOW"
                     [] OTHER -> "none"]

NoTransition == [reclaim |-> "none", sweep |-> "none"]

\* Dates a transition at the close of the last touching bar.
TransitionAnchorsMutant(instance, history) ==
  LET patterns == TouchPatterns(StateRuns(States(history, instance.price)))
  IN  {[kind |-> "TOUCH_TRANSITION", instance |-> instance,
        evidence |-> history[p.last].open + 1, reference |-> history[p.last].close,
        index |-> p.index, code |-> <<p.before, p.after>>,
        semantics |-> LevelTransition(p, history)] :
          p \in {q \in Range(patterns) : q.after # "END"}}

\* A touch is evidence once the first bar of the next run has closed.
TransitionAnchors(instance, history) ==
  LET patterns == TouchPatterns(StateRuns(States(history, instance.price)))
  IN  {[kind |-> "TOUCH_TRANSITION", instance |-> instance,
        evidence |-> history[p.last + 1].open + 1,
        reference |-> history[p.last + 1].close,
        index |-> p.index, code |-> <<p.before, p.after>>,
        semantics |-> LevelTransition(p, history)] :
          p \in {q \in Range(patterns) : q.after # "END"}}

\* A level nothing touched for a checkpoint's number of bars.
CheckpointAnchors(instance, history) ==
  {[kind |-> "UNTOUCHED_CHECKPOINT", instance |-> instance,
    evidence |-> history[n].open + 1, reference |-> history[n].close,
    index |-> n, code |-> <<>>, semantics |-> NoTransition] :
      n \in {m \in Checkpoints : /\ m <= Len(history)
                                 /\ \A i \in 1 .. m : ~history[i].touched}}

Anchors(bars, decision) ==
  UNION {LET history == InteractionHistory(bars, x, decision)
         IN  TransitionAnchors(x, history) \union CheckpointAnchors(x, history)
         : x \in GeometryInstances(bars, decision)}

\* A horizon whose bars are not all there is an error.
OutcomeRaises(bars, anchor) ==
  \E i \in 0 .. Max(Horizons) - 1 : anchor.evidence + i \notin DOMAIN bars

\* Measures the change to the last bar there is.
ForwardOutcomeMutant(bars, anchor, horizon) ==
  [horizon |-> horizon, change |-> bars[Max(DOMAIN bars)].c - anchor.reference]

\* What the bars that open at or after the evidence did; ties go to the first.
ForwardOutcome(bars, anchor, horizon) ==
  LET window == anchor.evidence .. anchor.evidence + horizon - 1
      high   == Max({bars[t].h : t \in window})
      low    == Min({bars[t].l : t \in window})
  IN  [horizon |-> horizon, first |-> bars[anchor.evidence].o,
       change |-> bars[anchor.evidence + horizon - 1].c - anchor.reference,
       up |-> Max({0, high - anchor.reference}), down |-> Max({0, anchor.reference - low}),
       toHigh |-> Min({t \in window : bars[t].h = high}) - anchor.evidence,
       toLow  |-> Min({t \in window : bars[t].l = low}) - anchor.evidence]
===============================================================================
