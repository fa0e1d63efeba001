------------------------------ MODULE Hypotheses ------------------------------
(***************************************************************************)
(* From a hypothesis to trade intents, along the three ways the system has: *)
(* compiled and evaluated row by row (compiled_strategy_execution.py),      *)
(* compiled and queried from a materialized view of the dataset             *)
(* (materialized_execution.py), and written by hand as a runner file        *)
(* (strategy_runner.py).  The dataset grows by one anchor at a time.        *)
(*                                                                          *)
(* A scalar is [type, v]; a condition is [field, op, values], with one      *)
(* value unless its operator is a membership; a rule is [id, conditions,    *)
(* side, stop, multiple], its conditions joined by AND.                     *)
(***************************************************************************)
EXTENDS BacktestEngine

CONSTANTS
  Kinds,      \* the packet: feature -> "NUMERIC" or "CATEGORICAL"
  Proposals,  \* rule lists a researcher may propose
  Samples,    \* [values, reference] an anchor may have
  Session,    \* the market the runner prices its entries on
  PipSize,
  MaxSamples  \* bound: anchors of a dataset

Ordered == {"GT", "GTE", "LT", "LTE"}
Memberships == {"IN", "NOT_IN"}

Scalar(type, v) == [type |-> type, v |-> v]
Null == Scalar("null", 0)

\* What the constructors of a proposal enforce: lists, and known operators.
ASSUME HypothesesAssumption ==
  /\ \A f \in DOMAIN Kinds : Kinds[f] \in {"NUMERIC", "CATEGORICAL"}
  /\ \A rules \in Proposals :
       /\ rules \in Seq(Range(rules))
       /\ \A k \in DOMAIN rules : \A i \in DOMAIN rules[k].conditions :
            LET c == rules[k].conditions[i]
            IN  c.op \in Ordered \cup Memberships \cup {"EQ", "NE"} /\ c.values \in Seq(Range(c.values))
  /\ DOMAIN Session \subseteq Int /\ IsFiniteSet(DOMAIN Session) /\ DOMAIN Session # {}
  /\ PipSize \in Nat \ {0} /\ MaxSamples \in Nat

VARIABLES proposal, dataset

hypothesisVars == <<proposal, dataset>>

-------------------------------------------------------------------------------
(* Proposals (ai_researcher.py, hypothesis_compiler.py). *)

Conditions(rules) == UNION {Range(rules[k].conditions) : k \in DOMAIN rules}

Parsed(rules) ==
  /\ rules # <<>>
  /\ \A j, k \in DOMAIN rules : rules[j].id = rules[k].id => j = k
  /\ \A k \in DOMAIN rules :
       rules[k].conditions # <<>> /\ rules[k].stop > 0 /\ rules[k].multiple > 0
  /\ \A c \in Conditions(rules) :
       /\ c.field \in DOMAIN Kinds
       /\ IF c.op \in Memberships THEN c.values # <<>> ELSE Len(c.values) = 1

HypothesisInit ==
  /\ proposal \in {rules \in Proposals : Parsed(rules)}
  /\ dataset = <<>>

\* The next anchor, whose evidence ends when a step of the session begins.
NextAnchor ==
  /\ Len(dataset) < MaxSamples
  /\ \E sample \in Samples :
       dataset' = Append(dataset, [values |-> sample.values, reference |-> sample.reference,
                                   end |-> Len(dataset) + 1])
  /\ UNCHANGED proposal

HypothesisSpec == HypothesisInit /\ [][NextAnchor]_hypothesisVars

-------------------------------------------------------------------------------
(* Conditions evaluated in memory. *)

Admissible(value, kind) == kind = "NUMERIC" => value.type \in {"null", "int", "float"}

CheckCondition(c) ==
  /\ \A i \in DOMAIN c.values : Admissible(c.values[i], Kinds[c.field])
  /\ c.op \in Ordered => Kinds[c.field] = "NUMERIC" /\ c.values[1] # Null

Compare(op, x, y) ==
  CASE op = "GT" -> x > y [] op = "GTE" -> x >= y [] op = "LT" -> x < y [] op = "LTE" -> x <= y

\* Categories are equal when they have the same type too.
SameValue(x, y, kind) ==
  IF kind = "NUMERIC" /\ Null \notin {x, y} THEN x.v = y.v ELSE x = y

Satisfied(c, values, kinds) ==
  LET left   == values[c.field]
      listed == \E i \in DOMAIN c.values : SameValue(left, c.values[i], kinds[c.field])
  IN  CASE c.op \in {"EQ", "IN"}     -> listed
        [] c.op \in {"NE", "NOT_IN"} -> ~listed
        [] c.op \in Ordered          -> left # Null /\ Compare(c.op, left.v, c.values[1].v)

Matches(rule, values, kinds) ==
  \A i \in DOMAIN rule.conditions : Satisfied(rule.conditions[i], values, kinds)

-------------------------------------------------------------------------------
(* Intents. *)

\* An intent of a rule at a price, with its stop and its target.
Placed(rule, row, at, signal, entry) ==
  LET risk == rule.stop * PipSize * (IF rule.side = "LONG" THEN 1 ELSE -1)
  IN  [id |-> <<row, rule.id>>, row |-> row, direction |-> rule.side, entry |-> entry,
       signal |-> signal, price |-> at, stop |-> at - risk,
       target |-> at + risk * rule.multiple, expires |-> NoIndex, quantity |-> 1]

Geometry(intent) == intent.price > 0 /\ intent.stop > 0 /\ intent.target > 0

NoIntents == [status |-> "REFUSED"]

\* A batch is validated as a whole: prices, the order of the rows, the ids.
IntentBatch(intents) ==
  IF /\ \A i \in DOMAIN intents : Geometry(intents[i])
     /\ \A i, j \in DOMAIN intents :
          i < j => intents[i].row <= intents[j].row /\ intents[i].id # intents[j].id
    THEN [status |-> "BUILT", intents |-> intents]
    ELSE NoIntents

Intent(rule, row, sample) ==
  Placed(rule, row, sample.reference, sample.end, "MARKET_CLOSE")

\* The intents of a list of matches, each a row and the place of a rule.
IntentsAt(found, rules, samples) ==
  Listed([i \in DOMAIN found |-> Intent(rules[found[i].rule], found[i].row, samples[found[i].row])])

\* Row by row, the rules that match it.
MatchesInTurn(rules, samples) ==
  FlattenSeq(Listed([row \in DOMAIN samples |->
    LET matched == InOrder({k \in DOMAIN rules : Matches(rules[k], samples[row].values, Kinds)})
    IN  [i \in DOMAIN matched |-> [row |-> row, rule |-> matched[i]]]]))

CompiledIntents(rules, samples) ==
  IF /\ \A c \in Conditions(rules) : CheckCondition(c)
     /\ \A row \in DOMAIN samples, f \in {c.field : c \in Conditions(rules)} :
          Admissible(samples[row].values[f], Kinds[f])
    THEN IntentBatch(IntentsAt(MatchesInTurn(rules, samples), rules, samples))
    ELSE NoIntents

-------------------------------------------------------------------------------
(* The materialized view and its queries. *)

\* Numbers become doubles; a category keeps its type in its encoding.
FieldValue(value, kind) ==
  IF kind = "NUMERIC" /\ value # Null THEN Scalar("double", value.v) ELSE value

MaterializeView(samples) ==
  IF \A row \in DOMAIN samples :
       /\ samples[row].reference > 0
       /\ \A f \in DOMAIN Kinds : Admissible(samples[row].values[f], Kinds[f])
    THEN [status |-> "WRITTEN",
          rows |-> Listed([row \in DOMAIN samples |->
            [samples[row] EXCEPT !.values = [f \in DOMAIN Kinds |-> FieldValue(@[f], Kinds[f])]]])]
    ELSE NoIntents

SqlConditionMutant(c, values) ==
  /\ c.op \in {"NE", "NOT_IN"} => values[c.field] # Null
  /\ Satisfied(c, values, Kinds)

\* Whether a WHERE clause keeps a row: a comparison with NULL is not true.
SqlCondition(c, values) ==
  LET column == values[c.field]
      code(x) == FieldValue(x, Kinds[c.field])
      equals(x)  == column # Null /\ column = code(x)
      differs(x) == column # Null /\ column # code(x)
      nonnull == {i \in DOMAIN c.values : c.values[i] # Null}
      containsNull == nonnull # DOMAIN c.values
      allDiffer == \A i \in nonnull : differs(c.values[i])
  IN  CASE c.op = "EQ" -> IF containsNull THEN column = Null ELSE equals(c.values[1])
        [] c.op = "NE" -> IF containsNull THEN column # Null
                          ELSE column = Null \/ differs(c.values[1])
        [] c.op = "IN" -> \/ containsNull /\ column = Null
                          \/ \E i \in nonnull : equals(c.values[i])
        [] c.op = "NOT_IN" -> IF nonnull = {} THEN column # Null
                              ELSE IF containsNull THEN column # Null /\ allDiffer
                              ELSE column = Null \/ allDiffer
        [] c.op \in Ordered -> column # Null /\ Compare(c.op, column.v, code(c.values[1]).v)

\* The rows one rule selects.
QueryRule(rule, rows) ==
  {row \in DOMAIN rows :
     \A i \in DOMAIN rule.conditions : SqlCondition(rule.conditions[i], rows[row].values)}

\* Matches as they are sorted: by row, then by rule.
Precedes(a, b) == a.row < b.row \/ (a.row = b.row /\ a.rule < b.rule)
InRowOrder(found) ==
  Listed([i \in 1 .. Cardinality(found) |->
    CHOOSE x \in found : Cardinality({y \in found : Precedes(y, x)}) = i - 1])

MaterializedIntents(rules, rows) ==
  LET found == UNION {{[row |-> row, rule |-> k] : row \in QueryRule(rules[k], rows)} : k \in DOMAIN rules}
  IN  IF \A c \in Conditions(rules) : CheckCondition(c)
        THEN IntentBatch(IntentsAt(InRowOrder(found), rules, rows))
        ELSE NoIntents

-------------------------------------------------------------------------------
(* The runner. *)

\* A runner file has equalities and orderings only; the operator, and not the
\* packet, tells what kind a field is of, and a file may not mix them.
RunnerKind(c) == IF c.op \in Ordered THEN "NUMERIC" ELSE "CATEGORICAL"

RunnerAccepts(rule) ==
  /\ IsInjective(rule.conditions)
  /\ \A c \in Range(rule.conditions) :
       /\ c.op \in Ordered \cup {"EQ"} /\ c.field \in DOMAIN Kinds
       /\ c.op \in Ordered => c.values[1].type \in {"int", "float"}
       /\ \A d \in Range(rule.conditions) : c.field = d.field => RunnerKind(c) = RunnerKind(d)

\* Stop and target are measured from the first open at or after the signal; a
\* signal after the last bar is passed over.
RunnerIntents(rule, samples, market) ==
  LET rows  == Prepared(market)
      kinds == [f \in {c.field : c \in Range(rule.conditions)} |->
                  RunnerKind(CHOOSE c \in Range(rule.conditions) : c.field = f)]
      next(row) == FirstFrom(rows, samples[row].end)
      chosen == InOrder({row \in DOMAIN samples :
                  Matches(rule, samples[row].values, kinds) /\ next(row) <= Len(rows)})
  IN  IntentBatch(Listed([k \in DOMAIN chosen |->
        Placed(rule, chosen[k], rows[next(chosen[k])].bar.o, samples[chosen[k]].end,
               "MARKET_NEXT_OPEN")]))

-------------------------------------------------------------------------------
(* Properties *)

RowsOf(batch) == {batch.intents[k].row : k \in DOMAIN batch.intents}

(* The three ways agree.  From a dataset the view can be written for, the    *)
(* query gives exactly the intents of the evaluation in memory, in the same  *)
(* order, NULLs and types included.  A runner file selects the rows its rule *)
(* would select as a hypothesis, when it takes every field for the kind the  *)
(* packet says and a bar follows; and the engine enters each of its intents  *)
(* at the very open that its stop and target were measured from.             *)
BuildersAgree ==
  LET view == MaterializeView(dataset)
      rows == Prepared(Session)
  IN  view # NoIntents =>
        /\ MaterializedIntents(proposal, view.rows) = CompiledIntents(proposal, dataset)
        /\ \A k \in DOMAIN proposal :
             LET rule     == proposal[k]
                 run      == RunnerIntents(rule, dataset, Session)
                 compiled == CompiledIntents(<<rule>>, dataset)
             IN  (/\ RunnerAccepts(rule)
                  /\ \A c \in Range(rule.conditions) : RunnerKind(c) = Kinds[c.field]
                  /\ NoIntents \notin {run, compiled})
                 => /\ RowsOf(run) = {row \in RowsOf(compiled) : dataset[row].end <= rows[Len(rows)].t}
                    /\ \A i \in DOMAIN run.intents :
                         LET intent == run.intents[i]
                         IN  EntryPrice(intent, rows[EntryIndex(intent, rows)]) = intent.price
===============================================================================
