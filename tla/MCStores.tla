------------------------------- MODULE MCStores -------------------------------
(***************************************************************************)
(* The stores of the system, its backtests, hypotheses and searches side by *)
(* side. They share no file and no row, so each behaviour works one of      *)
(* them, chosen at the start, and the state spaces add up.  (The questions  *)
(* are in the same database as the catalog, in tables of their own.)        *)
(***************************************************************************)
EXTENDS RawStore, TickArchive, FeedArchive, ExternalImport, RunStore, MCBacktest, Hypotheses,
  CandidateSearch, ResearchQuestions

VARIABLE store

NoneInvalid == {"bad"}

(* RawStore: a first history, one with its hole filled, one that disagrees. *)
QuotesOf == {(0 :> "a" @@ 2 :> "a"), (0 :> "a" @@ 1 :> "a" @@ 2 :> "a" @@ 3 :> "a"),
             (0 :> "a" @@ 1 :> "b" @@ 3 :> "bad")}

(* TickArchive: a body with a doubled tick, and a disordered one. *)
TickOf(ms) == [ms |-> ms, bid |-> 1, ask |-> 2]
PayloadsOf == {[stream |-> "ok", ticks |-> <<TickOf(0), TickOf(0)>>],
               [stream |-> "ok", ticks |-> <<TickOf(3), TickOf(2)>>]}

(* FeedArchive: the terminal may have lost the bar of minute 1. *)
HistoriesOf == {[t \in 0..4 |-> "a"], [t \in {0, 2, 3, 4} |-> "a"]}

(* ExternalImport: a clean file with a hole, one with a bad and a doubled row. *)
Row(t, v) == [t |-> t, v |-> v]
ContentsOf == {<<Row(0, "a"), Row(2, "a")>>,
               <<Row(1, "a"), Row(2, "bad"), Row(3, "a"), Row(3, "a")>>}

(* Hypotheses: every operator on a number and on a category, NULLs and types. *)
Whole(v) == Scalar("int", v)
Float(v) == Scalar("float", v)
Text(v) == Scalar("str", v)

Sample(n, c, reference) == [values |-> [n |-> n, c |-> c], reference |-> reference]
SamplesOf == {Sample(Null, Null, 5), Sample(Whole(1), Whole(1), 5), Sample(Float(1), Float(1), 6),
              Sample(Whole(2), Text(1), 5), Sample(Float(2), Null, 2)}

Where(field, op, values) == [field |-> field, op |-> op, values |-> values]
ConditionsOf ==
  {Where("n", op, <<v>>) : op \in {"EQ", "NE"}, v \in {Null, Whole(1)}}
  \cup {Where("c", op, <<v>>) : op \in {"EQ", "NE"}, v \in {Null, Whole(1), Text(1)}}
  \cup {Where("n", op, <<Float(1)>>) : op \in {"GT", "GTE", "LT", "LTE"}}
  \cup {Where(f, op, vs) : f \in {"n", "c"}, op \in {"IN", "NOT_IN"},
          vs \in {<<Null>>, <<Whole(1)>>, <<Null, Float(1)>>, <<>>}}
  \cup {Where("c", "GT", <<Whole(1)>>), Where("n", "EQ", <<Text(1)>>)}
Rule(id, conditions, side, multiple) ==
  [id |-> id, conditions |-> conditions, side |-> side, stop |-> 2, multiple |-> multiple]
ProposalsOf == {<<Rule(1, <<c>>, "LONG", 1), Rule(2, <<c, d>>, "SHORT", 2)>> :
                  c \in ConditionsOf, d \in {Where("n", "LTE", <<Whole(1)>>), Where("c", "NE", <<Text(1)>>)}}
KindsOf == [n |-> "NUMERIC", c |-> "CATEGORICAL"]
SessionOf == [t \in {0, 2} |-> Candle(5 + t, 9, 1, 5)]

(* CandidateSearch: two spaces that overlap and list the fields in another   *)
(* order, and one the search refuses.                                       *)
NumericField(values) == [field |-> "n", kind |-> "numeric", values |-> values, operators |-> <<"<">>]
CategoricalField == [field |-> "c", kind |-> "categorical", values |-> <<1>>, operators |-> <<>>]
Space(fields) == [fields |-> fields, lefts |-> <<1>>, rights |-> <<1>>, windows |-> <<1>>, maximum |-> 2]
SpacesOf == {Space(<<NumericField(<<1>>), CategoricalField>>),
             Space(<<CategoricalField, NumericField(<<1, 2>>)>>),
             Space(<<NumericField(<<1, 1>>), CategoricalField>>)}

(* ResearchQuestions: nothing asked yet; a closed question with an open child. *)
TreesOf == {[questions |-> <<>>, entries |-> 0],
            [questions |-> (1 :> Asked(NoParent, "t1", "OPEN") @@ 2 :> Asked(1, "t2", "CLOSED")
                            @@ 3 :> Asked(2, "t3", "OPEN")),
             entries |-> 4]}

storeVars == <<rawVars, tickVars, feedVars, importVars, runVars, tapeVars, hypothesisVars, searchVars, questionVars,
  store>>

Init ==
    /\ RawInit /\ TickInit /\ FeedInit /\ ImportInit /\ RunInit /\ TapeInit /\ HypothesisInit /\ SearchInit
    /\ QuestionInit
    /\ store \in {"raw", "ticks", "feed", "imports", "runs", "tape", "hypotheses", "search", "questions"}
    /\ store # "imports" => content = [s \in Sources |-> CHOOSE c \in SourceContents : TRUE]
    /\ store # "questions" => questions = <<>>
    /\ store # "hypotheses" => proposal = CHOOSE rules \in Proposals : Parsed(rules)

Next ==
    \/ store = "raw" /\ RawNext
         /\ UNCHANGED <<tickVars, feedVars, importVars, runVars, tapeVars, hypothesisVars, searchVars, questionVars, store>>
    \/ store = "ticks" /\ TickNext
         /\ UNCHANGED <<rawVars, feedVars, importVars, runVars, tapeVars, hypothesisVars, searchVars, questionVars, store>>
    \/ store = "feed" /\ FeedNext
         /\ UNCHANGED <<rawVars, tickVars, importVars, runVars, tapeVars, hypothesisVars, searchVars, questionVars, store>>
    \/ store = "imports" /\ ImportNext
         /\ UNCHANGED <<rawVars, tickVars, feedVars, runVars, tapeVars, hypothesisVars, searchVars, questionVars, store>>
    \/ store = "runs" /\ RunNext
         /\ UNCHANGED <<rawVars, tickVars, feedVars, importVars, tapeVars, hypothesisVars, searchVars, questionVars, store>>
    \/ store = "tape" /\ TapeNext
         /\ UNCHANGED <<rawVars, tickVars, feedVars, importVars, runVars, hypothesisVars, searchVars, questionVars, store>>
    \/ store = "hypotheses" /\ NextAnchor
         /\ UNCHANGED <<rawVars, tickVars, feedVars, importVars, runVars, tapeVars, searchVars, questionVars, store>>
    \/ store = "search" /\ SearchNext
         /\ UNCHANGED <<rawVars, tickVars, feedVars, importVars, runVars, tapeVars, hypothesisVars, questionVars, store>>
    \/ store = "questions" /\ QuestionNext
         /\ UNCHANGED <<rawVars, tickVars, feedVars, importVars, runVars, tapeVars, hypothesisVars, searchVars, store>>

Spec == Init /\ [][Next]_storeVars
=============================================================================
