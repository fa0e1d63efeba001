---------------------------- MODULE CandidateSearch ----------------------------
(***************************************************************************)
(* The autonomous search (autonomous_search.py) and its research memory     *)
(* (research_memory.py): the candidates a search space spans, those nobody  *)
(* has tried yet, and the results that are remembered of them.              *)
(*                                                                          *)
(* Searchers are processes that generate the candidates of a space, leave   *)
(* out those the memory has, and remember a result of each of the others.   *)
(* The memory is a database file that one process at a time can open, so    *)
(* each of its calls is atomic; between two calls others may work.          *)
(***************************************************************************)
EXTENDS Integers, FiniteSets, SequencesExt

CONSTANTS
  Spaces,      \* search spaces of one search id, experiment and partition
  Searchers,   \* processes
  Results,     \* what an evaluation may say of a candidate
  MaxResults, MaxRounds   \* bounds: results remembered, candidate lists drawn up

IsSequence(s) == s \in Seq(ToSet(s))

\* A space is a document of lists, valid or not.
ASSUME SearchAssumption ==
  \A space \in Spaces :
    /\ space.maximum \in Int /\ IsSequence(space.fields)
    /\ \A i \in DOMAIN space.fields :
         IsSequence(space.fields[i].values) /\ IsSequence(space.fields[i].operators)

VARIABLES
  memory,      \* candidate fingerprint -> result
  pending,     \* searcher -> the candidates it goes through
  rounds

searchVars == <<memory, pending, rounds>>

-------------------------------------------------------------------------------
(* Search spaces: a list of fields [field, kind, values, operators], the     *)
(* values of the three swing parameters and the most conditions to combine. *)

Comparisons == <<"<", "<=", ">", ">=">>

NumericOperators(field) == IF field.operators = <<>> THEN Comparisons ELSE field.operators

ValidField(field) ==
  /\ field.values # <<>> /\ IsInjective(field.values)
  /\ IF field.kind = "categorical" THEN field.operators = <<>>
     ELSE IsInjective(NumericOperators(field)) /\ ToSet(field.operators) \subseteq ToSet(Comparisons)

ValidSpace(space) ==
  /\ space.fields # <<>> /\ space.maximum > 0
  /\ \A i, j \in DOMAIN space.fields : space.fields[i].field = space.fields[j].field => i = j
  /\ \A i \in DOMAIN space.fields : ValidField(space.fields[i])
  /\ {space.lefts, space.rights, space.windows} \cap {<<>>} = {}
  /\ \A swing \in {space.lefts, space.rights, space.windows} :
       IsInjective(swing) /\ 0 \notin ToSet(swing)

Condition(field, operator, value) == [field |-> field, operator |-> operator, value |-> value]

\* The conditions of a space, in the order of its fields and their values.
AtomicConditions(space) ==
  LET equalities(f)  == [k \in DOMAIN f.values |-> Condition(f.field, "=", f.values[k])]
      thresholds(f)  == FlattenSeq([i \in DOMAIN NumericOperators(f) |->
                          [k \in DOMAIN f.values |->
                             Condition(f.field, NumericOperators(f)[i], f.values[k])]])
  IN  FlattenSeq([i \in DOMAIN space.fields |->
        IF space.fields[i].kind = "categorical" THEN equalities(space.fields[i])
        ELSE thresholds(space.fields[i])])

-------------------------------------------------------------------------------
(* Candidates. *)

FingerprintMutant(conditions, left, right, window) ==
  [conditions |-> conditions, left |-> left, right |-> right, window |-> window]

\* The fingerprint covers what a candidate means: its conditions are sorted,
\* so that neither their order nor that of the fields of a space matters.
Fingerprint(conditions, left, right, window) ==
  [conditions |-> SetToSeq(ToSet(conditions)), left |-> left, right |-> right, window |-> window]

\* Every combination of at most `maximum` conditions, listed in an order that
\* their places in the space decide, with every choice of the swing parameters.
GenerateCandidates(space) ==
  LET atoms == AtomicConditions(space)
      chosen(indices) == LET order == SetToSeq(indices)
                         IN  [k \in DOMAIN order |-> atoms[order[k]]]
  IN  {Fingerprint(chosen(indices), left, right, window) :
         indices \in {S \in SUBSET DOMAIN atoms : Cardinality(S) \in 1 .. space.maximum},
         left \in ToSet(space.lefts), right \in ToSet(space.rights), window \in ToSet(space.windows)}

FilterUnseen(candidates) == candidates \ DOMAIN memory

-------------------------------------------------------------------------------
(* The memory. *)

SearchInit ==
  /\ memory = <<>>
  /\ pending = [s \in Searchers |-> {}]
  /\ rounds = 0

DrawUp(s) ==
  /\ pending[s] = {} /\ rounds < MaxRounds
  /\ \E space \in Spaces :
       ValidSpace(space) /\ pending' = [pending EXCEPT ![s] = FilterUnseen(GenerateCandidates(space))]
  /\ rounds' = rounds + 1
  /\ UNCHANGED memory

\* A result of a candidate that has one is refused, or is the same and left.
RememberCandidate(s) ==
  \E candidate \in pending[s], result \in Results :
    /\ candidate \notin DOMAIN memory => Cardinality(DOMAIN memory) < MaxResults
    /\ memory' = [c \in DOMAIN memory \union {candidate} |->
                    IF c \in DOMAIN memory THEN memory[c] ELSE result]
    /\ pending' = [pending EXCEPT ![s] = @ \ {candidate}]
    /\ UNCHANGED rounds

\* A searcher that stops forgets its list.
StopSearch(s) ==
  /\ pending[s] # {}
  /\ pending' = [pending EXCEPT ![s] = {}]
  /\ UNCHANGED <<memory, rounds>>

SearchNext == \E s \in Searchers : DrawUp(s) \/ RememberCandidate(s) \/ StopSearch(s)

SearchSpec == SearchInit /\ [][SearchNext]_searchVars

-------------------------------------------------------------------------------
(* Properties *)

\* What a candidate tests: its conditions, in whatever order they are listed.
Meaning(candidate) ==
  [conditions |-> ToSet(candidate.conditions),
   swing |-> <<candidate.left, candidate.right, candidate.window>>]

Meanings(candidates) == {Meaning(candidate) : candidate \in candidates}

\* Everything a space asks about.
Spanned(space) ==
  {[conditions |-> C, swing |-> swing] :
     C \in {C \in SUBSET ToSet(AtomicConditions(space)) : Cardinality(C) \in 1 .. space.maximum},
     swing \in ToSet(space.lefts) \X ToSet(space.rights) \X ToSet(space.windows)}

\* Whatever other searchers remembered of whatever other spaces, a space is
\* gone through once: each question it asks is either still offered, by one
\* candidate, or answered, and the memory has one answer to a question, even
\* where two spaces list the fields in a different order
\* (candidate_fingerprint_payload, generate_candidates, filter_unseen_candidates).
SearchNeverRepeats ==
  rounds > 0 =>   \* there is something to say once a list was drawn up
  /\ \A c, d \in DOMAIN memory : Meaning(c) = Meaning(d) => c = d
  /\ \A space \in Spaces : ValidSpace(space) =>
       LET offered == FilterUnseen(GenerateCandidates(space))
           answered == Meanings(DOMAIN memory)
       IN  /\ Meanings(offered) \cap answered = {}
           /\ Spanned(space) = Meanings(offered) \cup (Spanned(space) \cap answered)
           /\ \A c, d \in offered : Meaning(c) = Meaning(d) => c = d
=============================================================================
