------------------------------ MODULE MCSealed ------------------------------
(* Instances of SealedPartitions for TLC. *)
EXTENDS SealedPartitions, TLC

\* A validation partition, a final partition and, in the runs that have a
\* third, a discovery partition, all cut from the one dataset D1.
CONSTANTS V1, F1, D1

RoleOf == [p \in Partitions |->
  CASE p = V1 -> "VALIDATION" [] p = F1 -> "FINAL_TEST" [] OTHER -> "DISCOVERY"]
SourceOf == [p \in Partitions |-> D1]

NoRequests == {}
SomeRequests == {<<"DISCOVERY", "ANALYSIS">>, <<"VALIDATION", "EVALUATION">>,
                 <<"VALIDATION", "ANALYSIS">>, <<"VALIDATION", "METADATA">>,
                 <<"SYSTEM_INTEGRITY", "INTEGRITY">>,
                 <<"SYSTEM_INTEGRITY", "ANALYSIS">>}

\* Bound: the catalog holds at most two candidates, of one lineage or of two.
TwoCandidates == Cardinality({c \in Candidates : Exists(c)}) <= 2

\* Sessions, specifications and lineages are interchangeable.
Symmetry == Permutations(Sessions) \union Permutations(Specs)
              \union Permutations(Lineages)
=============================================================================
