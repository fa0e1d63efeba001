------------------------------ MODULE MCControl ------------------------------
(* Instances of CandidateControl for TLC. *)
EXTENDS CandidateControl, TLC

Symmetry == Permutations(Sessions) \union Permutations(Specs)
=============================================================================
