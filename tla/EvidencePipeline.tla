--------------------------- MODULE EvidencePipeline ---------------------------
(***************************************************************************)
(* What the partition service promises about sealed evidence, without      *)
(* sessions, statuses, claims, bindings, authorizations or ledgers: a      *)
(* partition is read at most once for a candidate, a verdict is given at   *)
(* most once and only on data that was read, and the final test of a       *)
(* specification follows a validation that this specification passed.      *)
(***************************************************************************)
CONSTANTS Candidates, Partitions, Specs

VARIABLES
  read,     \* <<candidate, partition>>: the sealed engine has read it
  passed,   \* <<candidate, partition, spec>>: validations that passed
  tested    \* <<candidate, partition, spec>>: final tests that were run

Init == read = {} /\ passed = {} /\ tested = {}

Read(c, p) ==
  /\ <<c, p>> \notin read
  /\ read' = read \union {<<c, p>>}
  /\ UNCHANGED <<passed, tested>>

Unjudged(c, p) == \A spec \in Specs : <<c, p, spec>> \notin passed \union tested

Pass(c, p, spec) ==
  /\ <<c, p>> \in read
  /\ Unjudged(c, p)
  /\ passed' = passed \union {<<c, p, spec>>}
  /\ UNCHANGED <<read, tested>>

Test(c, p, spec) ==
  /\ <<c, p>> \in read
  /\ Unjudged(c, p)
  /\ \E q \in Partitions : <<c, q, spec>> \in passed
  /\ tested' = tested \union {<<c, p, spec>>}
  /\ UNCHANGED <<read, passed>>

Next == \E c \in Candidates, p \in Partitions :
          \/ Read(c, p)
          \/ \E spec \in Specs : Pass(c, p, spec) \/ Test(c, p, spec)

Spec == Init /\ [][Next]_<<read, passed, tested>>
=============================================================================
