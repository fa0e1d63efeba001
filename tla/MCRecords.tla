------------------------------- MODULE MCRecords -------------------------------
(* An instance of DiscoveryRecords for TLC: a day of four steps, in a zone  *)
(* whose clocks go forward by one, and one whose clocks go back.            *)
EXTENDS DiscoveryRecords

Spring == [change |-> 4, before |-> 0, after |-> 1]
Autumn == [change |-> 5, before |-> 1, after |-> 0]

FramesOf == [D1 |-> [zone |-> Spring, anchor |-> 0, size |-> 4],
             H2 |-> [zone |-> Spring, anchor |-> 0, size |-> 2],
             H1 |-> [zone |-> Autumn, anchor |-> 0, size |-> 1]]
BlockOf == [zone |-> Autumn, anchor |-> 0, size |-> 2]

\* One session inside the local day, one across its midnight.
SessionsOf == [EARLY |-> [zone |-> Spring, start |-> 1, startFold |-> 0,
                          end |-> 3, endFold |-> 0],
               NIGHT |-> [zone |-> Autumn, start |-> 3, startFold |-> 0,
                          end |-> 1, endFold |-> 0]]
RelationshipsOf == {[reference |-> "EARLY", observed |-> "NIGHT"]}

LevelsOf == [CLOSE |-> -1, NEG2 |-> -2]
ContextsOf == [H2 |-> 2]

CandlesOf == {[o |-> 2, h |-> 3, l |-> 1, c |-> 3],
              [o |-> 3, h |-> 4, l |-> 2, c |-> 2],
              [o |-> 4, h |-> 5, l |-> 4, c |-> 5]}
===============================================================================
