------------------------- MODULE MCShortTermMemory -------------------------
(* Messages of no, small, medium and more tokens than the buffer may hold. *)
EXTENDS ShortTermMemory, TLC

CONSTANTS c1, c2, empty, small, medium, large, huge

MCMessages   == {empty, small, medium, large, huge}
MCTokenCount == empty :> 0 @@ small :> 1 @@ medium :> 2 @@ large :> 3 @@ huge :> 5

\* Four of them for the racing callers, two for a short counterexample.
MCMessages4   == MCMessages \ {huge}
MCTokenCount4 == [m \in MCMessages4 |-> MCTokenCount[m]]
MCMessages2   == {small, medium}
MCTokenCount2 == [m \in MCMessages2 |-> MCTokenCount[m]]

MCCallers  == {c1, c2}
MCCallers1 == {c1}
=============================================================================
