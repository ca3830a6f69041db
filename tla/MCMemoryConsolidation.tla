----------------------- MODULE MCMemoryConsolidation -----------------------
(* One caller, and messages of no, one and as many tokens as the buffer may  *)
(* hold: any of them fits alone, the last two not together, all three are    *)
(* one entry too many.                                                       *)
EXTENDS MemoryConsolidation, TLC

CONSTANTS c1, empty, small, full

MCMessages   == {empty, small, full}
MCTokenCount == empty :> 0 @@ small :> 1 @@ full :> 3
MCCallers    == {c1}
=============================================================================
