-------------------------- MODULE MCWorkingMemory --------------------------
(* Three documents of one chunk each, two to be loaded at most; retrievals  *)
(* that share a chunk, one of them too long for the memory.                 *)
EXTENDS WorkingMemory, TLC

CONSTANTS a, b, c, x, y, z, c1, c2

MCDocuments == {a, b, c}
MCChunks == {x, y, z}
MCDocumentOf == x :> a @@ y :> b @@ z :> c
MCTokensOf == x :> 1 @@ y :> 2 @@ z :> 1
MCContextLists == {<<x, y, z>>, <<z, x>>}
MCCallers == {c1, c2}
MCSymmetry == Permutations(MCCallers)
MCLongTermResults == {<<1, 2>>}
=============================================================================
