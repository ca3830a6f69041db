-------------------------------- MODULE Sums --------------------------------
(***************************************************************************)
(* The total weight of the elements of a sequence: of the messages of a    *)
(* buffer, the chunks of a context, the segments of a document.  And what  *)
(* a loop that keeps some of the elements leaves of it.                    *)
(***************************************************************************)
EXTENDS Integers, Sequences, SequencesExt

SumOf(s, weight) == FoldLeft(LAMBDA sum, x : sum + weight[x], 0, s)

\* The elements that are in T, in their order.
KeepIn(s, T) == FoldLeft(LAMBDA kept, x : IF x \in T THEN Append(kept, x) ELSE kept, <<>>, s)
=============================================================================
