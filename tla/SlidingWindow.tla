--------------------------- MODULE SlidingWindow ---------------------------
(***************************************************************************)
(* What a conversation buffer promises: of the messages added since it was *)
(* last emptied or trimmed, it holds the longest run of recent ones that   *)
(* fits the limits, and nothing else.                                      *)
(***************************************************************************)
EXTENDS Naturals, Sequences, SequencesExt

CONSTANTS Messages,     \* messages that may be added
          Fits(_)       \* does this sequence of messages fit the limits?

VARIABLES history,      \* messages added, oldest first, but those given up
          window        \* messages the buffer holds, oldest first

vars == <<history, window>>

\* The longest suffix that fits.  The empty one always does.
LongestFitting(s) ==
    CHOOSE t \in Suffixes(s) : /\ Fits(t)
                               /\ \A u \in Suffixes(s) : Fits(u) => Len(u) <= Len(t)

Init == history = <<>> /\ window = <<>>

Add(m) == /\ history' = Append(history, m)
          /\ window' = LongestFitting(history')

\* The n oldest messages are given up for good.
Forget(n) == /\ history' = SubSeq(history, n + 1, Len(history))
             /\ window' = LongestFitting(history')

Next == \/ \E m \in Messages : Add(m)
        \/ \E n \in 1..Len(history) : Forget(n)

Spec == Init /\ [][Next]_vars
=============================================================================
