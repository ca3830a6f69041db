------------------------- MODULE BudgetedSelection -------------------------
(***************************************************************************)
(* What a context builder promises: of its candidates it takes some, each  *)
(* once, never more tokens than there is room for, and it ends only when   *)
(* nothing that is left would fit the room that is left.  Without a limit  *)
(* it takes everything.                                                    *)
(***************************************************************************)
EXTENDS Naturals

CONSTANTS Chunks,
          TokensOf      \* [Chunks -> Nat]

VARIABLES stage,        \* "waiting", "choosing" or "closed"
          candidates,
          chosen,
          room

vars == <<stage, candidates, chosen, room>>

Init == /\ stage = "waiting"
        /\ candidates = {}
        /\ chosen = {}
        /\ room = 0

Open == /\ stage = "waiting"
        /\ candidates' \in SUBSET Chunks
        /\ \/ stage' = "choosing" /\ room' \in Nat \ {0} /\ chosen' = {}
           \/ stage' = "closed" /\ room' = 0 /\ chosen' = candidates'

Take(c) == /\ stage = "choosing"
           /\ c \in candidates \ chosen
           /\ TokensOf[c] <= room
           /\ chosen' = chosen \cup {c}
           /\ room' = room - TokensOf[c]
           /\ UNCHANGED <<stage, candidates>>

Close == /\ stage = "choosing"
         /\ room = 0 \/ \A c \in candidates \ chosen : TokensOf[c] > room
         /\ stage' = "closed"
         /\ UNCHANGED <<candidates, chosen, room>>

Next == Open \/ (\E c \in Chunks : Take(c)) \/ Close

Spec == Init /\ [][Next]_vars
=============================================================================
