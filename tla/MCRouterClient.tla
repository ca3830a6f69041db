--------------------------- MODULE MCRouterClient ---------------------------
(* Models the router lists, one of its provider it does not, and one whose   *)
(* name does not tell the provider.                                          *)
EXTENDS RouterClient, TLC

CONSTANTS c1, c2, c3, big, small, unlisted, alien

MCModels      == {big, small, unlisted, alien}
MCProviderOf  == big :> "p" @@ small :> "p" @@ unlisted :> "p" @@ alien :> "unknown"
MCRouterLimit == big :> 8 @@ small :> 2 @@ unlisted :> 0 @@ alien :> 6

\* One call of each kind, sharing the cache.
MCCalls     == {c1, c2, c3}
MCModelOf   == c1 :> big @@ c2 :> unlisted @@ c3 :> alien
MCMaxTokens == c1 :> 9 @@ c2 :> 3 @@ c3 :> 5

\* Two calls, for short counterexamples.
MCCalls2     == {c1, c2}
MCModelOf2   == [c \in MCCalls2 |-> MCModelOf[c]]
MCMaxTokens2 == [c \in MCCalls2 |-> MCMaxTokens[c]]
=============================================================================
