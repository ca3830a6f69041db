-------------------------- MODULE MCAgentCatalog --------------------------
(* One agent, executed, deleted, published, and edited by two requests      *)
(* that name different columns.                                              *)
EXTENDS AgentCatalog, TLC

CONSTANTS a1, r1, d1, e1, e2, k1

MCAgents     == {a1}
MCRequests   == {r1}
MCDeleters   == {d1}
MCTargetOf   == r1 :> a1
MCEditors    == {e1, e2}
MCCopiers    == {k1}
MCColumns    == {"name", "status"}
MCEditTarget == e1 :> a1 @@ e2 :> a1
MCEditOf     == e1 :> {"name"} @@ e2 :> {"status"}
=============================================================================
