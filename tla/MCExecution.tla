---------------------------- MODULE MCExecution ----------------------------
(* Two agents, requests that share one of them and deleters that race them. *)
EXTENDS Execution, TLC

CONSTANTS a1, a2, r1, r2, d1, d2

MCAgents     == {a1, a2}
MCRequests   == {r1, r2}
MCDeleters   == {d1, d2}
MCTargetOf   == (r1 :> a1) @@ (r2 :> a1)

\* One deleter, where the state space would grow too large or one is enough.
MCDeleters1  == {d1}
=============================================================================
