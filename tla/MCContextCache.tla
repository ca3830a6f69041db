-------------------------- MODULE MCContextCache --------------------------
(* Requests that share a key and requests that do not.  Searches "old" and   *)
(* "new" differ in the dataset and in the third place of the score, hybrid   *)
(* requests in limit, token and the third place of the weights.              *)
EXTENDS ContextCache, TLC

CONSTANTS c1, c2

MCCallers == {c1, c2}
MCSymmetry == Permutations(MCCallers)

Search(tenant, score, data) ==
    [kind |-> "vector", owner |-> tenant, what |-> "query", weight |-> score,
     limit |-> 5, dataset |-> data, token |-> "none"]
Hybrid(n, w, t) ==
    [kind |-> "hybrid", owner |-> "a", what |-> "query", weight |-> w,
     limit |-> n, dataset |-> "none", token |-> t]

\* Four keys, two of them of two requests.
MCRequests == {Search("a", 700, "old"), Search("a", 704, "new"), Search("b", 700, "old"),
               [Search("a", 700, "old") EXCEPT !.limit = 6],
               Hybrid(1, 300, "first"), Hybrid(2, 304, "second")}
MCPatterns == {[form |-> "all"], [form |-> "key", key |-> KeyOf(Search("a", 700, "old"))]}

\* A behaviour that looks at time, invalidation or data of an older release has two
\* requests, one whose key alone may be invalidated and one of another tenant; one
\* with all requests has none of the three.
Tenants   == {Search("a", 700, "old"), Search("b", 700, "old")}
Others    == MCRequests \ Tenants
OtherKeys == Keys \ {KeyOf(q) : q \in Tenants}

NotOfOther(e) == e \in {Nothing, Garbage} \/ e.req \notin Others

OnlyTenants ==
    /\ \A c \in Callers : asked[c] \notin Others /\ NotOfOther(got[c])
    /\ \A k \in OtherKeys : redis[k] = Nothing /\ memCache[k] = Nothing
    /\ \A k \in Keys : NotOfOther(redis[k]) /\ NotOfOther(memCache[k])

MCBound == \/ OnlyTenants
           \/ /\ now = 0
              /\ \A v \in Invalidators : ipc[v] = "idle"
              /\ \A k \in Keys : redis[k] # Garbage
=============================================================================
