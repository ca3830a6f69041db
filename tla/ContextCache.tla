---------------------------- MODULE ContextCache ----------------------------
(***************************************************************************)
(* The cache of retrieved contexts and the service that wraps retrieval    *)
(* with it.  Entries live in Redis if it answered when the process         *)
(* started, and in a map of the process if it did not, or whenever a call  *)
(* to it fails later.  Callers look up, retrieve on a miss, and store;     *)
(* others invalidate by pattern: a scan of Redis in batches, then the map. *)
(*                                                                         *)
(* A result is the request it was retrieved for and the time it was        *)
(* stored.  Every call to Redis may fail, and a failed SET may have been   *)
(* applied.                                                                *)
(***************************************************************************)
EXTENDS Integers

CONSTANTS Callers,       \* calls of the wrapper or of the cache itself
          Invalidators,  \* calls of InvalidateCache
          Requests,      \* what is asked for, see RequestType
          Patterns,      \* what is invalidated, see Matches
          Ttl,           \* the lifetime asked for, in ticks
          ConfigTtl,     \* RedisConfig.ContextCacheTTL
          DefaultTtl,    \* DefaultCacheTTL
          MaxTime,       \* bound on the clock
          Nothing,       \* no entry
          Garbage        \* data that is no result, left by another release

\* The fields of the three kinds of request: the tenant; the query, files and
\* notebooks; MinScore or the two weights, in thousandths; TopK, or Limit, Offset and
\* ChunkTypes; and of the fields that no digest has, DatasetID and AuthToken.
RequestType == [kind : {"vector", "chunks", "hybrid"}, owner : STRING, what : STRING,
                weight : Nat, limit : Nat, dataset : STRING, token : STRING]

ASSUME RequestsAssumption == Requests \subseteq RequestType

\* %.2f of a number of thousandths.
TwoPlaces(n) == (n + 5) \div 10

\* The digest of a request, whose hash is taken for injective (with a bug: without
\* the tenant).
KeyWithoutOwner(q) == [kind |-> q.kind, what |-> q.what, weight |-> TwoPlaces(q.weight)]
KeyOf(q) == [kind   |-> q.kind,
             owner  |-> q.owner,
             what   |-> q.what,
             weight |-> TwoPlaces(q.weight),
             limit  |-> IF q.kind = "hybrid" THEN 0 ELSE q.limit]

Keys    == {KeyOf(q) : q \in Requests}
Entries == [req : Requests, stored : Nat]

ASSUME TtlAssumption == Ttl \in Int /\ ConfigTtl \in Int /\ DefaultTtl \in Nat \ {0}
ASSUME TimeAssumption == MaxTime \in Nat
ASSUME NothingAssumption == /\ Nothing \notin Entries \cup Requests \cup {Garbage}
                            /\ Garbage \notin Entries

VARIABLES mode,      \* "off", "memory" or "redis", decided at start-up
          now,       \* the clock
          redis,     \* [Keys -> entry, Garbage or Nothing]
          memCache,  \* [Keys -> entry or Nothing]
          pc,        \* [Callers -> where the call stands]
          asked,     \* [Callers -> the request]
          got,       \* [Callers -> the entry it holds]
          ipc,       \* [Invalidators -> where the call stands]
          pattern,   \* [Invalidators -> the pattern]
          began,     \* [Invalidators -> the time it began]
          unseen,    \* [Invalidators -> keys its scan has yet to return]
          clean      \* [Invalidators -> BOOLEAN]: no call to Redis failed

callVars == <<pc, asked, got>>
invVars  == <<ipc, pattern, began, unseen, clean>>
vars     == <<mode, now, redis, memCache, callVars, invVars>>

Init == /\ mode \in {"off", "memory", "redis"}
        /\ now = 0
        /\ redis \in [Keys -> {Nothing, Garbage}]
        /\ memCache = [k \in Keys |-> Nothing]
        /\ pc = [c \in Callers |-> "idle"]
        /\ asked = [c \in Callers |-> Nothing]
        /\ got = [c \in Callers |-> Nothing]
        /\ ipc = [v \in Invalidators |-> "idle"]
        /\ pattern = [v \in Invalidators |-> Nothing]
        /\ began = [v \in Invalidators |-> 0]
        /\ unseen = [v \in Invalidators |-> {}]
        /\ clean = [v \in Invalidators |-> TRUE]

\* The lifetime of an entry.
Lifetime == IF Ttl > 0 THEN Ttl ELSE IF ConfigTtl > 0 THEN ConfigTtl ELSE DefaultTtl

\* The map's check of an entry (with a bug: none).
NeverExpired(e, at) == FALSE
Expired(e, at) == at > e.stored + Lifetime

\* Redis drops a key by itself when its lifetime is over.
Expiring(e) == e \in Entries /\ now + 1 >= e.stored + Lifetime

Tick == /\ now < MaxTime
        /\ now' = now + 1
        /\ redis' = [k \in Keys |-> IF Expiring(redis[k]) THEN Nothing ELSE redis[k]]
        /\ UNCHANGED <<mode, memCache, callVars, invVars>>

-----------------------------------------------------------------------------
(* GetCachedContext, the retrieval and SetCachedContext *)

KeyFor(c) == KeyOf(asked[c])

Goto(c, where) == pc' = [pc EXCEPT ![c] = where]

\* The answer is out; the caller may come back with another request.
Answer(c) == /\ Goto(c, "idle")
             /\ asked' = [asked EXCEPT ![c] = Nothing]
             /\ got' = [got EXCEPT ![c] = Nothing]

Ask(c, q) == /\ pc[c] = "idle"
             /\ asked' = [asked EXCEPT ![c] = q]
             /\ Goto(c, CASE mode = "off" -> "retrieve"
                          [] mode = "memory" -> "memory"
                          [] mode = "redis" -> "redis")
             /\ UNCHANGED <<mode, now, redis, memCache, got, invVars>>

\* A result can be read from the key.
Readable(k) == redis[k] \in Entries

\* GET: a result is served, data that is none deleted by a call of its own, and an
\* error leads to the map.
GetRedis(c) ==
    /\ pc[c] = "redis"
    /\ \/ /\ Readable(KeyFor(c))
          /\ got' = [got EXCEPT ![c] = redis[KeyFor(c)]]
          /\ Goto(c, "served")
       \/ redis[KeyFor(c)] = Garbage /\ Goto(c, "discard") /\ UNCHANGED got
       \/ redis[KeyFor(c)] = Nothing /\ Goto(c, "retrieve") /\ UNCHANGED got
       \/ Goto(c, "memory") /\ UNCHANGED got
    /\ UNCHANGED <<mode, now, redis, memCache, asked, invVars>>

\* DEL of the key, whatever it holds by now; an error is ignored.
Discard(c) == /\ pc[c] = "discard"
              /\ \/ redis' = [redis EXCEPT ![KeyFor(c)] = Nothing]
                 \/ UNCHANGED redis
              /\ Goto(c, "retrieve")
              /\ UNCHANGED <<mode, now, memCache, asked, got, invVars>>

\* getFromMemCache reads under a lock it gives up before it looks at the entry.
ReadMemory(c) ==
    /\ pc[c] = "memory"
    /\ got' = [got EXCEPT ![c] = memCache[KeyFor(c)]]
    /\ Goto(c, IF memCache[KeyFor(c)] = Nothing THEN "retrieve" ELSE "check")
    /\ UNCHANGED <<mode, now, redis, memCache, asked, invVars>>

CheckMemory(c) ==
    /\ pc[c] = "check"
    /\ IF Expired(got[c], now)
         THEN /\ memCache' = [memCache EXCEPT ![KeyFor(c)] = Nothing]
              /\ got' = [got EXCEPT ![c] = Nothing]
              /\ Goto(c, "retrieve")
         ELSE Goto(c, "served") /\ UNCHANGED <<memCache, got>>
    /\ UNCHANGED <<mode, now, redis, asked, invVars>>

\* The service behind the wrapper retrieves, or fails: then nothing is stored.
Retrieve(c) == /\ pc[c] = "retrieve"
               /\ \/ mode # "off" /\ Goto(c, "store") /\ UNCHANGED <<asked, got>>
                  \/ Answer(c)
               /\ UNCHANGED <<mode, now, redis, memCache, invVars>>

Fresh(c) == [req |-> asked[c], stored |-> now]

\* SET, or the map if that failed, which it may do after Redis has applied it.
Store(c) ==
    /\ pc[c] = "store"
    /\ \/ /\ mode = "redis"
          /\ redis' = [redis EXCEPT ![KeyFor(c)] = Fresh(c)]
          /\ UNCHANGED memCache
       \/ /\ memCache' = [memCache EXCEPT ![KeyFor(c)] = Fresh(c)]
          /\ \/ mode = "redis" /\ redis' = [redis EXCEPT ![KeyFor(c)] = Fresh(c)]
             \/ UNCHANGED redis
    /\ Answer(c)
    /\ UNCHANGED <<mode, now, invVars>>

Return(c) == /\ pc[c] = "served"
             /\ Answer(c)
             /\ UNCHANGED <<mode, now, redis, memCache, invVars>>

-----------------------------------------------------------------------------
(* InvalidateCache *)

\* A pattern is the prefix of all keys, one whole key, or an agent's id and a star.
\* Keys are digests: no id is a prefix of one.
Matches(p, k) == \/ p.form = "all"
                 \/ p.form = "key" /\ p.key = k

Stored(tier) == {k \in Keys : tier[k] # Nothing}

BeginInvalidate(v, p) ==
    /\ ipc[v] = "idle"
    /\ mode # "off"
    /\ pattern' = [pattern EXCEPT ![v] = p]
    /\ began' = [began EXCEPT ![v] = now]
    /\ unseen' = [unseen EXCEPT ![v] =
                    IF mode = "redis" THEN {k \in Stored(redis) : Matches(p, k)} ELSE {}]
    /\ ipc' = [ipc EXCEPT ![v] = IF mode = "redis" THEN "scan" ELSE "clear"]
    /\ UNCHANGED <<mode, now, redis, memCache, callVars, clean>>

\* A batch of the scan and its DEL, whose error is ignored.  Every key that was
\* there when the scan began is in some batch, a later one may be.
ScanBatch(v) ==
    /\ ipc[v] = "scan"
    /\ \E batch \in SUBSET {k \in Stored(redis) : Matches(pattern[v], k)} :
          /\ batch # {}
          /\ unseen' = [unseen EXCEPT ![v] = @ \ batch]
          /\ \/ /\ redis' = [k \in Keys |-> IF k \in batch THEN Nothing ELSE redis[k]]
                /\ UNCHANGED clean
             \/ clean' = [clean EXCEPT ![v] = FALSE] /\ UNCHANGED redis
    /\ UNCHANGED <<mode, now, memCache, callVars, ipc, pattern, began>>

\* The cursor is back at its start, or SCAN failed, which goes unnoticed.
EndScan(v) ==
    /\ ipc[v] = "scan"
    /\ \/ unseen[v] \cap Stored(redis) = {} /\ UNCHANGED clean
       \/ clean' = [clean EXCEPT ![v] = FALSE]
    /\ ipc' = [ipc EXCEPT ![v] = "clear"]
    /\ UNCHANGED <<mode, now, redis, memCache, callVars, pattern, began, unseen>>

\* The map is cleared whether Redis is used or not (with a bug: if it is not).
ClearIfUsed(p) == {k \in Keys : Matches(p, k) /\ mode = "memory"}
Cleared(p) == {k \in Keys : Matches(p, k)}

ClearMemory(v) ==
    /\ ipc[v] = "clear"
    /\ memCache' = [k \in Keys |-> IF k \in Cleared(pattern[v]) THEN Nothing ELSE memCache[k]]
    /\ ipc' = [ipc EXCEPT ![v] = "done"]
    /\ UNCHANGED <<mode, now, redis, callVars, pattern, began, unseen, clean>>

-----------------------------------------------------------------------------
Call(c) == \/ \E q \in Requests : Ask(c, q)
           \/ GetRedis(c) \/ Discard(c) \/ ReadMemory(c) \/ CheckMemory(c)
           \/ Retrieve(c) \/ Store(c) \/ Return(c)

InvalidateCache(v) == \/ \E p \in Patterns : BeginInvalidate(v, p)
                      \/ ScanBatch(v) \/ EndScan(v) \/ ClearMemory(v)

Next == \/ \E c \in Callers : Call(c)
        \/ \E v \in Invalidators : InvalidateCache(v)
        \/ Tick

Spec == Init /\ [][Next]_vars

-----------------------------------------------------------------------------
(* Properties *)

Found == Entries \cup {Nothing}

\* Type invariant.
TypeOK ==
    /\ mode \in {"off", "memory", "redis"}
    /\ now \in Nat
    /\ redis \in [Keys -> Found \cup {Garbage}]
    /\ memCache \in [Keys -> Found]
    /\ pc \in [Callers -> {"idle", "redis", "discard", "memory", "check",
                           "retrieve", "store", "served"}]
    /\ asked \in [Callers -> Requests \cup {Nothing}]
    /\ got \in [Callers -> Found]
    /\ ipc \in [Invalidators -> {"idle", "scan", "clear", "done"}]
    /\ pattern \in [Invalidators -> Patterns \cup {Nothing}]
    /\ began \in [Invalidators -> Nat]
    /\ unseen \in [Invalidators -> SUBSET Keys]
    /\ clean \in [Invalidators -> BOOLEAN]

\* Nothing is served later than its lifetime after it was stored, from whichever
\* tier: not from the map either, which nothing sweeps and which a recovered Redis
\* may hide for as long as it likes.
WithinLifetime ==
    [][\A c \in Callers : pc[c] # "served" /\ pc'[c] = "served" =>
          now <= got'[c].stored + Lifetime]_vars

\* Neither tier holds what was stored under k before time b.
GoneSince(b, k) == \A e \in {redis[k], memCache[k]} : e \in Entries => e.stored >= b

\* Once an invalidation that met no error is over, nothing it matches that was
\* stored before it began is left, in Redis or where an earlier failure of Redis
\* put it, to come back with the next failure.
InvalidatedStaysGone ==
    \A v \in Invalidators : ipc[v] = "done" /\ clean[v] =>
        \A k \in Keys : Matches(pattern[v], k) => GoneSince(began[v], k)

\* What a caller is served was retrieved for a request like its own, however requests
\* share a key and whoever filled the entry: of its kind, for its tenant, of the same
\* query and files, with weights or a score less than a hundredth apart, and unless it
\* is hybrid within the same limit.  Nothing is said of the dataset and the token.
Alike(q, r) == /\ q.kind = r.kind
               /\ q.owner = r.owner
               /\ q.what = r.what
               /\ q.weight - r.weight \in -9..9
               /\ q.kind # "hybrid" => q.limit = r.limit

ServedAlike == \A c \in Callers : pc[c] = "served" => Alike(got[c].req, asked[c])
=============================================================================
