------------------------- MODULE ContextCacheProofs -------------------------
(***************************************************************************)
(* What the cache serves, for any callers, requests, patterns and          *)
(* lifetimes: results within their lifetime, retrieved for a request like  *)
(* the caller's.  An entry is filed under the key of the request it was    *)
(* retrieved for, in both tiers and whatever fails, and Redis holds none   *)
(* past its lifetime; the map may, and is looked at when it is read.       *)
(***************************************************************************)
EXTENDS ContextCache, TLAPS

-----------------------------------------------------------------------------
(* The inductive invariant *)

\* A call under way has asked for something.
Asking == \A c \in Callers : pc[c] # "idle" => asked[c] \in Requests

\* What a call has read from a tier is an entry of its own key.
Holding == \A c \in Callers : pc[c] \in {"check", "served"} =>
               got[c] \in Entries /\ KeyOf(got[c].req) = KeyFor(c)

\* An entry is filed under the key of the request it was retrieved for.
FiledIn(tier) == \A k \in Keys : tier[k] \in Entries => KeyOf(tier[k].req) = k

\* Redis holds nothing past its lifetime.
Live == \A k \in Keys : redis[k] \in Entries => now <= redis[k].stored + Lifetime

\* The inductive invariant: an entry is filed under the key of the request it answers,
\* and what a call holds was live when it was read.
CInv == TypeOK /\ Asking /\ Holding /\ FiledIn(redis) /\ FiledIn(memCache) /\ Live

\* No entry is nothing, or garbage.
LEMMA EntriesAreEntries ==
    /\ Nothing \notin Entries /\ Garbage \notin Entries /\ Nothing \notin Requests
    /\ Nothing # Garbage
  BY NothingAssumption

\* An entry lives for some number of ticks.
LEMMA LifetimeIsNat == Lifetime \in Nat
  BY TtlAssumption DEF Lifetime

\* Nothing is stored or asked for at first.
LEMMA InitCInv == Init => CInv
  BY EntriesAreEntries
     DEF Init, CInv, TypeOK, Asking, Holding, FiledIn, Live, Found

-----------------------------------------------------------------------------
(* The steps *)

\* A clock that goes on leaves nothing in Redis past its lifetime.
LEMMA TickCInv == CInv /\ Tick => CInv'
  <1> SUFFICES ASSUME CInv, Tick PROVE CInv'
    OBVIOUS
  <1> USE DEF CInv, Tick, callVars, invVars
  <1>1. TypeOK'
    BY DEF TypeOK, Found
  <1>2. Asking' /\ Holding' /\ FiledIn(memCache)'
    BY DEF Asking, Holding, FiledIn, KeyFor
  <1>3. FiledIn(redis)'
    BY EntriesAreEntries DEF FiledIn
  <1>4. Live'
    <2> SUFFICES ASSUME NEW k \in Keys, redis'[k] \in Entries
                 PROVE  now' <= redis'[k].stored + Lifetime
      BY DEF Live
    <2>1. redis'[k] = redis[k] /\ ~Expiring(redis[k])
      BY EntriesAreEntries
    <2>2. ~(now + 1 >= redis[k].stored + Lifetime) /\ redis[k].stored \in Nat
      BY <2>1 DEF Expiring, Entries
    <2>3. QED BY <2>1, <2>2, LifetimeIsNat DEF TypeOK
  <1>5. QED BY <1>1, <1>2, <1>3, <1>4

\* A question for a request.
LEMMA AskCInv ==
  ASSUME CInv, NEW c \in Callers, NEW q \in Requests, Ask(c, q)
  PROVE  CInv'
  <1> USE DEF CInv, Ask, Goto, invVars
  <1>1. pc' = [pc EXCEPT ![c] = pc'[c]] /\ pc'[c] \in {"retrieve", "memory", "redis"}
    BY DEF TypeOK
  <1>2. TypeOK'
    BY <1>1 DEF TypeOK
  <1>3. Asking' /\ Holding'
    BY <1>1 DEF TypeOK, Asking, Holding, KeyFor
  <1>4. FiledIn(redis)' /\ FiledIn(memCache)' /\ Live'
    BY DEF FiledIn, Live
  <1>5. QED BY <1>2, <1>3, <1>4

\* The answer to GET.
LEMMA GetRedisCInv ==
  ASSUME CInv, NEW c \in Callers, GetRedis(c)
  PROVE  CInv'
  <1> USE DEF CInv, GetRedis, Goto, invVars
  <1> DEFINE k == KeyFor(c)
  <1>1. asked[c] \in Requests /\ k \in Keys
    BY DEF Asking, KeyFor, Keys
  <1>2. TypeOK'
    BY <1>1 DEF TypeOK, Found, Readable
  <1>3. Asking'
    BY <1>1 DEF TypeOK, Asking
  <1>4. Holding'
    BY <1>1 DEF TypeOK, Holding, KeyFor, Readable, FiledIn
  <1>5. FiledIn(redis)' /\ FiledIn(memCache)' /\ Live'
    BY DEF FiledIn, Live
  <1>6. QED BY <1>2, <1>3, <1>4, <1>5

\* The steps that only take entries away, or look at the map.
LEMMA DiscardCInv ==
  ASSUME CInv, NEW c \in Callers, Discard(c)
  PROVE  CInv'
  <1> USE DEF CInv, Discard, Goto, invVars
  <1>1. asked[c] \in Requests /\ KeyFor(c) \in Keys
    BY DEF Asking, KeyFor, Keys
  <1>2. TypeOK'
    BY <1>1 DEF TypeOK, Found
  <1>3. Asking' /\ Holding'
    BY <1>1 DEF TypeOK, Asking, Holding, KeyFor
  <1>4. FiledIn(redis)' /\ FiledIn(memCache)' /\ Live'
    BY <1>1, EntriesAreEntries DEF TypeOK, FiledIn, Live
  <1>5. QED BY <1>2, <1>3, <1>4

\* The look into the local tier keeps the invariant.
LEMMA ReadMemoryCInv ==
  ASSUME CInv, NEW c \in Callers, ReadMemory(c)
  PROVE  CInv'
  <1> USE DEF CInv, ReadMemory, Goto, invVars
  <1>1. asked[c] \in Requests /\ KeyFor(c) \in Keys
    BY DEF Asking, KeyFor, Keys
  <1>2. TypeOK'
    BY <1>1 DEF TypeOK, Found
  <1>3. Asking'
    BY <1>1 DEF TypeOK, Asking
  <1>4. Holding'
    BY <1>1 DEF TypeOK, Holding, KeyFor, FiledIn, Found
  <1>5. FiledIn(redis)' /\ FiledIn(memCache)' /\ Live'
    BY DEF FiledIn, Live
  <1>6. QED BY <1>2, <1>3, <1>4, <1>5

\* So does the check of the entry that was read, which may delete it.
LEMMA CheckMemoryCInv ==
  ASSUME CInv, NEW c \in Callers, CheckMemory(c)
  PROVE  CInv'
  <1> USE DEF CInv, CheckMemory, Goto, invVars
  <1>1. asked[c] \in Requests /\ KeyFor(c) \in Keys
    BY DEF Asking, KeyFor, Keys
  <1>2. TypeOK'
    BY <1>1 DEF TypeOK, Found
  <1>3. Asking'
    BY <1>1 DEF TypeOK, Asking
  <1>4. Holding'
    BY <1>1 DEF TypeOK, Holding, KeyFor
  <1>5. FiledIn(redis)' /\ FiledIn(memCache)' /\ Live'
    BY <1>1, EntriesAreEntries DEF TypeOK, FiledIn, Live
  <1>6. QED BY <1>2, <1>3, <1>4, <1>5

\* An answer leaves the caller idle and the tiers as they are.
LEMMA AnswerCInv ==
  ASSUME CInv, NEW c \in Callers, Answer(c), UNCHANGED <<mode, now, redis, memCache, invVars>>
  PROVE  CInv'
  <1> USE DEF CInv, Answer, Goto, invVars
  <1>1. TypeOK'
    BY DEF TypeOK, Found
  <1>2. Asking' /\ Holding'
    BY DEF TypeOK, Asking, Holding, KeyFor
  <1>3. FiledIn(redis)' /\ FiledIn(memCache)' /\ Live'
    BY DEF FiledIn, Live
  <1>4. QED BY <1>1, <1>2, <1>3

\* So does a retrieval, which stores in both tiers.
LEMMA RetrieveCInv ==
  ASSUME CInv, NEW c \in Callers, Retrieve(c)
  PROVE  CInv'
  <1>1. CASE Answer(c)
    BY <1>1, AnswerCInv DEF Retrieve
  <1>2. CASE mode # "off" /\ Goto(c, "store") /\ UNCHANGED <<asked, got>>
    <2>1. TypeOK'
      BY <1>2 DEF CInv, TypeOK, Retrieve, Goto, invVars
    <2>2. Asking' /\ Holding'
      BY <1>2 DEF CInv, TypeOK, Asking, Holding, KeyFor, Retrieve, Goto
    <2>3. FiledIn(redis)' /\ FiledIn(memCache)' /\ Live'
      BY DEF CInv, FiledIn, Live, Retrieve
    <2>4. QED BY <2>1, <2>2, <2>3 DEF CInv
  <1>3. QED BY <1>1, <1>2 DEF Retrieve

\* What is stored is new, and filed under the key of its request.
LEMMA StoreCInv ==
  ASSUME CInv, NEW c \in Callers, Store(c)
  PROVE  CInv'
  <1> USE DEF CInv
  <1> DEFINE k == KeyFor(c)
             e == Fresh(c)
  <1>1. asked[c] \in Requests /\ k \in Keys
    BY DEF Asking, KeyFor, Keys, Store
  <1>2. e \in Entries /\ KeyOf(e.req) = k /\ e.stored = now
    BY <1>1 DEF Fresh, Entries, KeyFor, TypeOK
  <1>3. /\ redis' \in {redis, [redis EXCEPT ![k] = e]}
        /\ memCache' \in {memCache, [memCache EXCEPT ![k] = e]}
        /\ Answer(c) /\ UNCHANGED <<mode, now, invVars>>
    BY DEF Store
  <1> HIDE DEF k, e
  <1>4. TypeOK'
    BY <1>1, <1>2, <1>3 DEF TypeOK, Found, Answer, Goto, invVars
  <1>5. Asking' /\ Holding'
    BY <1>3 DEF TypeOK, Asking, Holding, KeyFor, Answer, Goto
  <1>6. FiledIn(redis)' /\ FiledIn(memCache)'
    BY <1>1, <1>2, <1>3 DEF TypeOK, FiledIn
  <1>7. Live'
    BY <1>1, <1>2, <1>3, LifetimeIsNat DEF TypeOK, Live
  <1>8. QED BY <1>4, <1>5, <1>6, <1>7

\* An invalidation only takes entries away.
LEMMA InvalidateCInv ==
  ASSUME CInv, NEW v \in Invalidators, InvalidateCache(v)
  PROVE  CInv'
  <1> USE DEF CInv
  <1>1. CASE \E p \in Patterns : BeginInvalidate(v, p)
    <2>1. TypeOK'
      BY <1>1 DEF TypeOK, BeginInvalidate, Stored, callVars
    <2>2. QED BY <1>1, <2>1 DEF Asking, Holding, KeyFor, FiledIn, Live, BeginInvalidate, callVars
  <1>2. CASE ScanBatch(v)
    <2>1. UNCHANGED <<mode, now, memCache, callVars, ipc, pattern, began>>
      BY <1>2 DEF ScanBatch
    <2>2. PICK batch : /\ unseen' = [unseen EXCEPT ![v] = @ \ batch]
                       /\ redis' \in {redis, [k \in Keys |-> IF k \in batch THEN Nothing ELSE redis[k]]}
                       /\ clean' \in {clean, [clean EXCEPT ![v] = FALSE]}
      BY <1>2 DEF ScanBatch
    <2>3. TypeOK'
      BY <2>1, <2>2 DEF TypeOK, Found, callVars
    <2>4. FiledIn(redis)' /\ Live'
      BY <2>1, <2>2, EntriesAreEntries DEF TypeOK, FiledIn, Live
    <2>5. QED BY <2>1, <2>3, <2>4 DEF Asking, Holding, KeyFor, FiledIn, callVars
  <1>3. CASE EndScan(v)
    <2>1. TypeOK'
      BY <1>3 DEF TypeOK, EndScan, callVars
    <2>2. QED BY <1>3, <2>1 DEF Asking, Holding, KeyFor, FiledIn, Live, EndScan, callVars
  <1>4. CASE ClearMemory(v)
    <2>1. TypeOK'
      BY <1>4 DEF TypeOK, Found, ClearMemory, callVars
    <2>2. FiledIn(memCache)'
      BY <1>4, EntriesAreEntries DEF TypeOK, FiledIn, ClearMemory
    <2>3. QED BY <1>4, <2>1, <2>2 DEF Asking, Holding, KeyFor, FiledIn, Live, ClearMemory, callVars
  <1>5. QED BY <1>1, <1>2, <1>3, <1>4 DEF InvalidateCache

\* Every step keeps what the cache holds true to its keys.
LEMMA NextCInv == CInv /\ [Next]_vars => CInv'
  <1> SUFFICES ASSUME CInv, [Next]_vars PROVE CInv'
    OBVIOUS
  <1>1. CASE UNCHANGED vars
    BY <1>1 DEF CInv, TypeOK, Asking, Holding, KeyFor, FiledIn, Live, vars, callVars, invVars
  <1>2. ASSUME NEW c \in Callers, Call(c) PROVE CInv'
    <2>1. CASE Return(c)
      BY <2>1, AnswerCInv DEF Return
    <2>2. QED
      BY <1>2, <2>1, AskCInv, GetRedisCInv, DiscardCInv, ReadMemoryCInv, CheckMemoryCInv,
         RetrieveCInv, StoreCInv DEF Call
  <1>3. ASSUME NEW v \in Invalidators, InvalidateCache(v) PROVE CInv'
    BY <1>3, InvalidateCInv
  <1>4. QED BY <1>1, <1>2, <1>3, TickCInv DEF Next

-----------------------------------------------------------------------------
(* Theorems *)

\* Both tiers, the callers and the invalidations keep their types.
THEOREM CacheTypes == Spec => []TypeOK
  <1>1. CInv => TypeOK
    BY DEF CInv
  <1>2. QED BY InitCInv, NextCInv, <1>1, PTL DEF Spec

\* Numbers that are equal to two places are less than ten thousandths apart.
LEMMA SamePlaces ==
  ASSUME NEW m \in Nat, NEW n \in Nat, TwoPlaces(m) = TwoPlaces(n)
  PROVE  m - n \in -9..9
  BY DEF TwoPlaces

\* Requests with one key are alike.
LEMMA SameKeyAlike ==
  ASSUME NEW q \in Requests, NEW r \in Requests, KeyOf(q) = KeyOf(r)
  PROVE  Alike(q, r)
  <1>1. q \in RequestType /\ r \in RequestType
    BY RequestsAssumption
  <1>2. /\ q.kind = r.kind /\ q.owner = r.owner /\ q.what = r.what
        /\ TwoPlaces(q.weight) = TwoPlaces(r.weight)
        /\ KeyOf(q).limit = KeyOf(r).limit
    BY DEF KeyOf
  <1>3. q.kind # "hybrid" => q.limit = r.limit
    BY <1>2 DEF KeyOf
  <1>4. q.weight - r.weight \in -9..9
    BY <1>1, <1>2, SamePlaces DEF RequestType
  <1>5. QED BY <1>2, <1>3, <1>4 DEF Alike

\* What a caller is served was retrieved for a request like its own.
THEOREM ServesAlike == Spec => []ServedAlike
  <1>1. CInv => ServedAlike
    <2> SUFFICES ASSUME CInv, NEW c \in Callers, pc[c] = "served"
                 PROVE  Alike(got[c].req, asked[c])
      BY DEF ServedAlike
    <2>1. asked[c] \in Requests /\ got[c].req \in Requests /\ KeyOf(got[c].req) = KeyOf(asked[c])
      BY DEF CInv, Asking, Holding, KeyFor, Entries
    <2>2. QED BY <2>1, SameKeyAlike
  <1>2. QED BY InitCInv, NextCInv, <1>1, PTL DEF Spec

\* A caller that is served now is served from Redis, or from the map after a look at
\* the entry's age.
LEMMA ServingStep ==
  ASSUME CInv, [Next]_vars, NEW c \in Callers, pc[c] # "served", pc'[c] = "served"
  PROVE  now <= got'[c].stored + Lifetime
  <1> USE DEF CInv
  <1>1. PICK d \in Callers : Call(d)
    BY DEF Next, Tick, InvalidateCache, BeginInvalidate, ScanBatch, EndScan, ClearMemory,
           vars, callVars
  <1>2. CASE GetRedis(d)
    <2>1. d = c /\ Readable(KeyFor(c)) /\ got'[c] = redis[KeyFor(c)]
      BY <1>2 DEF GetRedis, Goto, TypeOK
    <2>2. KeyFor(c) \in Keys
      BY <1>2, <2>1 DEF GetRedis, Asking, KeyFor, Keys
    <2>3. QED BY <2>1, <2>2 DEF Live, Readable
  <1>3. CASE CheckMemory(d)
    <2>1. d = c /\ ~Expired(got[c], now) /\ got' = got /\ got[c] \in Entries
      BY <1>3 DEF CheckMemory, Goto, TypeOK, Holding
    <2>2. QED BY <2>1, LifetimeIsNat DEF Expired, Entries, TypeOK
  <1>4. CASE \E q \in Requests : Ask(d, q)
    BY <1>4 DEF Ask, Goto, TypeOK
  <1>5. CASE Discard(d) \/ ReadMemory(d) \/ Retrieve(d) \/ Store(d) \/ Return(d)
    BY <1>5 DEF Discard, ReadMemory, Retrieve, Store, Return, Answer, Goto, TypeOK
  <1>6. QED BY <1>1, <1>2, <1>3, <1>4, <1>5 DEF Call

\* Nothing is served after its lifetime, from either tier.
THEOREM ServesWithinLifetime == Spec => WithinLifetime
  <1>1. CInv /\ [Next]_vars =>
          [\A c \in Callers : pc[c] # "served" /\ pc'[c] = "served" =>
              now <= got'[c].stored + Lifetime]_vars
    BY ServingStep
  <1>2. QED BY InitCInv, NextCInv, <1>1, PTL DEF Spec, WithinLifetime

-----------------------------------------------------------------------------
(* Invalidation *)

\* What an invalidation has dealt with holds nothing older than itself, for what is
\* stored later bears a later time.
Young(b, e) == e \in Entries => e.stored >= b

\* A key after a step: as it was, without an entry, or with a new one.
Renewed(old, new) == new \in {old, Nothing} \/ (new \in Entries /\ new.stored = now)

\* What invalidation v has gone past holds nothing stored before it.
Swept(v) ==
    /\ began[v] <= now
    /\ clean[v] => \A k \in Keys : Matches(pattern[v], k) =>
         /\ ipc[v] = "scan" /\ k \notin unseen[v] => Young(began[v], redis[k])
         /\ ipc[v] \in {"clear", "done"} => Young(began[v], redis[k])
         /\ ipc[v] = "done" => Young(began[v], memCache[k])

\* Without Redis nothing is stored there.
RedisUnused == mode # "redis" => \A k \in Keys : redis[k] \notin Entries

\* The inductive invariant of invalidation, with the cache without its second tier.
GInv == CInv /\ RedisUnused /\ \A v \in Invalidators : Swept(v)

\* No invalidation has happened at first.
LEMMA InitGInv == Init => GInv
  BY InitCInv, EntriesAreEntries DEF GInv, RedisUnused, Swept, Init

\* A step that leaves invalidations alone and stores nothing but new entries.
LEMMA OthersGInv ==
  ASSUME GInv, CInv', UNCHANGED invVars, mode' = mode, now' \in Nat, now' >= now,
         \A k \in Keys : /\ Renewed(redis[k], redis'[k])
                         /\ mode # "redis" => redis'[k] \in {redis[k], Nothing}
                         /\ Renewed(memCache[k], memCache'[k])
  PROVE  GInv'
  <1>1. RedisUnused'
    BY EntriesAreEntries DEF GInv, RedisUnused
  <1>2. ASSUME NEW v \in Invalidators PROVE Swept(v)'
    <2>1. began'[v] = began[v] /\ began[v] \in Nat /\ now \in Nat /\ began[v] <= now
      BY DEF GInv, CInv, TypeOK, Swept, invVars
    <2>2. \A k \in Keys : /\ Young(began[v], redis[k]) => Young(began[v], redis[k])'
                          /\ Young(began[v], memCache[k]) => Young(began[v], memCache[k])'
      BY <2>1, EntriesAreEntries DEF Young, Renewed
    <2>3. Swept(v) /\ UNCHANGED <<ipc, pattern, unseen, clean>>
      BY DEF GInv, invVars
    <2>4. QED BY <2>1, <2>2, <2>3 DEF Swept
  <1>3. QED BY <1>1, <1>2 DEF GInv

\* A call that starts leaves what invalidations swept as it is.
LEMMA CallGInv ==
  ASSUME GInv, CInv', NEW c \in Callers, Call(c)
  PROVE  GInv'
  <1>1. now \in Nat /\ redis \in [Keys -> Found \cup {Garbage}] /\ memCache \in [Keys -> Found]
    BY DEF GInv, CInv, TypeOK
  <1>2. CASE Store(c)
    <2>1. Fresh(c) \in Entries /\ Fresh(c).stored = now
      BY <1>1, <1>2 DEF GInv, CInv, Asking, Fresh, Entries, Store
    <2>2. /\ redis' \in {redis, [redis EXCEPT ![KeyFor(c)] = Fresh(c)]}
          /\ mode # "redis" => redis' = redis
          /\ memCache' \in {memCache, [memCache EXCEPT ![KeyFor(c)] = Fresh(c)]}
          /\ UNCHANGED <<mode, now, invVars>>
      BY <1>2 DEF Store
    <2>3. \A k \in Keys : /\ Renewed(redis[k], redis'[k])
                          /\ mode # "redis" => redis'[k] \in {redis[k], Nothing}
                          /\ Renewed(memCache[k], memCache'[k])
      BY <1>1, <2>1, <2>2 DEF Renewed
    <2>4. QED BY <1>1, <2>2, <2>3, OthersGInv DEF Renewed
  <1>3. CASE ~Store(c)
    <2>1. /\ UNCHANGED <<mode, now, invVars>>
          /\ redis' \in {redis, [redis EXCEPT ![KeyFor(c)] = Nothing]}
          /\ memCache' \in {memCache, [memCache EXCEPT ![KeyFor(c)] = Nothing]}
      BY <1>3 DEF Call, Ask, GetRedis, Discard, ReadMemory, CheckMemory, Retrieve, Return, Answer
    <2>2. \A k \in Keys : /\ redis'[k] \in {redis[k], Nothing}
                          /\ memCache'[k] \in {memCache[k], Nothing}
      BY <1>1, <2>1
    <2>3. QED BY <1>1, <2>1, <2>2, OthersGInv DEF Renewed
  <1>4. QED BY <1>2, <1>3

\* Time passes: an entry only gets older.
LEMMA TickGInv == GInv /\ CInv' /\ Tick => GInv'
  <1> SUFFICES ASSUME GInv, CInv', Tick PROVE GInv'
    OBVIOUS
  <1>1. now \in Nat /\ now' = now + 1
    BY DEF GInv, CInv, TypeOK, Tick
  <1>2. /\ \A k \in Keys : redis'[k] \in {redis[k], Nothing}
        /\ UNCHANGED <<mode, memCache, invVars>>
    BY DEF Tick
  <1>3. QED BY <1>1, <1>2, OthersGInv DEF Renewed

\* The invalidation itself: what is left to do shrinks, and what is done is empty.
LEMMA InvalidateGInv ==
  ASSUME GInv, CInv', NEW v \in Invalidators, InvalidateCache(v)
  PROVE  GInv'
  <1> USE EntriesAreEntries
  <1>1. /\ now \in Nat /\ redis \in [Keys -> Found \cup {Garbage}] /\ memCache \in [Keys -> Found]
        /\ ipc \in [Invalidators -> {"idle", "scan", "clear", "done"}]
        /\ pattern \in [Invalidators -> Patterns \cup {Nothing}]
        /\ began \in [Invalidators -> Nat] /\ unseen \in [Invalidators -> SUBSET Keys]
        /\ clean \in [Invalidators -> BOOLEAN]
    BY DEF GInv, CInv, TypeOK
  <1>2. /\ UNCHANGED <<mode, now>>
        /\ \A k \in Keys : /\ redis'[k] \in {redis[k], Nothing}
                           /\ memCache'[k] \in {memCache[k], Nothing}
        /\ \A w \in Invalidators \ {v} :
              /\ ipc'[w] = ipc[w] /\ pattern'[w] = pattern[w] /\ began'[w] = began[w]
              /\ unseen'[w] = unseen[w] /\ clean'[w] = clean[w]
    BY <1>1 DEF InvalidateCache, BeginInvalidate, ScanBatch, EndScan, ClearMemory
  <1>3. RedisUnused'
    BY <1>2 DEF GInv, RedisUnused
  <1>4. ASSUME NEW w \in Invalidators \ {v} PROVE Swept(w)'
    <2>1. \A k \in Keys : /\ Young(began[w], redis[k]) => Young(began[w], redis[k])'
                          /\ Young(began[w], memCache[k]) => Young(began[w], memCache[k])'
      BY <1>2, <1>4 DEF Young
    <2>2. QED BY <1>2, <1>4, <2>1 DEF GInv, Swept, Young
  <1>5. Swept(v)'
    <2>1. CASE \E p \in Patterns : BeginInvalidate(v, p)
      <3>1. /\ began'[v] = now /\ now' = now
            /\ ipc'[v] = IF mode = "redis" THEN "scan" ELSE "clear"
            /\ redis' = redis
        BY <1>1, <2>1 DEF BeginInvalidate
      <3>2. mode = "redis" => unseen'[v] = {k \in Keys : redis[k] # Nothing /\ Matches(pattern'[v], k)}
        BY <1>1, <2>1 DEF BeginInvalidate, Stored
      <3>3. QED BY <1>1, <3>1, <3>2 DEF GInv, RedisUnused, Swept, Young
    <2>2. CASE ScanBatch(v)
      <3>1. PICK batch \in SUBSET Keys :
              /\ unseen'[v] = unseen[v] \ batch
              /\ clean'[v] => clean[v] /\ redis' = [k \in Keys |-> IF k \in batch THEN Nothing ELSE redis[k]]
        BY <1>1, <2>2 DEF ScanBatch, Stored
      <3>2. ipc[v] = "scan" /\ ipc' = ipc /\ pattern' = pattern /\ began' = began /\ now' = now
        BY <2>2 DEF ScanBatch
      <3>3. QED BY <1>1, <3>1, <3>2 DEF GInv, Swept, Young
    <2>3. CASE EndScan(v)
      <3>1. /\ ipc[v] = "scan" /\ ipc'[v] = "clear"
            /\ clean'[v] => clean[v] /\ \A k \in unseen[v] : redis[k] = Nothing
            /\ UNCHANGED <<now, redis, pattern, began, unseen>>
        BY <1>1, <2>3 DEF EndScan, Stored
      <3>2. QED BY <1>1, <3>1 DEF GInv, Swept, Young
    <2>4. CASE ClearMemory(v)
      <3>1. /\ ipc[v] = "clear" /\ ipc'[v] = "done"
            /\ UNCHANGED <<now, redis, pattern, began, unseen, clean>>
            /\ \A k \in Keys : Matches(pattern[v], k) => memCache'[k] = Nothing
        BY <1>1, <2>4 DEF ClearMemory, Cleared
      <3>2. QED BY <1>1, <3>1 DEF GInv, Swept, Young
    <2>5. QED BY <2>1, <2>2, <2>3, <2>4 DEF InvalidateCache
  <1>6. QED BY <1>3, <1>4, <1>5 DEF GInv

\* Every step keeps what was invalidated gone.
LEMMA NextGInv == GInv /\ [Next]_vars => GInv'
  <1> SUFFICES ASSUME GInv, [Next]_vars PROVE GInv'
    OBVIOUS
  <1>1. CInv'
    BY NextCInv DEF GInv
  <1>2. CASE UNCHANGED vars
    BY <1>1, <1>2 DEF GInv, RedisUnused, Swept, Young, vars, invVars
  <1>3. QED BY <1>1, <1>2, CallGInv, TickGInv, InvalidateGInv DEF Next

\* An invalidation that met no error leaves nothing it matches that is older.
THEOREM InvalidationLasts == Spec => []InvalidatedStaysGone
  <1>1. GInv => InvalidatedStaysGone
    BY DEF GInv, Swept, Young, InvalidatedStaysGone, GoneSince
  <1>2. QED BY InitGInv, NextGInv, <1>1, PTL DEF Spec
=============================================================================
