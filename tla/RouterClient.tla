---------------------------- MODULE RouterClient ----------------------------
(***************************************************************************)
(* SendRequest, called by many handlers at once on one router client: the  *)
(* cap on max_tokens from the shared cache of model limits, then the loop  *)
(* of attempts over one *http.Request.                                     *)
(*                                                                         *)
(* The limits are kept in a plain Go map.  Two accesses at a time, one of  *)
(* them a write, are a data race, which the Go runtime may answer by       *)
(* ending the process.  A call is "looking", "storing" or "relooking"      *)
(* while it is at the map.                                                 *)
(*                                                                         *)
(* The body of the request is a buffer that is read once.  net/http brings *)
(* it back only for a request it moves off a connection it had reused      *)
(* before any byte was written.                                            *)
(***************************************************************************)
EXTENDS Naturals, FiniteSets

CONSTANTS Calls,          \* SendRequest calls
          Models,
          ModelOf,        \* [Calls -> Models]
          MaxTokens,      \* [Calls -> Nat], what the agent asks for if it does
          ProviderOf,     \* [Models -> provider by the model's name, or "unknown"]
          RouterLimit,    \* [Models -> Nat], the router's limit, 0 if it lists none
          DefaultLimit,   \* 4096 in the code
          MaxRetries

ASSUME ModelAssumption == ModelOf \in [Calls -> Models]
ASSUME LimitsAssumption == /\ MaxTokens \in [Calls -> Nat]
                           /\ RouterLimit \in [Models -> Nat]
                           /\ DefaultLimit \in Nat
ASSUME RetriesAssumption == MaxRetries \in Nat

VARIABLES alive,      \* the process runs
          limits,     \* [Models -> Nat], modelLimitsCache, 0 for no entry
          pc,         \* [Calls -> where the call stands]
          cap,        \* [Calls -> Nat], max_tokens of its request, 0 for none
          attempt,    \* [Calls -> Nat], the loop variable
          body,       \* [Calls -> "full" or "drained"]
          wait,       \* [Calls -> Nat], seconds of its last sleep, 0 before any
          sent,       \* [Calls -> Nat], its requests that left for the router,
                      \*   counted up to one more than there can be
          last,       \* [Calls -> how its last attempt ended]
          cancelled,  \* [Calls -> BOOLEAN], its client has gone away
          result      \* [Calls -> "none", "ok" or "error"]

capVars  == <<limits, cap>>
loopVars == <<attempt, body, wait, sent, last, result>>
vars     == <<alive, pc, cancelled, capVars, loopVars>>

AtMap == {"looking", "storing", "relooking"}

\* A call whose agent sets no max_tokens has nothing to look up.
Init == /\ alive = TRUE
        /\ limits = [m \in Models |-> 0]
        /\ pc \in [Calls -> {"looking", "trying"}]
        /\ cap = [c \in Calls |-> 0]
        /\ attempt = [c \in Calls |-> 0]
        /\ body = [c \in Calls |-> "full"]
        /\ wait = [c \in Calls |-> 0]
        /\ sent = [c \in Calls |-> 0]
        /\ last = [c \in Calls |-> "none"]
        /\ cancelled = [c \in Calls |-> FALSE]
        /\ result = [c \in Calls |-> "none"]

-----------------------------------------------------------------------------
(* capMaxTokensForModel *)

\* The request goes out with the smaller of what the agent asks for and the
\* limit.
Capped(c, limit) == IF MaxTokens[c] > limit THEN limit ELSE MaxTokens[c]

CapAt(c, limit) == /\ cap' = [cap EXCEPT ![c] = Capped(c, limit)]
                   /\ pc' = [pc EXCEPT ![c] = "trying"]

\* The cached limit, if there is one; otherwise ask the provider, if the name of
\* the model tells which.
Look(c) == LET m == ModelOf[c] IN
           /\ pc[c] = "looking"
           /\ \/ limits[m] # 0 /\ CapAt(c, limits[m])
              \/ limits[m] = 0 /\ ProviderOf[m] = "unknown" /\ CapAt(c, DefaultLimit)
              \/ /\ limits[m] = 0 /\ ProviderOf[m] # "unknown"
                 /\ pc' = [pc EXCEPT ![c] = "fetching"] /\ UNCHANGED cap
           /\ UNCHANGED <<alive, cancelled, limits, loopVars>>

\* GET of the provider: the default limit on any failure.
Fetch(c) == /\ pc[c] = "fetching"
            /\ \/ ~cancelled[c] /\ pc' = [pc EXCEPT ![c] = "storing"] /\ UNCHANGED cap
               \/ CapAt(c, DefaultLimit)
            /\ UNCHANGED <<alive, cancelled, limits, loopVars>>

\* What the provider lists is stored, for all its models (with a bug: the limit
\* of the model asked for is stored under each of them).
StoredForAll(c, m) == RouterLimit[ModelOf[c]]
Stored(c, m) == RouterLimit[m]

Store(c) == /\ pc[c] = "storing"
            /\ limits' = [m \in Models |->
                            IF ProviderOf[m] = ProviderOf[ModelOf[c]] /\ RouterLimit[m] > 0
                            THEN Stored(c, m) ELSE limits[m]]
            /\ pc' = [pc EXCEPT ![c] = "relooking"]
            /\ UNCHANGED <<alive, cancelled, cap, loopVars>>

Relook(c) == LET m == ModelOf[c] IN
             /\ pc[c] = "relooking"
             /\ CapAt(c, IF limits[m] # 0 THEN limits[m] ELSE DefaultLimit)
             /\ UNCHANGED <<alive, cancelled, limits, loopVars>>

\* The data race on the map, if the runtime notices it.
MapRace(c, d) == /\ c # d /\ pc[c] = "storing" /\ pc[d] \in AtMap
                 /\ alive' = FALSE
                 /\ UNCHANGED <<pc, cancelled, capVars, loopVars>>

-----------------------------------------------------------------------------
(* The loop of attempts *)

Transport == {"unsent", "no_body", "broken"}          \* Do returns an error
Answers   == {"ok", "busy", "refused"}                \* Do returns a response, 429 or
                                                      \* 5xx, or any other it cannot use

\* How an attempt can end.  With the client gone, Do returns before it sends.
\* On a new connection a drained body fails against its Content-Length, also
\* before anything is sent.
Outcomes(c) == IF cancelled[c] THEN {"unsent"}
               ELSE {"unsent", "broken"} \cup Answers
                    \cup (IF body[c] = "drained" THEN {"no_body"} ELSE {})

Leaves(o) == o \notin {"unsent", "no_body"}

\* What is tried again: any transport error, and 429 or 5xx (with a bug: every
\* other answer too).
AnyStatus == Transport \cup {"busy", "refused"}
Retryable == Transport \cup {"busy"}

\* Is there another attempt left?  (With a bug: one too many.)
OneMoreLeft(c) == attempt[c] <= MaxRetries
RetryLeft(c) == attempt[c] < MaxRetries

\* The next attempt (with a bug: the counter stands still), and the sleep before
\* it, in seconds.
SameAttempt(c) == attempt[c]
NextAttempt(c) == attempt[c] + 1
Backoff(c) == attempt[c] + 1

Return(c, o) == /\ result' = [result EXCEPT ![c] = IF o = "ok" THEN "ok" ELSE "error"]
                /\ pc' = [pc EXCEPT ![c] = "done"]
                /\ UNCHANGED <<attempt, wait>>

TryAgain(c) == /\ wait' = [wait EXCEPT ![c] = Backoff(c)]
               /\ attempt' = [attempt EXCEPT ![c] = NextAttempt(c)]
               /\ UNCHANGED <<result, pc>>

Count(n) == IF n > MaxRetries + 1 THEN n ELSE n + 1

Attempt(c) ==
    /\ pc[c] = "trying"
    /\ \E o \in Outcomes(c) :
         /\ last' = [last EXCEPT ![c] = o]
         /\ IF Leaves(o) THEN /\ sent' = [sent EXCEPT ![c] = Count(@)]
                              /\ body' = [body EXCEPT ![c] = "drained"]
                         ELSE UNCHANGED <<sent, body>>
         /\ IF o \in Retryable /\ RetryLeft(c) THEN TryAgain(c) ELSE Return(c, o)
    /\ UNCHANGED <<alive, cancelled, capVars>>

\* The client of the handler goes away.  The sleeps do not notice.
Cancel(c) == /\ pc[c] # "done" /\ ~cancelled[c]
             /\ cancelled' = [cancelled EXCEPT ![c] = TRUE]
             /\ UNCHANGED <<alive, pc, capVars, loopVars>>

-----------------------------------------------------------------------------
SendRequest(c) == Look(c) \/ Fetch(c) \/ Store(c) \/ Relook(c) \/ Attempt(c)

Next == /\ alive
        /\ \/ \E c \in Calls : SendRequest(c) \/ Cancel(c)
           \/ \E c, d \in Calls : MapRace(c, d)

Spec == Init /\ [][Next]_vars

\* Goroutines run, and Do returns: the HTTP client has a timeout.
FairSpec == Spec /\ \A c \in Calls : WF_vars(alive /\ SendRequest(c))

-----------------------------------------------------------------------------
(* Properties *)

\* Type invariant.
TypeOK == /\ alive \in BOOLEAN
          /\ limits \in [Models -> Nat]
          /\ pc \in [Calls -> AtMap \cup {"fetching", "trying", "done"}]
          /\ cap \in [Calls -> Nat]
          /\ attempt \in [Calls -> 0..MaxRetries]
          /\ body \in [Calls -> {"full", "drained"}]
          /\ wait \in [Calls -> Nat]
          /\ sent \in [Calls -> Nat]
          /\ last \in [Calls -> Transport \cup Answers \cup {"none"}]
          /\ cancelled \in [Calls -> BOOLEAN]
          /\ result \in [Calls -> {"none", "ok", "error"}]

\* The router sees at most MaxRetries + 1 requests of a call, however attempts,
\* consumed bodies and cancellations mix; and each retry sleeps as many seconds
\* as attempts were made.
BoundedCall(c) == /\ sent[c] <= attempt[c] + (IF pc[c] = "done" THEN 1 ELSE 0)
                  /\ sent[c] <= MaxRetries + 1
                  /\ wait[c] = attempt[c]

RouterSeesFewRequests == \A c \in Calls : BoundedCall(c)

\* A call that reached the map's limits or the router's never asks for more than
\* its agent does, nor for more than the model's limit unless that is unknown,
\* whichever of the concurrent calls filled the cache.
CapRespected(c) ==
    LET limit == RouterLimit[ModelOf[c]] IN
    /\ cap[c] <= MaxTokens[c]
    /\ cap[c] <= limit \/ cap[c] <= DefaultLimit

CacheAgrees == \A m \in Models : limits[m] \in {0, RouterLimit[m]}

CapsAreSafe == CacheAgrees /\ \A c \in Calls : CapRespected(c)

\* Requests leave again only after a failure that may be transient, and none
\* leaves once the client has gone away.
ResendsOnlyAfterFailure ==
    [][\A c \in Calls : sent'[c] # sent[c] =>
         ~cancelled[c] /\ last[c] \in Transport \cup {"none", "busy"}]_vars

\* Every call returns, in a process that lives.
EveryCallReturns == \A c \in Calls : <>(pc[c] = "done" \/ ~alive)

\* "Retry logic - Handles transient failures gracefully": no attempt is lost to
\* what an earlier one did to the request.
RetriesCanSucceed == \A c \in Calls : last[c] # "no_body"
=============================================================================
