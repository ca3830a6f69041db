------------------------- MODULE RouterClientProofs -------------------------
(***************************************************************************)
(* Theorems of module RouterClient, for any number of calls and models,    *)
(* any limits and any MaxRetries.  The inductive invariant adds to the     *)
(* properties that a call still trying has only seen failures it may       *)
(* retry.                                                                  *)
(***************************************************************************)
EXTENDS RouterClient, TLAPS

\* What holds of one call: its attempts, its last result and its body.
CallInv(c) == /\ BoundedCall(c)
              /\ CapRespected(c)
              /\ pc[c] # "done" => last[c] \in Retryable \cup {"none"}

\* The inductive invariant.
RInv == TypeOK /\ CacheAgrees /\ \A c \in Calls : CallInv(c)

\* A new call has sent and capped nothing.
LEMMA InitRInv == Init => RInv
  <1> SUFFICES ASSUME Init PROVE RInv
    OBVIOUS
  <1> USE ModelAssumption, LimitsAssumption, RetriesAssumption
  <1>1. TypeOK
    BY DEF Init, TypeOK, AtMap, Transport, Answers
  <1>2. CacheAgrees
    BY DEF Init, CacheAgrees
  <1>3. ASSUME NEW c \in Calls PROVE CallInv(c)
    BY DEF Init, CallInv, BoundedCall, CapRespected, Retryable
  <1>4. QED BY <1>1, <1>2, <1>3 DEF RInv

\* Capping with a limit that is the router's or the default leaves a safe cap.
LEMMA CapAtSafe ==
  ASSUME TypeOK, NEW c \in Calls, NEW limit \in {RouterLimit[ModelOf[c]], DefaultLimit},
         CapAt(c, limit)
  PROVE  /\ CapRespected(c)'
         /\ cap' \in [Calls -> Nat]
         /\ pc' = [pc EXCEPT ![c] = "trying"]
         /\ \A d \in Calls \ {c} : cap'[d] = cap[d]
  <1> USE ModelAssumption, LimitsAssumption DEF TypeOK
  <1>1. limit \in Nat /\ MaxTokens[c] \in Nat /\ RouterLimit[ModelOf[c]] \in Nat
    OBVIOUS
  <1>2. Capped(c, limit) \in Nat /\ Capped(c, limit) <= MaxTokens[c] /\ Capped(c, limit) <= limit
    BY <1>1 DEF Capped
  <1>3. cap' = [cap EXCEPT ![c] = Capped(c, limit)] /\ pc' = [pc EXCEPT ![c] = "trying"]
    BY DEF CapAt
  <1>4. cap'[c] = Capped(c, limit)
    BY <1>3
  <1>5. CapRespected(c)'
    BY <1>1, <1>2, <1>4 DEF CapRespected
  <1>6. QED BY <1>2, <1>3, <1>5

\* The steps that find the cap keep the invariant.
LEMMA CapSteps ==
  ASSUME RInv, NEW c \in Calls, Look(c) \/ Fetch(c) \/ Store(c) \/ Relook(c)
  PROVE  RInv'
  <1> USE ModelAssumption, LimitsAssumption, RetriesAssumption DEF RInv
  <1>1. /\ UNCHANGED <<alive, cancelled, attempt, body, wait, sent, last, result>>
        /\ pc[c] \notin {"trying", "done"}
    BY DEF Look, Fetch, Store, Relook, loopVars, CallInv
  <1>2. /\ pc' \in [Calls -> AtMap \cup {"fetching", "trying", "done"}]
        /\ pc'[c] # "done"
        /\ \A d \in Calls \ {c} : pc'[d] = pc[d]
    BY DEF Look, Fetch, Store, Relook, CapAt, TypeOK, AtMap
  <1>3. limits' \in [Models -> Nat] /\ CacheAgrees'
    <2>1. CASE Store(c)
      BY <2>1 DEF Store, Stored, TypeOK, CacheAgrees
    <2>2. CASE UNCHANGED limits
      BY <2>2 DEF TypeOK, CacheAgrees
    <2>3. QED BY <2>1, <2>2 DEF Look, Fetch, Relook
  <1>4. /\ cap' \in [Calls -> Nat]
        /\ CapRespected(c)'
        /\ \A d \in Calls \ {c} : cap'[d] = cap[d]
    <2>1. CASE UNCHANGED cap
      BY <2>1 DEF TypeOK, CallInv, CapRespected
    <2>2. CASE ~UNCHANGED cap
      <3>1. PICK limit \in {RouterLimit[ModelOf[c]], DefaultLimit} : CapAt(c, limit)
        BY <2>2 DEF Look, Fetch, Store, Relook, CacheAgrees
      <3>2. QED BY <1>1, <3>1, CapAtSafe
    <2>3. QED BY <2>1, <2>2
  <1>5. TypeOK'
    BY <1>1, <1>2, <1>3, <1>4 DEF TypeOK
  <1>6. ASSUME NEW d \in Calls PROVE CallInv(d)'
    <2>1. CASE d = c
      BY <1>1, <1>2, <1>4, <2>1 DEF CallInv, BoundedCall, TypeOK
    <2>2. CASE d # c
      BY <1>1, <1>2, <1>4, <2>2 DEF CallInv, BoundedCall, CapRespected
    <2>3. QED BY <2>1, <2>2
  <1>7. QED BY <1>3, <1>5, <1>6

\* What an attempt does to its own call and to nothing else.
LEMMA AttemptFrame ==
  ASSUME RInv, NEW c \in Calls, Attempt(c)
  PROVE  /\ TypeOK'
         /\ UNCHANGED <<alive, cancelled, limits, cap>>
         /\ pc[c] = "trying"
         /\ sent'[c] \in {sent[c], sent[c] + 1}
         /\ \/ /\ attempt[c] < MaxRetries
               /\ attempt'[c] = attempt[c] + 1 /\ wait'[c] = attempt[c] + 1
               /\ pc'[c] = pc[c] /\ last'[c] \in Retryable
            \/ attempt'[c] = attempt[c] /\ wait'[c] = wait[c] /\ pc'[c] = "done"
         /\ \A d \in Calls \ {c} :
              /\ pc'[d] = pc[d] /\ attempt'[d] = attempt[d] /\ wait'[d] = wait[d]
              /\ sent'[d] = sent[d] /\ last'[d] = last[d]
  <1> USE RetriesAssumption DEF RInv, TypeOK
  <1>1. PICK o \in Outcomes(c) :
          /\ last' = [last EXCEPT ![c] = o]
          /\ IF Leaves(o) THEN /\ sent' = [sent EXCEPT ![c] = Count(@)]
                               /\ body' = [body EXCEPT ![c] = "drained"]
                          ELSE UNCHANGED <<sent, body>>
          /\ IF o \in Retryable /\ RetryLeft(c) THEN TryAgain(c) ELSE Return(c, o)
    BY DEF Attempt
  <1>2. o \in Transport \cup Answers
    BY DEF Outcomes, Transport, Answers
  <1>3. UNCHANGED <<alive, cancelled, limits, cap>> /\ pc[c] = "trying"
    BY DEF Attempt, capVars
  <1>4. /\ sent[c] \in Nat
        /\ Count(sent[c]) \in {sent[c], sent[c] + 1}
    BY DEF Count
  <1>5. /\ sent' \in [Calls -> Nat] /\ sent'[c] \in {sent[c], sent[c] + 1}
        /\ body' \in [Calls -> {"full", "drained"}]
        /\ \A d \in Calls \ {c} : sent'[d] = sent[d]
    BY <1>1, <1>4
  <1>6. CASE o \in Retryable /\ RetryLeft(c)
    <2>1. /\ attempt[c] \in 0..MaxRetries /\ attempt[c] < MaxRetries
          /\ wait' = [wait EXCEPT ![c] = attempt[c] + 1]
          /\ attempt' = [attempt EXCEPT ![c] = attempt[c] + 1]
          /\ UNCHANGED <<result, pc>>
      BY <1>1, <1>6 DEF RetryLeft, TryAgain, Backoff, NextAttempt
    <2>2. QED BY <1>1, <1>2, <1>3, <1>5, <1>6, <2>1
  <1>7. CASE ~(o \in Retryable /\ RetryLeft(c))
    <2>1. /\ result' \in [Calls -> {"none", "ok", "error"}]
          /\ pc' = [pc EXCEPT ![c] = "done"]
          /\ UNCHANGED <<attempt, wait>>
      BY <1>1, <1>7 DEF Return
    <2>2. QED BY <1>1, <1>2, <1>3, <1>5, <2>1
  <1>8. QED BY <1>6, <1>7

\* An attempt keeps the invariant.
LEMMA AttemptSteps ==
  ASSUME RInv, NEW c \in Calls, Attempt(c)
  PROVE  RInv'
  <1> USE RetriesAssumption
  <1>1. TypeOK' /\ UNCHANGED <<alive, cancelled, limits, cap>>
    BY AttemptFrame
  <1>2. CacheAgrees'
    BY <1>1 DEF RInv, CacheAgrees
  <1>3. ASSUME NEW d \in Calls PROVE CallInv(d)'
    <2>1. CASE d = c
      <3>1. BoundedCall(c)'
        BY AttemptFrame DEF RInv, TypeOK, CallInv, BoundedCall
      <3>2. CapRespected(c)'
        BY <1>1 DEF RInv, CallInv, CapRespected
      <3>3. QED BY <2>1, <3>1, <3>2, AttemptFrame DEF CallInv
    <2>2. CASE d # c
      BY <1>1, <2>2, AttemptFrame DEF RInv, CallInv, BoundedCall, CapRespected
    <2>3. QED BY <2>1, <2>2
  <1>4. QED BY <1>1, <1>2, <1>3 DEF RInv

\* Every step keeps the invariant.
LEMMA NextRInv == RInv /\ [Next]_vars => RInv'
  <1> SUFFICES ASSUME RInv, [Next]_vars PROVE RInv'
    OBVIOUS
  <1>1. CASE UNCHANGED <<limits, pc, cap, loopVars>> /\ alive' \in BOOLEAN
                          /\ cancelled' \in [Calls -> BOOLEAN]
    BY <1>1 DEF loopVars, RInv, TypeOK, CacheAgrees, CallInv, BoundedCall, CapRespected
  <1>2. CASE UNCHANGED vars
    BY <1>1, <1>2 DEF vars, capVars, RInv, TypeOK
  <1>3. ASSUME NEW c \in Calls, SendRequest(c) PROVE RInv'
    BY <1>3, CapSteps, AttemptSteps DEF SendRequest
  <1>4. ASSUME NEW c \in Calls, Cancel(c) PROVE RInv'
    BY <1>1, <1>4 DEF Cancel, capVars, RInv, TypeOK
  <1>5. ASSUME NEW c \in Calls, NEW d \in Calls, MapRace(c, d) PROVE RInv'
    BY <1>1, <1>5 DEF MapRace, capVars, RInv, TypeOK
  <1>6. QED BY <1>2, <1>3, <1>4, <1>5 DEF Next

\* The client keeps its types.
THEOREM RouterTypes == Spec => []TypeOK
  <1>1. RInv => TypeOK
    BY DEF RInv
  <1>2. QED BY InitRInv, NextRInv, <1>1, PTL DEF Spec

\* A call sends at most MaxRetries + 1 requests and sleeps one second more
\* before each retry.
THEOREM FewRequests == Spec => []RouterSeesFewRequests
  <1>1. RInv => RouterSeesFewRequests
    BY DEF RInv, CallInv, RouterSeesFewRequests
  <1>2. QED BY InitRInv, NextRInv, <1>1, PTL DEF Spec

\* The shared cache only ever holds the router's limits, and no call asks for
\* more than its agent, nor than the larger of the limit and the default.
THEOREM SafeCaps == Spec => []CapsAreSafe
  <1>1. RInv => CapsAreSafe
    BY DEF RInv, CallInv, CapsAreSafe
  <1>2. QED BY InitRInv, NextRInv, <1>1, PTL DEF Spec

\* Nothing is sent again after an answer that is final, or once the client has
\* gone away.
THEOREM NoNeedlessResend == Spec => ResendsOnlyAfterFailure
  <1>1. ASSUME RInv, [Next]_vars, NEW c \in Calls, sent'[c] # sent[c]
        PROVE  ~cancelled[c] /\ last[c] \in Transport \cup {"none", "busy"}
    <2>1. Attempt(c)
      <3>1. PICK d \in Calls : Attempt(d)
        BY <1>1 DEF Next, vars, loopVars, SendRequest, Look, Fetch, Store, Relook, Cancel, MapRace
      <3>2. QED BY <1>1, <3>1, AttemptFrame
    <2>2. ~cancelled[c]
      BY <1>1, <2>1 DEF Attempt, Outcomes, Leaves
    <2>3. pc[c] = "trying"
      BY <2>1 DEF Attempt
    <2>4. QED BY <1>1, <2>2, <2>3 DEF RInv, CallInv, Retryable
  <1>2. RInv /\ [Next]_vars =>
          [\A c \in Calls : sent'[c] # sent[c] =>
             ~cancelled[c] /\ last[c] \in Transport \cup {"none", "busy"}]_vars
    BY <1>1
  <1>3. QED BY InitRInv, NextRInv, <1>2, PTL DEF Spec, ResendsOnlyAfterFailure
=============================================================================
