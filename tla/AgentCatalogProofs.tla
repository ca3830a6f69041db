------------------------- MODULE AgentCatalogProofs -------------------------
(***************************************************************************)
(* Theorems of modules Execution and AgentCatalog, for any agents,         *)
(* requests, deletions, editors and copiers and for either form of the     *)
(* foreign key.                                                            *)
(*                                                                         *)
(* Of Execution: one lemma per handler says that its steps keep the        *)
(* inductive invariant; the theorems follow from them and from the action  *)
(* lemma about outcomes.  Of AgentCatalog: its steps are steps of          *)
(* Execution or leave its variables alone, so the same holds beside the    *)
(* catalogue.  That an answer is true rests on agents that never come      *)
(* back: an update that missed its row cannot find it again.               *)
(***************************************************************************)
EXTENDS AgentCatalog, TLAPS

-----------------------------------------------------------------------------
(* Execution *)

\* The inductive invariant of the execution rows.
IInv == TypeOK /\ NoOrphanRows /\ HandlerInv

\* The rows and the handlers start with nothing to disagree about.
LEMMA InitIInv == Init => IInv
  <1> SUFFICES ASSUME Init PROVE IInv
    OBVIOUS
  <1>1. TypeOK
    BY DEF Init, TypeOK, ExecutionStatus, InFlight, Deleting
  <1>2. NoOrphanRows
    BY DEF Init, NoOrphanRows, HasRow, ExecutionStatus
  <1>3. HandlerInv
    BY DEF Init, HandlerInv, HandlerInvOf, AnswerAgrees, HasReason
  <1>4. QED BY <1>1, <1>2, <1>3 DEF IInv

\* Steps of an ExecuteAgent handler keep the types.
LEMMA ExecuteTypeOK ==
  ASSUME TypeOK, NEW r \in Requests, ExecuteAgent(r)
  PROVE  TypeOK'
  <1> USE DEF TypeOK, delVars, InFlight
  <1>1. CASE GetAgent(r)
    BY <1>1 DEF GetAgent
  <1>2. CASE Reject(r)
    BY <1>2 DEF Reject, Finish
  <1>3. CASE AbortPrompt(r)
    BY <1>3 DEF AbortPrompt, Finish
  <1>4. CASE StartExecution(r)
    BY <1>4 DEF StartExecution, InitialStatus, ExecutionStatus, Referable
  <1>5. CASE SendRequest(r)
    BY <1>5 DEF SendRequest
  <1>6. CASE Settle(r)
    BY <1>6 DEF Settle, CompleteExecution, Finish, FinalStatus, Completable, ExecutionStatus
  <1>7. CASE Respond(r)
    BY <1>7 DEF Respond, Finish
  <1>8. QED BY <1>1, <1>2, <1>3, <1>4, <1>5, <1>6, <1>7 DEF ExecuteAgent

\* Cancellations, deletions and crashes keep the types.
LEMMA OthersTypeOK ==
  ASSUME TypeOK,
         \/ \E r \in Requests : CancelExecution(r)
         \/ \E d \in Deleters : DeleteAgent(d)
         \/ Crash
  PROVE  TypeOK'
  <1> USE DEF TypeOK
  <1>1. ASSUME NEW r \in Requests, CancelExecution(r) PROVE TypeOK'
    BY <1>1 DEF CancelExecution, reqVars, delVars, ExecutionStatus
  <1>2. ASSUME NEW d \in Deleters, NEW a \in Agents, CountAgent(d, a) PROVE TypeOK'
    BY <1>2 DEF CountAgent, EndDelete, reqVars, Deleting
  <1>3. ASSUME NEW d \in Deleters, DeleteExecutions(d) PROVE TypeOK'
    BY <1>3 DEF DeleteExecutions, EndDelete, Without, reqVars, Deleting
  <1>4. ASSUME NEW d \in Deleters, DeleteRow(d) PROVE TypeOK'
    BY <1>4 DEF DeleteRow, EndDelete, Without, reqVars, Deleting
  <1>5. CASE Crash
    BY <1>5 DEF Crash, InFlight, Deleting
  <1>6. QED BY <1>1, <1>2, <1>3, <1>4, <1>5 DEF DeleteAgent

\* A handler step leaves the rows and the handlers of other requests alone, and
\* no agent appears or goes.
LEMMA ExecuteFrame ==
  ASSUME TypeOK, NEW r \in Requests, ExecuteAgent(r)
  PROVE  /\ agents' = agents
         /\ \A q \in Requests \ {r} :
              /\ status'[q] = status[q]
              /\ pc'[q] = pc[q]
              /\ tracked'[q] = tracked[q]
              /\ outcome'[q] = outcome[q]
              /\ answer'[q] = answer[q]
              /\ lost'[q] = lost[q]
  <1> USE DEF TypeOK, delVars
  <1>1. CASE GetAgent(r)
    BY <1>1 DEF GetAgent
  <1>2. CASE Reject(r)
    BY <1>2 DEF Reject, Finish
  <1>3. CASE AbortPrompt(r)
    BY <1>3 DEF AbortPrompt, Finish
  <1>4. CASE StartExecution(r)
    BY <1>4 DEF StartExecution, InitialStatus, Referable
  <1>5. CASE SendRequest(r)
    BY <1>5 DEF SendRequest
  <1>6. CASE Settle(r)
    BY <1>6 DEF Settle, CompleteExecution, Finish, FinalStatus, Completable
  <1>7. CASE Respond(r)
    BY <1>7 DEF Respond, Finish
  <1>8. QED BY <1>1, <1>2, <1>3, <1>4, <1>5, <1>6, <1>7 DEF ExecuteAgent

\* A handler step keeps the invariant of its own request.
LEMMA ExecuteHandlerInv ==
  ASSUME TypeOK, NEW r \in Requests, HandlerInvOf(r), ExecuteAgent(r)
  PROVE  HandlerInvOf(r)'
  <1> USE DEF TypeOK, delVars, HandlerInvOf, AnswerAgrees, HasReason, ExecutionStatus
  <1>1. CASE GetAgent(r)
    BY <1>1 DEF GetAgent
  <1>2. CASE Reject(r)
    BY <1>2 DEF Reject, Finish
  <1>3. CASE AbortPrompt(r)
    BY <1>3 DEF AbortPrompt, Finish
  <1>4. CASE StartExecution(r)
    BY <1>4 DEF StartExecution, InitialStatus, Referable
  <1>5. CASE SendRequest(r)
    BY <1>5 DEF SendRequest
  <1>6. CASE Settle(r)
    <2>1. /\ tracked'[r] = tracked[r] /\ outcome'[r] = outcome[r]
          /\ outcome[r] \in {"ok", "error"}
      BY <1>6 DEF Settle
    <2>2. \/ outcome[r] = "ok" /\ pc'[r] = "remembering"
          \/ outcome[r] = "error" /\ pc'[r] = "done" /\ answer'[r] = "500"
      BY <1>6, <2>1 DEF Settle, Finish
    <2>3. CASE ~tracked[r]
      <3>1. status'[r] = status[r] /\ lost'[r] = lost[r]
        BY <1>6, <2>3 DEF Settle
      <3>2. QED BY <2>1, <2>2, <2>3, <3>1
    <2>4. CASE tracked[r] /\ outcome[r] = "ok"
      <3>1. status'[r] = status[r] /\ status[r] \in {"queued", "cancelled", "gone"}
        <4>1. ~Accepted(r)
          BY <2>4 DEF Accepted, SetClause, OutputColumns, TableColumns
        <4>2. QED BY <1>6, <2>4, <4>1 DEF Settle, CompleteExecution
      <3>2. QED BY <2>1, <2>2, <2>4, <3>1
    <2>5. CASE tracked[r] /\ outcome[r] = "error"
      <3>1. /\ Accepted(r)
            /\ status[r] \in {"queued", "cancelled", "gone"}
        BY <1>6, <2>5 DEF Settle, Accepted, SetClause, TableColumns
      <3>2. \/ status'[r] \in {"failed", "gone"}
            \/ lost'[r] /\ status'[r] = status[r]
        BY <1>6, <2>5, <3>1 DEF Settle, CompleteExecution, Completable, FinalStatus
      <3>3. QED BY <2>1, <2>2, <2>5, <3>1, <3>2
    <2>6. QED BY <2>1, <2>3, <2>4, <2>5
  <1>7. CASE Respond(r)
    BY <1>7 DEF Respond, Finish
  <1>8. QED BY <1>1, <1>2, <1>3, <1>4, <1>5, <1>6, <1>7 DEF ExecuteAgent

\* A handler step brings no orphan: it inserts its row only under its agent.
LEMMA ExecuteNoOrphanRows ==
  ASSUME TypeOK, NoOrphanRows, NEW r \in Requests, ExecuteAgent(r)
  PROVE  NoOrphanRows'
  <1> USE DEF TypeOK, NoOrphanRows, HasRow, delVars
  <1>1. /\ agents' = agents
        /\ \A q \in Requests \ {r} : status'[q] = status[q]
    BY ExecuteFrame
  <1>2. ASSUME HasRow(r)' PROVE TargetOf[r] \in agents
    <2>1. CASE StartExecution(r)
      BY <1>2, <2>1 DEF StartExecution, Referable
    <2>2. CASE Settle(r)
      BY <1>2, <2>2 DEF Settle, CompleteExecution, Completable
    <2>3. CASE UNCHANGED status
      BY <1>2, <2>3
    <2>4. QED
      BY <2>1, <2>2, <2>3 DEF ExecuteAgent, GetAgent, Reject, AbortPrompt, SendRequest, Respond
  <1>3. QED BY <1>1, <1>2

\* A handler step keeps the whole invariant.
LEMMA ExecuteIInv ==
  ASSUME IInv, NEW r \in Requests, ExecuteAgent(r)
  PROVE  IInv'
  <1>1. TypeOK'
    BY ExecuteTypeOK DEF IInv
  <1>2. NoOrphanRows'
    BY ExecuteNoOrphanRows DEF IInv
  <1>3. ASSUME NEW q \in Requests PROVE HandlerInvOf(q)'
    <2>1. CASE q = r
      BY <2>1, ExecuteHandlerInv DEF IInv, HandlerInv
    <2>2. CASE q # r
      BY <2>2, ExecuteFrame DEF IInv, HandlerInv, HandlerInvOf, AnswerAgrees, HasReason
    <2>3. QED BY <2>1, <2>2
  <1>4. QED BY <1>1, <1>2, <1>3 DEF IInv, HandlerInv

\* Cancelling touches one pending row and no handler.
LEMMA CancelIInv ==
  ASSUME IInv, NEW r \in Requests, CancelExecution(r)
  PROVE  IInv'
  <1> USE DEF IInv, CancelExecution, reqVars, delVars
  <1>1. TypeOK'
    BY OthersTypeOK
  <1>2. NoOrphanRows'
    BY DEF NoOrphanRows, HasRow, TypeOK, Cancellable, ExecutionStatus
  <1>3. ASSUME NEW q \in Requests PROVE HandlerInvOf(q)'
    BY DEF HandlerInv, HandlerInvOf, AnswerAgrees, HasReason, TypeOK, Cancellable
  <1>4. QED BY <1>1, <1>2, <1>3 DEF HandlerInv

\* What a step of DeleteAgent can do to the rows: some go, the others stay.
LEMMA DeleteFrame ==
  ASSUME TypeOK, NEW d \in Deleters, DeleteAgent(d)
  PROVE  /\ UNCHANGED reqVars
         /\ \A q \in Requests : \/ status'[q] = status[q]
                                \/ HasRow(q) /\ status'[q] = "gone"
  <1>1. ASSUME NEW a \in Agents, CountAgent(d, a)
        PROVE  UNCHANGED <<status, reqVars>>
    BY <1>1 DEF CountAgent
  <1>2. CASE DeleteExecutions(d)
    BY <1>2 DEF DeleteExecutions, Without, RowsOf, TypeOK
  <1>3. CASE DeleteRow(d)
    BY <1>3 DEF DeleteRow, Without, CascadeTo, RowsOf, TypeOK
  <1>4. QED BY <1>1, <1>2, <1>3 DEF DeleteAgent

\* Deleting removes an agent only with all its rows.
LEMMA DeleteNoOrphanRows ==
  ASSUME TypeOK, NoOrphanRows, NEW d \in Deleters, DeleteAgent(d)
  PROVE  NoOrphanRows'
  <1> USE DEF NoOrphanRows, HasRow
  <1>1. CASE UNCHANGED agents
    BY <1>1, DeleteFrame DEF ExecutionStatus
  <1>2. CASE ~UNCHANGED agents
    <2>1. /\ DeleteRow(d) /\ ~Restricted(victim[d])
          /\ agents' = agents \ {victim[d]}
          /\ status' = Without(CascadeTo(victim[d]))
      BY <1>2 DEF DeleteAgent, CountAgent, DeleteExecutions, DeleteRow
    <2>2. \A q \in RowsOf(victim[d]) : status'[q] = "gone"
      BY <2>1 DEF Restricted, Without, RowsOf
    <2>3. ASSUME NEW q \in Requests, HasRow(q)' PROVE TargetOf[q] \in agents'
      <3>1. HasRow(q) /\ q \notin RowsOf(victim[d])
        BY <2>2, <2>3, DeleteFrame DEF ExecutionStatus
      <3>2. QED BY <2>1, <3>1 DEF RowsOf
    <2>4. QED BY <2>3
  <1>3. QED BY <1>1, <1>2

\* A step of DeleteAgent keeps the whole invariant.
LEMMA DeleteIInv ==
  ASSUME IInv, NEW d \in Deleters, DeleteAgent(d)
  PROVE  IInv'
  <1>1. TypeOK'
    BY OthersTypeOK DEF IInv
  <1>2. NoOrphanRows'
    BY DeleteNoOrphanRows DEF IInv
  <1>3. ASSUME NEW q \in Requests PROVE HandlerInvOf(q)'
    <2>1. /\ UNCHANGED reqVars
          /\ status'[q] = status[q] \/ (HasRow(q) /\ status'[q] = "gone")
      BY DeleteFrame DEF IInv
    <2>2. HandlerInvOf(q)
      BY DEF IInv, HandlerInv
    <2>3. QED
      BY <2>1, <2>2
         DEF reqVars, HandlerInvOf, AnswerAgrees, HasReason, HasRow, ExecutionStatus
  <1>4. QED BY <1>1, <1>2, <1>3 DEF IInv, HandlerInv

\* A crash only stops handlers.
LEMMA CrashIInv ==
  ASSUME IInv, Crash
  PROVE  IInv'
  <1> USE DEF IInv, Crash
  <1>1. TypeOK'
    BY OthersTypeOK
  <1>2. NoOrphanRows'
    BY DEF NoOrphanRows, HasRow
  <1>3. ASSUME NEW q \in Requests PROVE HandlerInvOf(q)'
    BY DEF HandlerInv, HandlerInvOf, AnswerAgrees, HasReason, InFlight
  <1>4. QED BY <1>1, <1>2, <1>3 DEF HandlerInv

\* Every step keeps the invariant.
LEMMA NextIInv == IInv /\ [Next]_vars => IInv'
  <1> SUFFICES ASSUME IInv, [Next]_vars PROVE IInv'
    OBVIOUS
  <1>1. CASE UNCHANGED vars
    BY <1>1 DEF vars, reqVars, delVars, IInv, TypeOK, NoOrphanRows, HasRow, HandlerInv,
                HandlerInvOf, AnswerAgrees, HasReason
  <1>2. CASE Next
    BY <1>2, ExecuteIInv, CancelIInv, DeleteIInv, CrashIInv DEF Next
  <1>3. QED BY <1>1, <1>2

\* The tables and the handlers keep their types.
THEOREM TypeCorrect == Spec => []TypeOK
  <1>1. IInv => TypeOK
    BY DEF IInv
  <1>2. QED BY InitIInv, NextIInv, <1>1, PTL DEF Spec

\* No row outlives its agent, whichever way the foreign key is declared.
THEOREM NoOrphans == Spec => []NoOrphanRows
  <1>1. IInv => NoOrphanRows
    BY DEF IInv
  <1>2. QED BY InitIInv, NextIInv, <1>1, PTL DEF Spec

\* After a 500 the row of a run is failed, after a 200 it is pending: the UPDATE
\* that would complete it names columns its table does not have.
THEOREM RowsTellTheTruth == Spec => []AnswerAgreesWithRow
  <1>1. IInv => AnswerAgreesWithRow
    BY DEF IInv, HandlerInv, HandlerInvOf, AnswerAgreesWithRow
  <1>2. QED BY InitIInv, NextIInv, <1>1, PTL DEF Spec

\* A row stays queued when its handler is over only for a reason.
THEOREM QueuedRowsHaveAReason == Spec => []QueuedHasReason
  <1>1. IInv => QueuedHasReason
    BY DEF IInv, HandlerInv, HandlerInvOf, QueuedHasReason
  <1>2. QED BY InitIInv, NextIInv, <1>1, PTL DEF Spec

\* A handler step never replaces an outcome: only Settle writes one, and the
\* invariant says the row holds none when its handler gets there.
LEMMA OutcomesKept ==
  ASSUME IInv, [Next]_vars, NEW r \in Requests, status[r] \in {"completed", "failed"}
  PROVE  status'[r] \in {status[r], "gone"}
  <1> USE DEF IInv, TypeOK
  <1>1. CASE UNCHANGED vars
    BY <1>1 DEF vars
  <1>2. ASSUME NEW q \in Requests, ExecuteAgent(q) PROVE status'[r] = status[r]
    <2>1. CASE q # r
      BY <1>2, <2>1, ExecuteFrame
    <2>2. CASE q = r
      <3>1. pc[r] \notin {"loaded", "settling"}
        BY DEF HandlerInv, HandlerInvOf
      <3>2. UNCHANGED status
        BY <1>2, <2>2, <3>1
           DEF ExecuteAgent, GetAgent, Reject, AbortPrompt, StartExecution, SendRequest,
               Settle, Respond
      <3>3. QED BY <3>2
    <2>3. QED BY <2>1, <2>2
  <1>3. ASSUME NEW q \in Requests, CancelExecution(q) PROVE status'[r] = status[r]
    BY <1>3 DEF CancelExecution, Cancellable
  <1>4. ASSUME NEW d \in Deleters, DeleteAgent(d) PROVE status'[r] \in {status[r], "gone"}
    BY <1>4, DeleteFrame
  <1>5. CASE Crash
    BY <1>5 DEF Crash
  <1>6. QED BY <1>1, <1>2, <1>3, <1>4, <1>5 DEF Next

\* Once a row holds the outcome of its run, nothing replaces it.
THEOREM Finality == Spec => OutcomesAreFinal
  <1>1. IInv /\ [Next]_vars =>
          [\A r \in Requests :
             status[r] \in {"completed", "failed"} => status'[r] \in {status[r], "gone"}]_vars
    BY OutcomesKept
  <1>2. QED BY InitIInv, NextIInv, <1>1, PTL DEF Spec, OutcomesAreFinal

-----------------------------------------------------------------------------
(* Execution implements ExecutionRecord *)

\* The writer of the abstract table (the mapping of the INSTANCE, by name).
writerBar == [r \in Requests |-> Writing(r)]

\* Writing is a truth value, now and in the next state.
LEMMA WritingBoolean == \A r \in Requests : Writing(r) \in BOOLEAN /\ Writing(r)' \in BOOLEAN
  BY DEF Writing

\* One handler stops writing and the others go on as they did.
LEMMA WriterStops ==
  ASSUME NEW r \in Requests, ~Writing(r)',
         \A q \in Requests : q # r => (Writing(q)' <=> Writing(q))
  PROVE  writerBar' = [writerBar EXCEPT ![r] = FALSE]
  <1>1. \A q \in Requests : Writing(q)' = IF q = r THEN FALSE ELSE Writing(q)
    BY WritingBoolean
  <1>2. writerBar' = [q \in Requests |-> IF q = r THEN FALSE ELSE Writing(q)]
    BY <1>1 DEF writerBar
  <1>3. [writerBar EXCEPT ![r] = FALSE] = [q \in Requests |-> IF q = r THEN FALSE ELSE Writing(q)]
    BY DEF writerBar
  <1>4. QED BY <1>2, <1>3

\* A step that leaves the rows alone and makes no handler a writer again is a
\* step of the abstract table in which some handlers let go.
LEMMA ReleaseRefines ==
  ASSUME UNCHANGED status, \A q \in Requests : Writing(q)' => Writing(q)
  PROVE  Record!Next
  <1> DEFINE E == {q \in Requests : ~Writing(q)'}
  <1>1. writerBar' = [e \in Requests |-> writerBar[e] /\ e \notin E]
    <2>1. \A q \in Requests : Writing(q)' = (Writing(q) /\ q \notin E)
      BY WritingBoolean
    <2>2. QED BY <2>1 DEF writerBar
  <1>2. Record!Release(E)
    BY <1>1 DEF Record!Release, writerBar
  <1>3. E \in SUBSET Requests
    OBVIOUS
  <1>4. QED BY <1>2, <1>3 DEF Record!Next

\* A step that only removes rows is a step of the abstract table.
LEMMA RemoveRefines ==
  ASSUME TypeOK, UNCHANGED reqVars, status' \in [Requests -> ExecutionStatus \cup {"none", "gone"}],
         \A q \in Requests : \/ status'[q] = status[q]
                             \/ HasRow(q) /\ status'[q] = "gone"
  PROVE  Record!Next
  <1> DEFINE E == {q \in Requests : HasRow(q) /\ status'[q] = "gone"}
  <1>1. status' = [e \in Requests |-> IF e \in E /\ status[e] # "none" THEN "gone" ELSE status[e]]
    BY DEF TypeOK, HasRow, ExecutionStatus
  <1>2. writerBar' = writerBar
    BY DEF writerBar, Writing, reqVars
  <1>3. Record!Remove(E)
    BY <1>1, <1>2 DEF Record!Remove, writerBar
  <1>4. E \in SUBSET Requests
    OBVIOUS
  <1>5. QED BY <1>3, <1>4 DEF Record!Next

\* A step of one handler is a step of its record, or none.
LEMMA ExecuteRefines ==
  ASSUME IInv, NEW r \in Requests, ExecuteAgent(r)
  PROVE  Record!Next
  <1> USE DEF IInv, TypeOK, delVars
  <1>1. \A q \in Requests : q # r => (Writing(q)' <=> Writing(q))
    BY ExecuteFrame DEF Writing
  <1>2. HandlerInvOf(r)
    BY DEF HandlerInv
  <1>3. CASE UNCHANGED status
    <2>1. Writing(r)' => Writing(r)
      BY <1>3 DEF ExecuteAgent, GetAgent, Reject, AbortPrompt, StartExecution, SendRequest,
                  Settle, Respond, Finish, Writing
    <2>2. QED BY <1>1, <1>3, <2>1, ReleaseRefines
  <1>4. CASE ~UNCHANGED status
    <2>1. CASE StartExecution(r)
      <3>1. /\ Writing(r)
            /\ status[r] = "none"
            /\ status' = [status EXCEPT ![r] = "queued"]
        BY <1>2, <1>4, <2>1 DEF StartExecution, InitialStatus, Writing, HandlerInvOf
      <3>2. writerBar' \in {writerBar, [writerBar EXCEPT ![r] = FALSE]}
        <4>1. CASE Writing(r)'
          BY <1>1, <3>1, <4>1, WritingBoolean DEF writerBar
        <4>2. CASE ~Writing(r)'
          BY <1>1, <4>2, WriterStops
        <4>3. QED BY <4>1, <4>2
      <3>3. Record!Create(r)
        BY <3>1, <3>2 DEF Record!Create, writerBar
      <3>4. QED BY <3>3 DEF Record!Next
    <2>2. CASE Settle(r)
      <3>1. /\ tracked[r]
            /\ status' = [status EXCEPT ![r] = IF @ \in ExecutionStatus THEN FinalStatus(r) ELSE @]
        BY <1>4, <2>2 DEF Settle, CompleteExecution, Completable
      <3>2. status[r] \in {"queued", "cancelled"}
        BY <1>2, <1>4, <2>2, <3>1 DEF Settle, HandlerInvOf, ExecutionStatus
      <3>3. \E o \in {"completed", "failed"} : status' = [status EXCEPT ![r] = o]
        BY <3>1, <3>2 DEF FinalStatus, ExecutionStatus
      <3>4. Writing(r) /\ ~Writing(r)'
        BY <2>2, <3>1 DEF Settle, Finish, Writing
      <3>5. writerBar' = [writerBar EXCEPT ![r] = FALSE]
        BY <1>1, <3>4, WriterStops
      <3>6. Record!Settle(r)
        BY <3>2, <3>3, <3>4, <3>5
           DEF Record!Settle, Record!Pending, Record!Outcomes, writerBar
      <3>7. QED BY <3>6 DEF Record!Next
    <2>3. QED
      BY <1>4, <2>1, <2>2
         DEF ExecuteAgent, GetAgent, Reject, AbortPrompt, SendRequest, Respond
  <1>5. QED BY <1>3, <1>4

\* Every step is a step of the abstract table or leaves it unchanged.
LEMMA StepRefines == IInv /\ [Next]_vars => [Record!Next]_(Record!vars)
  <1> SUFFICES ASSUME IInv, [Next]_vars PROVE [Record!Next]_(Record!vars)
    OBVIOUS
  <1> USE DEF IInv
  <1>1. CASE UNCHANGED vars
    BY <1>1 DEF vars, reqVars, Record!vars, Writing
  <1>2. ASSUME NEW r \in Requests, ExecuteAgent(r) PROVE Record!Next
    BY <1>2, ExecuteRefines
  <1>3. ASSUME NEW r \in Requests, CancelExecution(r) PROVE Record!Next
    <2>1. status[r] = "queued" /\ status' = [status EXCEPT ![r] = "cancelled"]
      BY <1>3 DEF CancelExecution, Cancellable, HandlerInv, HandlerInvOf
    <2>2. writerBar' = writerBar
      BY <1>3 DEF CancelExecution, reqVars, writerBar, Writing
    <2>3. Record!Cancel(r)
      BY <2>1, <2>2 DEF Record!Cancel, writerBar
    <2>4. QED BY <2>3 DEF Record!Next
  <1>4. ASSUME NEW d \in Deleters, DeleteAgent(d) PROVE Record!Next
    BY <1>4, DeleteFrame, RemoveRefines, OthersTypeOK DEF TypeOK
  <1>5. CASE Crash
    <2>1. \A q \in Requests : Writing(q)' => Writing(q)
      BY <1>5 DEF Crash, Writing, InFlight
    <2>2. QED BY <1>5, <2>1, ReleaseRefines DEF Crash
  <1>6. QED BY <1>1, <1>2, <1>3, <1>4, <1>5 DEF Next

\* The handlers, with every interleaving of cancellations, deletions and crashes,
\* keep the promise of the execution record.
THEOREM Refinement == Spec => RecordSpec
  <1>1. Init => Record!Init
    BY DEF Init, Record!Init, Writing
  <1>2. QED
    BY InitIInv, NextIInv, StepRefines, <1>1, PTL DEF Spec, RecordSpec, Record!Spec

-----------------------------------------------------------------------------
(* The catalogue *)

\* A step of the catalogue is a step of Execution, or none.
LEMMA CatalogStep == [CatalogNext]_catalogVars => [Next]_vars
  <1> SUFFICES ASSUME [CatalogNext]_catalogVars PROVE [Next]_vars
    OBVIOUS
  <1>1. CASE Executing
    BY <1>1 DEF Executing, Next
  <1>2. ASSUME NEW e \in Editors, UpdateAgent(e) PROVE UNCHANGED vars
    BY <1>2 DEF UpdateAgent, FindForUpdate, ApplyUpdate, Reload
  <1>3. ASSUME NEW a \in Agents, PublishAgent(a) \/ UnpublishAgent(a) PROVE UNCHANGED vars
    BY <1>3 DEF PublishAgent, UnpublishAgent, SetStatus
  <1>4. ASSUME NEW d \in Copiers, DuplicateAgent(d) PROVE UNCHANGED vars
    BY <1>4 DEF DuplicateAgent, SelectSource, InsertCopy
  <1>5. CASE CatalogCrash
    BY <1>5 DEF CatalogCrash, Next
  <1>6. CASE UNCHANGED catalogVars
    BY <1>6 DEF catalogVars
  <1>7. QED BY <1>1, <1>2, <1>3, <1>4, <1>5, <1>6 DEF CatalogNext

\* Whatever holds of the executions holds of them beside the catalogue.
THEOREM CatalogImplementsExecution == CatalogSpec => Spec
  <1>1. CatalogInit => Init
    BY DEF CatalogInit
  <1>2. QED BY <1>1, CatalogStep, PTL DEF CatalogSpec, Spec

-----------------------------------------------------------------------------
\* The columns an editor names, put over a row, make a row.
LEMMA UpdatedType ==
  ASSUME NEW row \in RowType, NEW e \in Editors
  PROVE  Over(Named(e), row) \in RowType
  <1>1. EditOf[e] \subseteq Columns
    BY EditAssumption
  <1>2. QED BY <1>1 DEF Named, Over, RowType, Values

\* Every step keeps the types.
LEMMA CatalogTypeStep ==
  CatalogTypeOK /\ TypeOK' /\ [CatalogNext]_catalogVars => CatalogTypeOK'
  <1> SUFFICES ASSUME CatalogTypeOK, TypeOK', [CatalogNext]_catalogVars PROVE CatalogTypeOK'
    OBVIOUS
  <1> USE DEF CatalogTypeOK, editVars
  <1>0. NewRow \in RowType
    BY DEF NewRow, RowType, Values
  <1>1. CASE Executing
    BY <1>1 DEF Executing
  <1>2. ASSUME NEW e \in Editors, FindForUpdate(e) PROVE CatalogTypeOK'
    <2>1. Target(e) \in Agents
      BY EditAssumption DEF Target
    <2>2. QED BY <1>0, <1>2, <2>1 DEF FindForUpdate, Reply
  <1>3. ASSUME NEW e \in Editors, ApplyUpdate(e) PROVE CatalogTypeOK'
    <2>1. Target(e) \in Agents
      BY EditAssumption DEF Target
    <2>2. rows[Target(e)] \in RowType
      BY <2>1
    <2>3. UpdatedRow(e) \in RowType
      BY <2>2, UpdatedType DEF UpdatedRow
    <2>4. rows' \in [Agents -> RowType]
      BY <1>3, <2>1, <2>3 DEF ApplyUpdate
    <2>5. matched' \in [Editors -> BOOLEAN]
      BY <1>3 DEF ApplyUpdate
    <2>6. /\ epc' \in [Editors -> {"received", "found", "updated", "done", "dead"}]
          /\ found' \in [Editors -> RowType]
          /\ told' \in [Editors -> {"none", "200", "error"}]
      BY <1>0, <1>3 DEF ApplyUpdate, Reply
    <2>7. QED BY <1>3, <2>4, <2>5, <2>6 DEF ApplyUpdate
  <1>4. ASSUME NEW e \in Editors, Reload(e) PROVE CatalogTypeOK'
    BY <1>0, <1>4 DEF Reload, Reply
  <1>5. ASSUME NEW a \in Agents, PublishAgent(a) \/ UnpublishAgent(a) PROVE CatalogTypeOK'
    <2>1. PICK s \in {"published", "draft"} : SetStatus(a, s)
      BY <1>5 DEF PublishAgent, UnpublishAgent
    <2>2. [rows[a] EXCEPT !.status = s] \in RowType
      BY DEF RowType, Values
    <2>3. rows' \in [Agents -> RowType]
      BY <2>1, <2>2 DEF SetStatus
    <2>4. QED BY <2>1, <2>3 DEF SetStatus
  <1>6. ASSUME NEW d \in Copiers, DuplicateAgent(d) PROVE CatalogTypeOK'
    BY <1>6 DEF DuplicateAgent, SelectSource, InsertCopy, CopyGoto
  <1>7. CASE CatalogCrash
    BY <1>0, <1>7 DEF CatalogCrash
  <1>8. CASE UNCHANGED catalogVars
    BY <1>8 DEF catalogVars
  <1>9. QED
    BY <1>1, <1>2, <1>3, <1>4, <1>5, <1>6, <1>7, <1>8 DEF CatalogNext, UpdateAgent

\* The types of the catalogue and of the executions beside it.
THEOREM CatalogTypeCorrect == CatalogSpec => []CatalogTypeOK
  <1>1. CatalogInit => CatalogTypeOK
    <2> SUFFICES ASSUME CatalogInit PROVE CatalogTypeOK
      OBVIOUS
    <2>1. TypeOK
      BY InitIInv DEF CatalogInit, IInv
    <2>2. NewRow \in RowType
      BY DEF NewRow, RowType, Values
    <2>3. QED BY <2>1, <2>2 DEF CatalogInit, CatalogTypeOK
  <1>2. QED
    BY <1>1, CatalogTypeStep, CatalogImplementsExecution, TypeCorrect, PTL DEF CatalogSpec

-----------------------------------------------------------------------------
\* Agents are deleted and never come back.
LEMMA AgentsOnlyGo == [Next]_vars => agents' \subseteq agents
  <1> SUFFICES ASSUME [Next]_vars PROVE agents' \subseteq agents
    OBVIOUS
  <1>1. ASSUME NEW r \in Requests, ExecuteAgent(r) PROVE agents' = agents
    BY <1>1 DEF ExecuteAgent, GetAgent, Reject, AbortPrompt, StartExecution, SendRequest,
                Settle, Respond
  <1>2. ASSUME NEW r \in Requests, CancelExecution(r) PROVE agents' = agents
    BY <1>2 DEF CancelExecution
  <1>3. ASSUME NEW d \in Deleters, DeleteAgent(d) PROVE agents' \subseteq agents
    BY <1>3 DEF DeleteAgent, CountAgent, DeleteExecutions, DeleteRow
  <1>4. CASE Crash
    BY <1>4 DEF Crash
  <1>5. CASE UNCHANGED vars
    BY <1>5 DEF vars
  <1>6. QED BY <1>1, <1>2, <1>3, <1>4, <1>5 DEF Next

\* Past its UPDATE an editor has met its row, or the agent is gone for good.
UpdateInv ==
    \A e \in Editors : /\ epc[e] = "updated" => matched[e] \/ Target(e) \notin agents
                       /\ told[e] = "200" => matched[e]

\* Every step keeps it.
LEMMA UpdateStep ==
  CatalogTypeOK /\ UpdateInv /\ [CatalogNext]_catalogVars => UpdateInv'
  <1> SUFFICES ASSUME CatalogTypeOK, UpdateInv, [CatalogNext]_catalogVars,
                      NEW f \in Editors
               PROVE  /\ epc'[f] = "updated" => matched'[f] \/ Target(f) \notin agents'
                      /\ told'[f] = "200" => matched'[f]
    BY DEF UpdateInv, Target
  <1>0. agents' \subseteq agents
    BY CatalogStep, AgentsOnlyGo
  <1> USE DEF CatalogTypeOK, UpdateInv, editVars
  <1>1. CASE Executing
    BY <1>0, <1>1 DEF Executing
  <1>2. ASSUME NEW e \in Editors, FindForUpdate(e)
        PROVE  /\ epc'[f] = "updated" => matched'[f] \/ Target(f) \notin agents'
               /\ told'[f] = "200" => matched'[f]
    BY <1>0, <1>2 DEF FindForUpdate, Reply
  <1>3. ASSUME NEW e \in Editors, ApplyUpdate(e)
        PROVE  /\ epc'[f] = "updated" => matched'[f] \/ Target(f) \notin agents'
               /\ told'[f] = "200" => matched'[f]
    BY <1>0, <1>3 DEF ApplyUpdate, Reply
  <1>4. ASSUME NEW e \in Editors, Reload(e)
        PROVE  /\ epc'[f] = "updated" => matched'[f] \/ Target(f) \notin agents'
               /\ told'[f] = "200" => matched'[f]
    BY <1>0, <1>4 DEF Reload, Reply, Reloadable
  <1>5. CASE UNCHANGED editVars
    BY <1>0, <1>5
  <1>6. CASE CatalogCrash
    BY <1>0, <1>6 DEF CatalogCrash
  <1>7. QED
    BY <1>1, <1>2, <1>3, <1>4, <1>5, <1>6
       DEF CatalogNext, UpdateAgent, PublishAgent, UnpublishAgent, SetStatus,
           DuplicateAgent, SelectSource, InsertCopy, catalogVars

\* A client that is answered 200 had its update stored.
THEOREM AnswersAreTrue == CatalogSpec => []AnsweredUpdatesWereStored
  <1>1. CatalogInit => UpdateInv
    BY DEF CatalogInit, UpdateInv
  <1>2. UpdateInv => AnsweredUpdatesWereStored
    BY DEF UpdateInv, AnsweredUpdatesWereStored
  <1>3. QED
    BY <1>1, <1>2, UpdateStep, CatalogTypeCorrect, PTL DEF CatalogSpec

-----------------------------------------------------------------------------
\* The step of one request changes the row of its agent by the columns it names.
LEMMA RowStep ==
  CatalogTypeOK /\ [CatalogNext]_catalogVars =>
      \A a \in Agents : rows'[a] # rows[a] => \E w \in Changes(a) : rows'[a] = Over(w, rows[a])
  <1> SUFFICES ASSUME CatalogTypeOK, [CatalogNext]_catalogVars,
                      NEW a \in Agents, rows'[a] # rows[a]
               PROVE  \E w \in Changes(a) : rows'[a] = Over(w, rows[a])
    OBVIOUS
  <1> USE DEF CatalogTypeOK
  <1>1. ASSUME NEW e \in Editors, UpdateAgent(e)
        PROVE  \E w \in Changes(a) : rows'[a] = Over(w, rows[a])
    <2>1. ApplyUpdate(e) /\ rows' = [rows EXCEPT ![Target(e)] = UpdatedRow(e)]
      BY <1>1 DEF UpdateAgent, FindForUpdate, ApplyUpdate, Reload
    <2>2. a = Target(e) /\ rows'[a] = Over(Named(e), rows[a])
      BY <2>1 DEF UpdatedRow
    <2>3. Named(e) \in Changes(a)
      BY <2>2 DEF Changes
    <2>4. QED BY <2>2, <2>3
  <1>2. ASSUME NEW b \in Agents, NEW s \in {"published", "draft"}, SetStatus(b, s)
        PROVE  \E w \in Changes(a) : rows'[a] = Over(w, rows[a])
    <2> DEFINE w == [c \in {"status"} |-> s]
    <2>1. a = b /\ rows'[a] = [rows[a] EXCEPT !.status = s]
      BY <1>2 DEF SetStatus
    <2>2. rows[a] \in RowType /\ "status" \in Columns
      BY EditAssumption
    <2>3. rows'[a] = Over(w, rows[a])
      BY <2>1, <2>2 DEF RowType, Over
    <2>4. w \in Changes(a)
      BY DEF Changes
    <2>5. QED BY <2>3, <2>4
  <1>3. ASSUME NEW b \in Agents, PublishAgent(b) \/ UnpublishAgent(b)
        PROVE  \E w \in Changes(a) : rows'[a] = Over(w, rows[a])
    BY <1>2, <1>3 DEF PublishAgent, UnpublishAgent
  <1>4. QED
    BY <1>1, <1>3
       DEF CatalogNext, Executing, DuplicateAgent, SelectSource, InsertCopy, CatalogCrash,
           catalogVars

\* No update is undone by a request that does not name its columns.
THEOREM UpdatesStay == CatalogSpec => NoUpdateUndone
  BY CatalogTypeCorrect, RowStep, PTL DEF CatalogSpec, NoUpdateUndone
=============================================================================
