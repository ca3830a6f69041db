----------------------------- MODULE Execution -----------------------------
(***************************************************************************)
(* ExecuteAgent requests and the rows they keep in ab_agent_executions,    *)
(* while other requests cancel executions and delete agents and the        *)
(* process may crash.  Every SQL statement is one step of its own: the     *)
(* handlers open no transaction, so any other handler may run in between.  *)
(*                                                                         *)
(* A request creates at most one row, so rows are named by their request.  *)
(* CancelExecution is a method of the service that no route reaches yet.   *)
(* The prompt, the memory and the text of the answer are left out: they do *)
(* not decide what is written to the tables.                               *)
(***************************************************************************)
EXTENDS Naturals

CONSTANTS Agents,     \* rows of agent_builder.agents at the start
          Requests,   \* POST /agents/:id/execute requests
          Deleters,   \* DELETE /agents/:id requests
          TargetOf    \* [Requests -> Agents], the :id of an execute request

ASSUME TargetAssumption == TargetOf \in [Requests -> Agents]
ASSUME NoAgentAssumption == "none" \notin Agents

VARIABLES cascade,  \* the foreign key of the rows says ON DELETE CASCADE
          agents,   \* agents whose row exists
          status,   \* [Requests -> status of the row, "none" before, "gone" after]
          pc,       \* [Requests -> where the ExecuteAgent handler stands]
          tracked,  \* [Requests -> BOOLEAN]: the handler's execution is not nil
          outcome,  \* [Requests -> what SendRequest returned]
          answer,   \* [Requests -> HTTP answer, "none" before it]
          lost,     \* [Requests -> BOOLEAN]: the database failed under a write
          dpc,      \* [Deleters -> where the DeleteAgent call stands]
          victim    \* [Deleters -> the agent to delete, "none" before]

reqVars == <<pc, tracked, outcome, answer, lost>>
delVars == <<dpc, victim>>
vars    == <<cascade, agents, status, reqVars, delVars>>

-----------------------------------------------------------------------------
(* The rows *)

ExecutionStatus == {"queued", "running", "completed", "failed", "timeout", "cancelled"}

InFlight == {"loaded", "sending", "settling", "remembering"}
Deleting == {"counted", "cleared"}

\* The foreign key is the one of migration 007, which cascades, or the one
\* AutoMigrate makes from the model, which does not.
Init == /\ cascade \in BOOLEAN
        /\ agents  = Agents
        /\ status  = [r \in Requests |-> "none"]
        /\ pc      = [r \in Requests |-> "received"]
        /\ tracked = [r \in Requests |-> FALSE]
        /\ outcome = [r \in Requests |-> "none"]
        /\ answer  = [r \in Requests |-> "none"]
        /\ lost    = [r \in Requests |-> FALSE]
        /\ dpc     = [d \in Deleters |-> "idle"]
        /\ victim  = [d \in Deleters |-> "none"]

\* Does the row of request r exist?
HasRow(r) == status[r] \in ExecutionStatus

\* Rows of agent a, and the table once they are deleted.
RowsOf(a) == {r \in Requests : TargetOf[r] = a /\ HasRow(r)}
Without(R) == [r \in Requests |-> IF r \in R THEN "gone" ELSE status[r]]

-----------------------------------------------------------------------------
(* ExecuteAgent *)

Finish(r, code) == /\ pc' = [pc EXCEPT ![r] = "done"]
                   /\ answer' = [answer EXCEPT ![r] = code]

\* The agent is read, by the only statement that looks at it.
GetAgent(r) == /\ pc[r] = "received"
               /\ TargetOf[r] \in agents
               /\ pc' = [pc EXCEPT ![r] = "loaded"]
               /\ UNCHANGED <<cascade, agents, status, tracked, outcome, answer, lost, delVars>>

\* Malformed request, agent missing or not visible to the user, empty input.
Reject(r) == /\ pc[r] = "received"
             /\ Finish(r, "4xx")
             /\ UNCHANGED <<cascade, agents, status, tracked, outcome, lost, delVars>>

\* The user id is no UUID (4xx) or reading the memory panics (500): no row yet.
AbortPrompt(r) == /\ pc[r] = "loaded"
                  /\ \E code \in {"4xx", "500"} : Finish(r, code)
                  /\ UNCHANGED <<cascade, agents, status, tracked, outcome, lost, delVars>>

\* The status StartExecution gives a new row, and a form outside the enumeration.
InitialStatusPending == "pending"
InitialStatus == "queued"

\* The foreign key lets the row in (without it, always).
UncheckedReference(r) == TRUE
Referable(r) == TargetOf[r] \in agents

\* INSERT of the row.  It fails for want of the agent or of the database, and
\* the handler goes on untracked; it may also be committed and its answer lost.
StartExecution(r) ==
    /\ pc[r] = "loaded"
    /\ pc' = [pc EXCEPT ![r] = "sending"]
    /\ \/ /\ Referable(r)
          /\ status' = [status EXCEPT ![r] = InitialStatus]
          /\ \/ tracked' = [tracked EXCEPT ![r] = TRUE] /\ UNCHANGED lost
             \/ lost' = [lost EXCEPT ![r] = TRUE] /\ UNCHANGED tracked
       \/ UNCHANGED <<status, tracked, lost>>
    /\ UNCHANGED <<cascade, agents, outcome, answer, delVars>>

\* The router answers, or fails, times out or sees the client go away.
SendRequest(r) == /\ pc[r] = "sending"
                  /\ pc' = [pc EXCEPT ![r] = "settling"]
                  /\ \E o \in {"ok", "error"} : outcome' = [outcome EXCEPT ![r] = o]
                  /\ UNCHANGED <<cascade, agents, status, tracked, answer, lost, delVars>>

\* The status the handler asks for (with a bug: a failed run leaves it alone).
SuccessOnly(r) == IF outcome[r] = "ok" THEN "completed" ELSE status[r]
FinalStatus(r) == IF outcome[r] = "ok" THEN "completed" ELSE "failed"

\* Rows the UPDATE of CompleteExecution matches: WHERE id = ?, nothing else
\* (with a bug: AND status = 'running').
RunningOnly == {"running"}
Completable == ExecutionStatus

\* Columns of ab_agent_executions, as AutoMigrate makes it from AgentExecution.
TableColumns == {"status", "output_data", "token_usage", "cost_usd", "total_duration_ms",
                 "error_message", "completed_at", "updated_at"}

\* Columns in the SET clause of the UPDATE.  The output of a run adds its own,
\* each under the name CompleteExecution gives it.
OutputColumns == {"output_data", "token_usage", "cost_usd",
                  "router_provider", "router_model", "routing_strategy"}
SetClause(r) == {"status", "total_duration_ms", "completed_at", "updated_at"} \cup
                (IF outcome[r] = "ok" THEN OutputColumns ELSE {"error_message"})

\* The database takes an UPDATE only if the table has every column it names.
Accepted(r) == SetClause(r) \subseteq TableColumns

\* UPDATE of the row, if there is one.  That it was refused, or that the database
\* failed, the handler does not look at.
CompleteExecution(r) ==
    \/ /\ Accepted(r)
       /\ status' = [status EXCEPT ![r] = IF @ \in Completable THEN FinalStatus(r) ELSE @]
       /\ UNCHANGED lost
    \/ /\ ~Accepted(r)
       /\ UNCHANGED <<status, lost>>
    \/ /\ lost' = [lost EXCEPT ![r] = TRUE]
       /\ UNCHANGED status

\* The handler after SendRequest: complete the row if tracked, then answer an
\* error at once, or go on to store the turn in memory.
Settle(r) == /\ pc[r] = "settling"
             /\ IF tracked[r] THEN CompleteExecution(r) ELSE UNCHANGED <<status, lost>>
             /\ IF outcome[r] = "ok"
                  THEN pc' = [pc EXCEPT ![r] = "remembering"] /\ UNCHANGED answer
                  ELSE Finish(r, "500")
             /\ UNCHANGED <<cascade, agents, tracked, outcome, delVars>>

\* Memory errors are only logged, then the answer goes out.
Respond(r) == /\ pc[r] = "remembering"
              /\ Finish(r, "200")
              /\ UNCHANGED <<cascade, agents, status, tracked, outcome, lost, delVars>>

-----------------------------------------------------------------------------
(* CancelExecution: one UPDATE with the statuses it may replace (with a bug: *)
(* any status, or any but completed)                                         *)

AnyStatus    == ExecutionStatus
NotCompleted == ExecutionStatus \ {"completed"}
Cancellable == {"queued", "running"}

CancelExecution(r) == /\ status[r] \in Cancellable
                      /\ status' = [status EXCEPT ![r] = "cancelled"]
                      /\ UNCHANGED <<cascade, agents, reqVars, delVars>>

-----------------------------------------------------------------------------
(* DeleteAgent: three statements, no transaction *)

EndDelete(d, how) == dpc' = [dpc EXCEPT ![d] = how]

CountAgent(d, a) == /\ dpc[d] = "idle"
                    /\ victim' = [victim EXCEPT ![d] = a]
                    /\ \/ a \in agents /\ EndDelete(d, "counted")
                       \/ EndDelete(d, "failed")     \* no row, or the count failed
                    /\ UNCHANGED <<cascade, agents, status, reqVars>>

DeleteExecutions(d) == /\ dpc[d] = "counted"
                       /\ \/ status' = Without(RowsOf(victim[d])) /\ EndDelete(d, "cleared")
                          \/ UNCHANGED status /\ EndDelete(d, "failed")
                       /\ UNCHANGED <<cascade, agents, victim, reqVars>>

\* The rows that go with the agent's row: those the foreign key cascades to.
CascadeTo(a) == IF cascade THEN RowsOf(a) ELSE {}

\* The foreign key refuses the DELETE while a row it does not cascade to refers
\* to the agent.
Restricted(a) == RowsOf(a) \ CascadeTo(a) # {}

DeleteRow(d) ==
    LET a == victim[d] IN
    /\ dpc[d] = "cleared"
    /\ \/ /\ a \in agents /\ ~Restricted(a)
          /\ agents' = agents \ {a}
          /\ status' = Without(CascadeTo(a))
          /\ EndDelete(d, "deleted")
       \/ /\ a \in agents /\ Restricted(a)
          /\ EndDelete(d, "fk_error")
          /\ UNCHANGED <<agents, status>>
       \/ /\ EndDelete(d, "failed")      \* no row affected, or a database error
          /\ UNCHANGED <<agents, status>>
    /\ UNCHANGED <<cascade, victim, reqVars>>

-----------------------------------------------------------------------------
\* The process dies: handlers under way stop where they are, rows stay as they
\* are, and nothing at the next start looks at them.
Crash == /\ pc'  = [r \in Requests |-> IF pc[r] \in InFlight THEN "dead" ELSE pc[r]]
         /\ dpc' = [d \in Deleters |-> IF dpc[d] \in Deleting THEN "dead" ELSE dpc[d]]
         /\ UNCHANGED <<cascade, agents, status, tracked, outcome, answer, lost, victim>>

ExecuteAgent(r) == \/ GetAgent(r) \/ Reject(r) \/ AbortPrompt(r) \/ StartExecution(r)
                   \/ SendRequest(r) \/ Settle(r) \/ Respond(r)

DeleteAgent(d) == \/ \E a \in Agents : CountAgent(d, a)
                  \/ DeleteExecutions(d)
                  \/ DeleteRow(d)

Next == \/ \E r \in Requests : ExecuteAgent(r) \/ CancelExecution(r)
        \/ \E d \in Deleters : DeleteAgent(d)
        \/ Crash

Spec == Init /\ [][Next]_vars

\* A goroutine that can run does run, and every call it makes returns: the
\* HTTP client of the router has a timeout, and the retry loop a bound.
FairSpec == Spec /\ \A r \in Requests : WF_vars(ExecuteAgent(r))

-----------------------------------------------------------------------------
(* Properties *)

\* Type invariant of the tables and of the handlers' local state.
TypeOK ==
    /\ cascade \in BOOLEAN
    /\ agents \subseteq Agents
    /\ status \in [Requests -> ExecutionStatus \cup {"none", "gone"}]
    /\ pc \in [Requests -> InFlight \cup {"received", "done", "dead"}]
    /\ tracked \in [Requests -> BOOLEAN]
    /\ outcome \in [Requests -> {"none", "ok", "error"}]
    /\ answer \in [Requests -> {"none", "4xx", "500", "200"}]
    /\ lost \in [Requests -> BOOLEAN]
    /\ dpc \in [Deleters -> Deleting \cup {"idle", "deleted", "fk_error", "failed", "dead"}]
    /\ victim \in [Deleters -> Agents \cup {"none"}]

\* A row never outlives its agent, whichever of the three statements of
\* DeleteAgent a concurrent StartExecution falls between.
NoOrphanRows == \A r \in Requests : HasRow(r) => TargetOf[r] \in agents

\* Once its handler is over, a tracked row says what became of the run as far as
\* the table can: after a 500 it is failed, even if it was cancelled meanwhile,
\* unless the database failed under the UPDATE, and after a 200 it is pending
\* still, for the UPDATE is refused: never completed, but never failed either.
AnswerAgrees(r) ==
    pc[r] = "done" /\ tracked[r] =>
        \/ status[r] = "gone"
        \/ answer[r] = "500" /\ (status[r] = "failed" \/ lost[r])
        \/ answer[r] = "200" /\ status[r] \in {"queued", "cancelled"}

AnswerAgreesWithRow == \A r \in Requests : AnswerAgrees(r)

\* A row is left queued for good only if its run succeeded, the process crashed
\* under its handler or the database failed: no failed run is left queued.
HasReason(r) ==
    status[r] = "queued" =>
        pc[r] \in {"sending", "settling", "dead"} \/ lost[r] \/ outcome[r] = "ok"

QueuedHasReason == \A r \in Requests : HasReason(r)

\* The inductive strengthening of the two above: what the row can hold at each
\* point of its handler.  No row before StartExecution, no outcome before
\* Settle, a tracked row that goes only by being deleted, and no handler that
\* ever writes running, timeout or completed.
HandlerInvOf(r) ==
    /\ pc[r] \in {"received", "loaded"} =>
         status[r] = "none" /\ ~tracked[r] /\ ~lost[r]
    /\ status[r] # "none" => tracked[r] \/ lost[r]
    /\ status[r] \notin {"running", "timeout", "completed"}
    /\ pc[r] \in {"sending", "settling"} =>
         /\ status[r] \in {"none", "queued", "cancelled", "gone"}
         /\ tracked[r] => status[r] # "none" /\ ~lost[r]
    /\ pc[r] = "settling" => outcome[r] \in {"ok", "error"}
    /\ pc[r] = "remembering" =>
         /\ outcome[r] = "ok"
         /\ tracked[r] => status[r] \in {"queued", "cancelled", "gone"}
    /\ AnswerAgrees(r)
    /\ HasReason(r)

HandlerInv == \A r \in Requests : HandlerInvOf(r)

\* A row that holds the outcome of its run never changes again: a late
\* CancelExecution or a second completion cannot replace it.
OutcomesAreFinal ==
    [][\A r \in Requests :
         status[r] \in {"completed", "failed"} => status'[r] \in {status[r], "gone"}]_vars

\* Every handler that tracks a row comes to its answer, and if that is a failure
\* the row is settled or removed by then, unless the process dies or the database
\* fails under it.  The row of a run that succeeded never settles.
TrackedSettles ==
    \A r \in Requests :
        tracked[r] ~> \/ pc[r] = "dead"
                      \/ answer[r] = "200"
                      \/ answer[r] = "500" /\ (status[r] \in {"failed", "gone"} \/ lost[r])

\* The comment over the UPDATE after a success says that it updates the execution:
\* a row whose run was answered 200, with no failure of the database, is completed.
SuccessIsRecorded ==
    \A r \in Requests :
        pc[r] = "done" /\ answer[r] = "200" /\ tracked[r] /\ ~lost[r] =>
            status[r] \in {"completed", "gone"}

\* The comment over the DELETE of the executions: removing them first avoids
\* foreign key errors when the agent's row is deleted.
NoForeignKeyError == \A d \in Deleters : dpc[d] # "fk_error"

\* The abstract table: the handler may write to the row until it has settled it.
Writing(r) == \/ pc[r] \in {"received", "loaded"}
              \/ pc[r] \in {"sending", "settling"} /\ tracked[r]

Record == INSTANCE ExecutionRecord WITH
              Records <- Requests, record <- status, writer <- [r \in Requests |-> Writing(r)]

\* Execution implements the record's promise.
RecordSpec == Record!Spec
=============================================================================
