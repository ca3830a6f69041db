-------------------------- MODULE ExecutionRecord --------------------------
(***************************************************************************)
(* What the execution table promises, whatever handlers, cancellations and *)
(* deletions do to it: a record is created once, may be cancelled while it *)
(* is pending, takes the outcome of its run at most once, from the one     *)
(* handler that wrote it, and never leaves that outcome except by being    *)
(* removed with its agent.                                                 *)
(***************************************************************************)
CONSTANT Records

VARIABLES record,   \* [Records -> status of the row, "none" or "gone"]
          writer    \* [Records -> BOOLEAN]: a handler may still write to it

vars == <<record, writer>>

Pending  == {"queued", "cancelled"}
Outcomes == {"completed", "failed"}

Init == /\ record = [e \in Records |-> "none"]
        /\ writer = [e \in Records |-> TRUE]

\* The handler creates its record; it may lose hold of it in the same step.
Create(e) == /\ writer[e]
             /\ record[e] = "none"
             /\ record' = [record EXCEPT ![e] = "queued"]
             /\ writer' \in {writer, [writer EXCEPT ![e] = FALSE]}

Cancel(e) == /\ record[e] = "queued"
             /\ record' = [record EXCEPT ![e] = "cancelled"]
             /\ UNCHANGED writer

\* The only write of an outcome, and the last one of the handler.  Nothing says
\* that there is one: a handler may also let go of a pending record.
Settle(e) == /\ writer[e]
             /\ record[e] \in Pending
             /\ \E o \in Outcomes : record' = [record EXCEPT ![e] = o]
             /\ writer' = [writer EXCEPT ![e] = FALSE]

\* Handlers end, or die, without writing.
Release(E) == /\ writer' = [e \in Records |-> writer[e] /\ e \notin E]
              /\ UNCHANGED record

\* Rows of a deleted agent go together, whatever they hold.
Remove(E) == /\ record' = [e \in Records |->
                             IF e \in E /\ record[e] # "none" THEN "gone" ELSE record[e]]
             /\ UNCHANGED writer

Next == \/ \E e \in Records : Create(e) \/ Cancel(e) \/ Settle(e)
        \/ \E E \in SUBSET Records : Release(E) \/ Remove(E)

Spec == Init /\ [][Next]_vars
=============================================================================
