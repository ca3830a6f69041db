---------------------------- MODULE AgentCatalog ----------------------------
(***************************************************************************)
(* The rows of the agents themselves, while Execution's handlers run:      *)
(* UpdateAgent in its three statements (SELECT, UPDATE, SELECT), publish   *)
(* and unpublish in one, DuplicateAgent in two, racing each other and the  *)
(* three statements of DeleteAgent.  No statement sees whether another     *)
(* handler ran since the one before.                                       *)
(*                                                                         *)
(* A row is its columns, a value is the request that wrote it or one of a  *)
(* few constants.  Who may see and change which agent is left out: it is a *)
(* clause of the same SELECT or UPDATE, which then matches no row.         *)
(***************************************************************************)
EXTENDS Execution

CONSTANTS Editors,     \* PUT /agents/:id requests
          EditTarget,  \* [Editors -> Agents], the :id
          EditOf,      \* [Editors -> sets of columns the request names]
          Copiers,     \* POST /agents/:id/duplicate requests
          Columns      \* the columns looked at; status is one

ASSUME EditAssumption ==
    /\ EditTarget \in [Editors -> Agents]
    /\ EditOf \in [Editors -> SUBSET Columns]
    /\ "status" \in Columns

VARIABLES rows,     \* [Agents -> [Columns -> value]], as last stored
          epc,      \* [Editors -> where UpdateAgent stands]
          found,    \* [Editors -> the row its first SELECT read]
          matched,  \* [Editors -> BOOLEAN]: its UPDATE met the row
          told,     \* [Editors -> HTTP answer]
          cpc       \* [Copiers -> where DuplicateAgent stands]

editVars    == <<epc, found, matched, told>>
catalogVars == <<vars, rows, editVars, cpc>>

\* What CreateAgent stores: the values of the request, and the status draft.
NewRow == [c \in Columns |-> IF c = "status" THEN "draft" ELSE "created"]

CatalogInit == /\ Init
               /\ rows    = [a \in Agents |-> NewRow]
               /\ epc     = [e \in Editors |-> "received"]
               /\ found   = [e \in Editors |-> NewRow]
               /\ matched = [e \in Editors |-> FALSE]
               /\ told    = [e \in Editors |-> "none"]
               /\ cpc     = [d \in Copiers |-> "received"]

-----------------------------------------------------------------------------
(* UpdateAgent *)

Target(e) == EditTarget[e]

\* The columns a request names, with their values, and a row they are put over.
Named(e) == [c \in EditOf[e] |-> e]
Over(w, row) == [c \in Columns |-> IF c \in DOMAIN w THEN w[c] ELSE row[c]]

Reply(e, code) == /\ epc' = [epc EXCEPT ![e] = "done"]
                  /\ told' = [told EXCEPT ![e] = code]
                  /\ found' = [found EXCEPT ![e] = NewRow]

\* SELECT; a missing agent is answered like any other error.
FindForUpdate(e) ==
    /\ epc[e] = "received"
    /\ \/ /\ Target(e) \in agents
          /\ epc' = [epc EXCEPT ![e] = "found"]
          /\ found' = [found EXCEPT ![e] = rows[Target(e)]]
          /\ UNCHANGED told
       \/ Reply(e, "error")
    /\ UNCHANGED <<vars, rows, matched, cpc>>

\* The row as the UPDATE leaves it: only the named columns are in its SET clause
\* (with a bug: all columns as they were read).
WholeRow(e) == Over(Named(e), found[e])
UpdatedRow(e) == Over(Named(e), rows[Target(e)])

\* UPDATE; that it matched no row goes unnoticed.
ApplyUpdate(e) ==
    /\ epc[e] = "found"
    /\ \/ /\ Target(e) \in agents
          /\ rows' = [rows EXCEPT ![Target(e)] = UpdatedRow(e)]
          /\ matched' = [matched EXCEPT ![e] = TRUE]
          /\ \/ epc' = [epc EXCEPT ![e] = "updated"] /\ UNCHANGED <<told, found>>
             \/ Reply(e, "error")      \* the answer of the UPDATE is lost
       \/ /\ Target(e) \notin agents
          /\ epc' = [epc EXCEPT ![e] = "updated"]
          /\ UNCHANGED <<rows, told, found, matched>>
       \/ Reply(e, "error") /\ UNCHANGED <<rows, matched>>
    /\ UNCHANGED <<vars, cpc>>

\* The row must be there to be answered (with a bug: what was read is answered).
AnyRow(e) == e \in Editors
Reloadable(e) == Target(e) \in agents

\* The second SELECT, whose row is the answer.
Reload(e) == /\ epc[e] = "updated"
             /\ \/ Reloadable(e) /\ Reply(e, "200")
                \/ Reply(e, "error")
             /\ UNCHANGED <<vars, rows, matched, cpc>>

UpdateAgent(e) == FindForUpdate(e) \/ ApplyUpdate(e) \/ Reload(e)

-----------------------------------------------------------------------------
(* PublishAgent and UnpublishAgent: one UPDATE, and its number of rows *)

SetStatus(a, s) == /\ a \in agents
                   /\ rows' = [rows EXCEPT ![a].status = s]
                   /\ UNCHANGED <<vars, editVars, cpc>>

PublishAgent(a)   == SetStatus(a, "published")
UnpublishAgent(a) == SetStatus(a, "draft")

-----------------------------------------------------------------------------
(* DuplicateAgent *)

CopyGoto(d, where) == cpc' = [cpc EXCEPT ![d] = where]

\* The one SELECT the whole copy is made from.
SelectSource(d) == /\ cpc[d] = "received"
                   /\ \/ agents # {} /\ CopyGoto(d, "selected")
                      \/ CopyGoto(d, "failed")
                   /\ UNCHANGED <<vars, rows, editVars>>

\* INSERT under a new id, which no other request knows of, whether the source is
\* still there or not.
InsertCopy(d) == /\ cpc[d] = "selected"
                 /\ CopyGoto(d, "inserted") \/ CopyGoto(d, "failed")
                 /\ UNCHANGED <<vars, rows, editVars>>

DuplicateAgent(d) == SelectSource(d) \/ InsertCopy(d)

-----------------------------------------------------------------------------
Executing == /\ \/ \E r \in Requests : ExecuteAgent(r) \/ CancelExecution(r)
                \/ \E d \in Deleters : DeleteAgent(d)
             /\ UNCHANGED <<rows, editVars, cpc>>

\* The process dies under all its handlers.
CatalogCrash ==
    /\ Crash
    /\ epc' = [e \in Editors |-> IF epc[e] \in {"found", "updated"} THEN "dead" ELSE epc[e]]
    /\ found' = [e \in Editors |-> IF epc'[e] = "dead" THEN NewRow ELSE found[e]]
    /\ cpc' = [d \in Copiers |-> IF cpc[d] = "selected" THEN "dead" ELSE cpc[d]]
    /\ UNCHANGED <<rows, matched, told>>

CatalogNext == \/ Executing
               \/ \E e \in Editors : UpdateAgent(e)
               \/ \E a \in Agents : PublishAgent(a) \/ UnpublishAgent(a)
               \/ \E d \in Copiers : DuplicateAgent(d)
               \/ CatalogCrash

CatalogSpec == CatalogInit /\ [][CatalogNext]_catalogVars

FairCatalogSpec ==
    CatalogSpec /\ \A r \in Requests :
                      WF_catalogVars(ExecuteAgent(r) /\ UNCHANGED <<rows, editVars, cpc>>)

-----------------------------------------------------------------------------
(* Properties *)

Values == Editors \cup {"created", "draft", "published"}

RowType == [Columns -> Values]

\* Type invariant of the catalogue and of what runs beside it.
CatalogTypeOK ==
    /\ TypeOK
    /\ rows \in [Agents -> RowType]
    /\ epc \in [Editors -> {"received", "found", "updated", "done", "dead"}]
    /\ found \in [Editors -> RowType]
    /\ matched \in [Editors -> BOOLEAN]
    /\ told \in [Editors -> {"none", "200", "error"}]
    /\ cpc \in [Copiers -> {"received", "selected", "inserted", "failed", "dead"}]

\* Every step that changes a row is one request's: it stores the columns that request
\* names, whole, and no other column.  So requests that name different columns never
\* undo each other, although each reads the row first and writes it later.
Changes(a) == {Named(e) : e \in {f \in Editors : Target(f) = a}} \cup
              {[c \in {"status"} |-> s] : s \in {"published", "draft"}}

NoUpdateUndone ==
    [][\A a \in Agents : rows'[a] # rows[a] => \E w \in Changes(a) : rows'[a] = Over(w, rows[a])]_catalogVars

\* A client that is answered 200 had its update stored: the UPDATE that meets no row
\* because the agent was deleted after the first SELECT goes unnoticed, but the
\* second one then fails.
AnsweredUpdatesWereStored == \A e \in Editors : told[e] = "200" => matched[e]
=============================================================================
