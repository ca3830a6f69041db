---------------------------- MODULE ContextSources ----------------------------
(***************************************************************************)
(* One call for document context, to either service that has some: the     *)
(* document context service and its builder, or the MCP context service.   *)
(***************************************************************************)
EXTENDS DocumentRetrieval

CONSTANTS Documents, DocumentOf, NoDocument, SummaryTokens, MaxSummaries, MaxSteps, Limits

ASSUME MCPAssumption == /\ DocumentOf \in [Chunks -> Documents \cup {NoDocument}]
                        /\ NoDocument \notin Documents
                        /\ SummaryTokens \in [Documents -> Nat]
                        /\ MaxSummaries \in Nat \ {0} /\ MaxSteps \in Nat
                        /\ Limits \subseteq Nat

VARIABLES maxTokens, mat, found, k, context, seen, summaries, tokens, steps

toolVars == <<maxTokens, mat, found, k, context, seen, summaries, tokens, steps>>

MCP == INSTANCE MCPContext WITH hits <- found

\* The service that is not called does nothing.
NotAsked == /\ request = [caller |-> "service", knowledge |-> TRUE, notebooks |-> "request",
                          strategy |-> "mcp", selected |-> <<>>]
            /\ at = "done"
            /\ fileBudget \in FileBudgets
            /\ RetrievalIdle
            /\ Init

SourcesInit == \/ RetrievalInit /\ maxTokens = 0 /\ mat = "done" /\ MCP!Idle
               \/ NotAsked /\ MCP!Init

SourcesNext == \/ RetrievalNext /\ UNCHANGED toolVars
               \/ MCP!Next /\ UNCHANGED <<retrievalVars, vars>>

\* A request for a page has a timeout, so the loop over pages and files goes on.
SourcesSpec == /\ SourcesInit
               /\ [][SourcesNext]_<<retrievalVars, vars, toolVars>>
               /\ WF_<<file, page>>(fetchChunksForFile)

-----------------------------------------------------------------------------
\* The tools' part of the type invariant, and its limit and summaries.
ToolContextFits == MCP!ToolContextFits

\* The files are all gone through, however many pages a store claims to have and
\* whichever fail: what was fetched goes on to be ranked.
FetchingEnds == at = "page" ~> at = "combine"
=============================================================================
