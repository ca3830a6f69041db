----------------------------- MODULE MCPContext -----------------------------
(***************************************************************************)
(* RetrieveMCPContext: a search by one tool of an MCP server, whose chunks *)
(* are taken as far as they fit, and if there is room left, summaries of   *)
(* the documents they come from by another, one call each.  Every call may *)
(* fail.  A tool's answer that cannot be parsed is a failure, too.         *)
(***************************************************************************)
EXTENDS Sums

CONSTANTS Chunks,
          TokensOf,       \* [Chunks -> Nat]
          DocumentOf,     \* [Chunks -> Documents or NoDocument]
          Documents,
          NoDocument,     \* the search tool names none
          SummaryTokens,  \* [Documents -> Nat], of the summary alone
          MaxSummaries,   \* 3 in the code
          MaxSteps,       \* MaxAutonomousSteps
          Limits          \* values of maxTokens

VARIABLES maxTokens,
          mat,            \* where the call stands
          hits,           \* Chunks of the search
          k,              \* the chunk the loops are at
          context,        \* chunks added
          seen,           \* documentsSeen
          summaries,      \* documents whose summary was added, in order
          tokens,         \* currentTokens
          steps           \* AutonomousSteps: the names of the steps

mcpVars == <<maxTokens, mat, hits, k, context, seen, summaries, tokens, steps>>

Idle == /\ hits = <<>>
        /\ k = 1
        /\ context = <<>>
        /\ seen = {}
        /\ summaries = <<>>
        /\ tokens = 0
        /\ steps = <<>>

Init == /\ maxTokens \in Limits
        /\ mat = "search"
        /\ Idle

\* The chunks of the answer in its order; their keys are their positions in it.
SearchDocuments ==
    /\ mat = "search"
    /\ \/ /\ \E found \in SUBSET Chunks : hits' \in SetToSeqs(found)
          /\ mat' = "add"
       \/ mat' = "failed" /\ UNCHANGED hits
    /\ UNCHANGED <<maxTokens, k, context, seen, summaries, tokens, steps>>

Fits(n) == tokens + n <= maxTokens

\* A chunk that does not fit is left out, and the next one looked at.
AddChunk ==
    /\ mat = "add"
    /\ k <= Len(hits)
    /\ IF Fits(TokensOf[hits[k]])
         THEN /\ context' = Append(context, hits[k])
              /\ tokens' = tokens + TokensOf[hits[k]]
         ELSE UNCHANGED <<context, tokens>>
    /\ k' = k + 1
    /\ UNCHANGED <<maxTokens, mat, hits, seen, summaries, steps>>

\* Summaries are asked for if a fifth of the limit is left, and steps are.
RoomForSummaries == /\ tokens < (maxTokens * 80) \div 100
                    /\ context # <<>>
                    /\ MaxSteps > 1

RecordSearch ==
    /\ mat = "add"
    /\ k > Len(hits)
    /\ steps' = Append(steps, "search")
    /\ mat' = IF RoomForSummaries THEN "summarise" ELSE "done"
    /\ k' = 1
    /\ UNCHANGED <<maxTokens, hits, context, seen, summaries, tokens>>

\* The record of a failed search looks into the result there is none of.
RecordFailure == /\ mat = "failed"
                 /\ mat' = "panicked"
                 /\ steps' = Append(steps, "search")
                 /\ UNCHANGED <<maxTokens, hits, k, context, seen, summaries, tokens>>

\* The document of the chunk the loop is at, and whether it is asked about (with a
\* bug: for each of its chunks).
Document == DocumentOf[context[k]]
Named == Document # NoDocument
Unseen == Document # NoDocument /\ Document \notin seen

EnoughSummaries(s) == Len(s) >= MaxSummaries

\* Either the tool has no summary, or it is added if it fits.  The limit on their
\* number is looked at after a call only.
GetDocumentSummary ==
    /\ mat = "summarise"
    /\ k <= Len(context)
    /\ IF Unseen
         THEN /\ seen' = seen \cup {Document}
              /\ \/ /\ Fits(SummaryTokens[Document])
                    /\ summaries' = Append(summaries, Document)
                    /\ tokens' = tokens + SummaryTokens[Document]
                 \/ UNCHANGED <<summaries, tokens>>
              /\ k' = IF EnoughSummaries(summaries') THEN Len(context) + 1 ELSE k + 1
         ELSE k' = k + 1 /\ UNCHANGED <<seen, summaries, tokens>>
    /\ UNCHANGED <<maxTokens, mat, hits, context, steps>>

RecordSummaries == /\ mat = "summarise"
                   /\ k > Len(context)
                   /\ steps' = Append(steps, "get_summary")
                   /\ mat' = "done"
                   /\ UNCHANGED <<maxTokens, hits, k, context, seen, summaries, tokens>>

Next == \/ SearchDocuments \/ AddChunk \/ RecordSearch \/ RecordFailure
        \/ GetDocumentSummary \/ RecordSummaries

-----------------------------------------------------------------------------
(* Properties *)

\* Two loops spend one limit: what they count is what they added, and within it.  A
\* document has one summary at most, however many of its chunks were found, none
\* without a chunk of it, and there are no more than the limit of them.
ToolContextFits ==
    /\ tokens = SumOf(context, TokensOf) + SumOf(summaries, SummaryTokens)
    /\ tokens <= maxTokens
    /\ IsInjective(summaries) /\ IsInjective(context)
    /\ ToSet(summaries) \subseteq {DocumentOf[c] : c \in ToSet(context)} \ {NoDocument}
    /\ Len(summaries) <= MaxSummaries
=============================================================================
