-------------------------- MODULE MCContextSources --------------------------
(* Two files, A of five chunks, one more than two pages have, of which the    *)
(* smaller budget takes the first only, though the third would fit, too; and *)
(* B of one chunk, a copy of what is in A and not yet indexed.                *)
EXTENDS ContextSources, TLC

CONSTANTS one, two, three, four, five, six

MCChunks   == {one, two, three, four, five, six}
MCContent  == one :> "x" @@ two :> "y" @@ three :> "v" @@ four :> "z" @@ five :> "x" @@ six :> "u"
MCLengthOf == one :> 11 @@ two :> 7 @@ three :> 11 @@ four :> 15 @@ five :> 11 @@ six :> 7
MCTokensOf == [c \in MCChunks |-> MCLengthOf[c] \div 4]
MCLibrary  == <<two, four, one, three, six, five>>
MCFileOf   == [c \in MCChunks |-> IF c = five THEN "B" ELSE "A"]
MCFiles    == {"A", "B"}
MCIndexed  == {one, three, four}
MCSelections == {<<>>, <<"A">>, <<"B", "A">>, <<"A", "B">>, <<"A", "A">>}

\* One that is in the documents twice has the score of one that is there once.
Scores(v, f, b) == [vector |-> v, full_doc |-> f, both |-> b, twice |-> f]

MCScore == one   :> Scores(3, 2, 4) @@ two  :> Scores(2, 2, 4) @@
           three :> Scores(2, 1, 4) @@ four :> Scores(1, 0, 2) @@ five :> Scores(2, 3, 4) @@ six :> Scores(1, 1, 2)

\* Neither the thresholds nor the shares are in the order of the configuration.
MCTiers == << [name |-> "high",    minScore |-> 3, tokens |-> 3],
              [name |-> "context", minScore |-> 1, tokens |-> 1],
              [name |-> "medium",  minScore |-> 2, tokens |-> 2] >>

MCBudgets == {0, 2, 4, 6}

\* Of the tools: three documents, and chunks that name none.
MCDocuments     == {"A", "B", "C"}
MCDocumentOf    == one :> "A" @@ two :> "A" @@ three :> "B" @@ four :> "none" @@
                   five :> "C" @@ six :> "none"
MCSummaryTokens == "A" :> 1 @@ "B" :> 3 @@ "C" :> 1
MCLimits        == {0, 4, 8}
=============================================================================
