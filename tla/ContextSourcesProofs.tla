------------------------ MODULE ContextSourcesProofs ------------------------
(***************************************************************************)
(* Proofs about ContextSources and what it is made of, for any chunks,     *)
(* documents, tiers and budgets.                                           *)
(***************************************************************************)
EXTENDS ContextSources, SumsProofs

-----------------------------------------------------------------------------
(* MCPContext.  That two loops keep one limit is not inductive: a chunk is    *)
(* added once because the loop never returns to it, and a summary because its *)
(* document has been seen, and the last one before there are enough.          *)

\* The types of the tools' variables.
ToolTypes == /\ maxTokens \in Nat
             /\ mat \in {"search", "add", "failed", "panicked", "summarise", "done"}
             /\ found \in Seq(Chunks) /\ IsInjective(found)
             /\ k \in Nat \ {0}
             /\ context \in Seq(Chunks)
             /\ summaries \in Seq(Documents)

\* What the loops have taken so far, of what they have passed.
ToolLoops == /\ mat = "search" => k = 1
             /\ mat \in {"search", "add"} => summaries = <<>>
             /\ mat = "search" => context = <<>>
             /\ mat = "add" => \A c \in ToSet(context) : \E j \in 1..(k - 1) :
                                   j <= Len(found) /\ c = found[j]
             /\ ToSet(summaries) \subseteq seen
             /\ mat = "summarise" /\ k <= Len(context) => Len(summaries) < MaxSummaries

\* The inductive invariant of the tools.
ToolInv == ToolTypes /\ ToolLoops /\ ToolContextFits

\* An instance has a copy of each operator it uses.
LEMMA SameSum == \A s, w : MCP!SumOf(s, w) = SumOf(s, w)
  BY DEF MCP!SumOf, SumOf, MCP!FoldLeft, FoldLeft, MCP!MapThenFoldSet, MapThenFoldSet,
         MCP!Max, Max

\* The set of a sequence, too.
LEMMA SameElements == \A s : MCP!ToSet(s) = ToSet(s)
  BY DEF MCP!ToSet, ToSet

\* And the sequences of a set.
LEMMA SameOrders == \A s : MCP!SetToSeqs(s) = SetToSeqs(s)
  BY DEF MCP!SetToSeqs, SetToSeqs, MCP!Cardinality, Cardinality, MCP!IsFiniteSet, IsFiniteSet

\* And whether one repeats itself.
LEMMA SameInjective == \A s : MCP!IsInjective(s) <=> IsInjective(s)
  BY DEF MCP!IsInjective, IsInjective

\* What the property says, in the operators themselves.
ToolFits ==
    /\ tokens = SumOf(context, TokensOf) + SumOf(summaries, SummaryTokens)
    /\ tokens <= maxTokens
    /\ IsInjective(summaries) /\ IsInjective(context)
    /\ ToSet(summaries) \subseteq {DocumentOf[c] : c \in ToSet(context)} \ {NoDocument}
    /\ Len(summaries) <= MaxSummaries

\* So it does.
LEMMA ToolContextIs == ToolContextFits <=> ToolFits
<1>1. /\ MCP!SumOf(context, TokensOf) = SumOf(context, TokensOf)
      /\ MCP!SumOf(summaries, SummaryTokens) = SumOf(summaries, SummaryTokens)
  BY SameSum
<1>2. /\ MCP!IsInjective(summaries) <=> IsInjective(summaries)
      /\ MCP!IsInjective(context) <=> IsInjective(context)
  BY SameInjective
<1>3. MCP!ToSet(summaries) = ToSet(summaries) /\ MCP!ToSet(context) = ToSet(context)
  BY SameElements
<1>4. {DocumentOf[c] : c \in MCP!ToSet(context)} = {DocumentOf[c] : c \in ToSet(context)}
  BY <1>3
<1> QED BY <1>1, <1>2, <1>3, <1>4 DEF ToolContextFits, MCP!ToolContextFits, ToolFits

\* The chunks are finitely many: those of the library.
LEMMA ChunksFinite == IsFiniteSet(Chunks) /\ \A S \in SUBSET Chunks : IsFiniteSet(S)
<1>1. IsFiniteSet(Chunks)
  BY LibraryAssumption, ElementsFinite
<1> QED BY <1>1, FS_Subset

\* An empty context fits.
LEMMA EmptyToolContext ==
    ASSUME context = <<>>, summaries = <<>>, tokens = 0, maxTokens \in Nat
    PROVE  ToolContextFits
<1>1. SumOf(<<>>, TokensOf) = 0 /\ SumOf(<<>>, SummaryTokens) = 0
  BY SumEmpty, ChunksAssumption, MCPAssumption
<1>2. IsInjective(<<>>) /\ ToSet(<<>>) = {} /\ Len(<<>>) = 0
  BY DEF IsInjective, ToSet
<1>3. SumOf(context, TokensOf) + SumOf(summaries, SummaryTokens) = 0
  BY <1>1
<1> QED BY <1>2, <1>3, MCPAssumption, ToolContextIs DEF ToolFits

\* Before a call of the tools, and where they are not called, nothing is held.
LEMMA ToolInit == SourcesInit => ToolInv
<1> SUFFICES ASSUME SourcesInit PROVE ToolInv
  OBVIOUS
<1>1. MCP!Idle /\ maxTokens \in Nat /\ mat \in {"search", "done"}
  <2>1. CASE maxTokens = 0 /\ mat = "done" /\ MCP!Idle
    BY <2>1
  <2>2. CASE MCP!Init
    BY <2>2, MCPAssumption DEF MCP!Init
  <2> QED BY <2>1, <2>2 DEF SourcesInit
<1>2. /\ found = <<>> /\ k = 1 /\ context = <<>> /\ seen = {} /\ summaries = <<>> /\ tokens = 0
  BY <1>1 DEF MCP!Idle
<1>3. ToolContextFits
  BY <1>1, <1>2, EmptyToolContext
<1>4. IsInjective(<<>>) /\ ToSet(<<>>) = {} /\ Len(<<>>) = 0
  BY DEF IsInjective, ToSet
<1>5. ToolTypes
  BY <1>1, <1>2, <1>4 DEF ToolTypes
<1>6. ToolLoops
  BY <1>1, <1>2, <1>4 DEF ToolLoops
<1> QED BY <1>3, <1>5, <1>6 DEF ToolInv

\* What changes neither context nor tokens leaves it fitting.
LEMMA FitsStays ==
    ASSUME ToolContextFits, UNCHANGED <<maxTokens, context, summaries, tokens>>
    PROVE  ToolContextFits'
  BY DEF ToolContextFits, MCP!ToolContextFits

\* A chunk more, one that was not there and fits.
LEMMA ChunkFits ==
    ASSUME ToolContextFits, ToolTypes, NEW c \in Chunks, c \notin ToSet(context),
           tokens + TokensOf[c] <= maxTokens, context' = Append(context, c),
           tokens' = tokens + TokensOf[c], UNCHANGED <<maxTokens, summaries>>
    PROVE  ToolContextFits'
<1>1. /\ tokens = SumOf(context, TokensOf) + SumOf(summaries, SummaryTokens)
      /\ IsInjective(summaries) /\ IsInjective(context)
      /\ ToSet(summaries) \subseteq {DocumentOf[d] : d \in ToSet(context)} \ {NoDocument}
      /\ Len(summaries) <= MaxSummaries
  BY ToolContextIs DEF ToolFits
<1>2. context \in Seq(Chunks) /\ summaries \in Seq(Documents) /\ TokensOf[c] \in Nat
  BY ChunksAssumption DEF ToolTypes
<1>3. SumOf(Append(context, c), TokensOf) = SumOf(context, TokensOf) + TokensOf[c]
  BY <1>2, SumAppend, ChunksAssumption
<1>4. SumOf(context, TokensOf) \in Nat /\ SumOf(summaries, SummaryTokens) \in Nat
  BY <1>2, SumIsNat, ChunksAssumption, MCPAssumption
<1>5. IsInjective(context') /\ ToSet(context') = ToSet(context) \cup {c}
  BY <1>1, <1>2, AppendOnce
<1>6. tokens' = SumOf(context', TokensOf) + SumOf(summaries', SummaryTokens)
  BY <1>1, <1>2, <1>3, <1>4
<1>7. tokens' <= maxTokens'
  OBVIOUS
<1>8. ToSet(summaries') \subseteq {DocumentOf[d] : d \in ToSet(context')} \ {NoDocument}
  BY <1>1, <1>5
<1>9. ToolFits' => ToolContextFits'
  BY ToolContextIs, PTL
<1> QED BY <1>1, <1>5, <1>6, <1>7, <1>8, <1>9 DEF ToolFits

\* A summary more, of a document not summarised that a chunk comes from.
LEMMA SummaryFits ==
    ASSUME ToolContextFits, ToolTypes, NEW d \in Documents, d \notin ToSet(summaries),
           d # NoDocument, NEW c \in ToSet(context), d = DocumentOf[c],
           Len(summaries) < MaxSummaries,
           tokens + SummaryTokens[d] <= maxTokens, summaries' = Append(summaries, d),
           tokens' = tokens + SummaryTokens[d], UNCHANGED <<maxTokens, context>>
    PROVE  ToolContextFits'
<1>1. /\ tokens = SumOf(context, TokensOf) + SumOf(summaries, SummaryTokens)
      /\ IsInjective(summaries) /\ IsInjective(context)
      /\ ToSet(summaries) \subseteq {DocumentOf[e] : e \in ToSet(context)} \ {NoDocument}
  BY ToolContextIs DEF ToolFits
<1>2. context \in Seq(Chunks) /\ summaries \in Seq(Documents) /\ SummaryTokens[d] \in Nat
  BY MCPAssumption DEF ToolTypes
<1>3. SumOf(Append(summaries, d), SummaryTokens) = SumOf(summaries, SummaryTokens) + SummaryTokens[d]
  BY <1>2, SumAppend, MCPAssumption
<1>4. SumOf(context, TokensOf) \in Nat /\ SumOf(summaries, SummaryTokens) \in Nat
  BY <1>2, SumIsNat, ChunksAssumption, MCPAssumption
<1>5. IsInjective(summaries') /\ ToSet(summaries') = ToSet(summaries) \cup {d}
  BY <1>1, <1>2, AppendOnce
<1>6. tokens' = SumOf(context', TokensOf) + SumOf(summaries', SummaryTokens)
  BY <1>1, <1>2, <1>3, <1>4
<1>7. Len(summaries') <= MaxSummaries
  BY <1>2, MCPAssumption
<1>8. ToSet(summaries') \subseteq {DocumentOf[e] : e \in ToSet(context')} \ {NoDocument}
  BY <1>1, <1>5
<1>9. ToolFits' => ToolContextFits'
  BY ToolContextIs, PTL
<1> QED BY <1>1, <1>5, <1>6, <1>7, <1>8, <1>9 DEF ToolFits

\* Every step keeps it.
LEMMA ToolStep == ToolInv /\ [SourcesNext]_<<retrievalVars, vars, toolVars>> => ToolInv'
<1> SUFFICES ASSUME ToolInv, [SourcesNext]_<<retrievalVars, vars, toolVars>> PROVE ToolInv'
  OBVIOUS
<1>1. ToolTypes /\ ToolLoops /\ ToolContextFits
  BY DEF ToolInv
<1>2. CASE UNCHANGED toolVars
  <2>1. ToolTypes' /\ ToolLoops'
    BY <1>1, <1>2 DEF ToolTypes, ToolLoops, toolVars
  <2>2. ToolContextFits'
    BY <1>1, <1>2, FitsStays DEF toolVars
  <2> QED BY <2>1, <2>2 DEF ToolInv
<1>3. CASE MCP!SearchDocuments
  <2>1. /\ mat = "search" /\ UNCHANGED <<maxTokens, k, context, seen, summaries, tokens>>
        /\ \/ (\E S \in SUBSET Chunks : found' \in SetToSeqs(S)) /\ mat' = "add"
           \/ mat' = "failed" /\ UNCHANGED found
    <3>1. /\ mat = "search" /\ UNCHANGED <<maxTokens, k, context, seen, summaries, tokens>>
          /\ \/ (\E S \in SUBSET Chunks : found' \in MCP!SetToSeqs(S)) /\ mat' = "add"
             \/ mat' = "failed" /\ UNCHANGED found
      BY <1>3 DEF MCP!SearchDocuments
    <3> QED BY <3>1, SameOrders
  <2>2. found' \in Seq(Chunks) /\ IsInjective(found') /\ mat' \in {"add", "failed"}
    <3>1. ASSUME NEW S \in SUBSET Chunks, found' \in SetToSeqs(S)
          PROVE  found' \in Seq(Chunks) /\ IsInjective(found')
      <4>1. IsFiniteSet(S)
        BY ChunksFinite
      <4>2. found' \in Seq(S) /\ IsInjective(found')
        BY <3>1, <4>1, AllListed
      <4> QED BY <4>2
    <3> QED BY <1>1, <2>1, <3>1 DEF ToolTypes
  <2>3. ToSet(<<>>) = {}
    BY DEF ToSet
  <2>4. ToolTypes'
    BY <1>1, <2>1, <2>2 DEF ToolTypes
  <2>5. ToolLoops'
    BY <1>1, <2>1, <2>2, <2>3 DEF ToolLoops
  <2>6. ToolContextFits'
    BY <1>1, <2>1, FitsStays
  <2> QED BY <2>4, <2>5, <2>6 DEF ToolInv
<1>4. CASE MCP!AddChunk
  <2> DEFINE c == found[k]
  <2>1. /\ mat = "add" /\ k <= Len(found) /\ k' = k + 1
        /\ UNCHANGED <<maxTokens, mat, found, seen, summaries>>
    BY <1>4 DEF MCP!AddChunk
  <2>2. c \in Chunks /\ k \in 1..Len(found) /\ Len(found) \in Nat
    BY <1>1, <2>1 DEF ToolTypes
  <2>3. c \notin ToSet(context)
    <3> SUFFICES ASSUME c \in ToSet(context) PROVE FALSE
      OBVIOUS
    <3>1. PICK j \in 1..(k - 1) : j <= Len(found) /\ c = found[j]
      BY <1>1, <2>1 DEF ToolLoops
    <3>2. j \in DOMAIN found /\ k \in DOMAIN found /\ j # k
      BY <1>1, <2>2, <3>1 DEF ToolTypes
    <3> QED BY <1>1, <3>1, <3>2 DEF ToolTypes, IsInjective
  <2>4. \/ /\ tokens + TokensOf[c] <= maxTokens
           /\ context' = Append(context, c) /\ tokens' = tokens + TokensOf[c]
        \/ UNCHANGED <<context, tokens>>
    BY <1>4 DEF MCP!AddChunk, MCP!Fits
  <2>5. ToolContextFits'
    <3>1. CASE UNCHANGED <<context, tokens>>
      BY <1>1, <2>1, <3>1, FitsStays
    <3>2. CASE /\ tokens + TokensOf[c] <= maxTokens
               /\ context' = Append(context, c) /\ tokens' = tokens + TokensOf[c]
      <4> HIDE DEF c
      <4> QED BY <1>1, <2>1, <2>2, <2>3, <3>2, ChunkFits
    <3> QED BY <2>4, <3>1, <3>2
  <2>6. context' \in Seq(Chunks) /\ ToSet(context') \subseteq ToSet(context) \cup {c}
    <3> HIDE DEF c
    <3>1. context \in Seq(Chunks)
      BY <1>1 DEF ToolTypes
    <3>2. Append(context, c) \in Seq(Chunks) /\ ToSet(Append(context, c)) = ToSet(context) \cup {c}
      BY <2>2, <3>1, AppendOnce
    <3> QED BY <2>4, <3>1, <3>2
  <2>7. ToolTypes'
    BY <1>1, <2>1, <2>6 DEF ToolTypes
  <2>8. \A d \in ToSet(context') : \E j \in 1..(k' - 1) : j <= Len(found) /\ d = found[j]
    <3>1. k' - 1 = k /\ k \in 1..k /\ 1..(k - 1) \subseteq 1..k
      BY <2>1, <2>2
    <3>2. ASSUME NEW d \in ToSet(context)
          PROVE  \E j \in 1..k : j <= Len(found) /\ d = found[j]
      <4>1. PICK j \in 1..(k - 1) : j <= Len(found) /\ d = found[j]
        BY <1>1, <2>1 DEF ToolLoops
      <4> QED BY <3>1, <4>1
    <3>3. \E j \in 1..k : j <= Len(found) /\ c = found[j]
      BY <2>1, <3>1
    <3> HIDE DEF c
    <3> QED BY <2>6, <3>1, <3>2, <3>3
  <2>9. ToolLoops'
    BY <1>1, <2>1, <2>8 DEF ToolLoops
  <2> QED BY <2>5, <2>7, <2>9 DEF ToolInv
<1>5. CASE MCP!RecordSearch
  <2>1. /\ mat = "add" /\ mat' \in {"summarise", "done"} /\ k' = 1
        /\ UNCHANGED <<maxTokens, found, context, seen, summaries, tokens>>
    BY <1>5 DEF MCP!RecordSearch
  <2>2. ToolTypes'
    BY <1>1, <2>1 DEF ToolTypes
  <2>3. Len(<<>>) = 0
    OBVIOUS
  <2>4. ToolLoops'
    BY <1>1, <2>1, <2>3, MCPAssumption DEF ToolLoops
  <2>5. ToolContextFits'
    BY <1>1, <2>1, FitsStays
  <2> QED BY <2>2, <2>4, <2>5 DEF ToolInv
<1>6. CASE MCP!RecordFailure \/ MCP!RecordSummaries
  <2>1. /\ mat' \in {"panicked", "done"}
        /\ UNCHANGED <<maxTokens, found, k, context, seen, summaries, tokens>>
    BY <1>6 DEF MCP!RecordFailure, MCP!RecordSummaries
  <2>2. ToolTypes' /\ ToolLoops'
    BY <1>1, <2>1 DEF ToolTypes, ToolLoops
  <2>3. ToolContextFits'
    BY <1>1, <2>1, FitsStays
  <2> QED BY <2>2, <2>3 DEF ToolInv
<1>7. CASE MCP!GetDocumentSummary
  <2> DEFINE d == DocumentOf[context[k]]
  <2>1. mat = "summarise" /\ k <= Len(context) /\ UNCHANGED <<maxTokens, mat, found, context>>
    BY <1>7 DEF MCP!GetDocumentSummary
  <2>2. k \in 1..Len(context) /\ Len(context) \in Nat /\ context[k] \in Chunks
        /\ context[k] \in ToSet(context)
    BY <1>1, <2>1 DEF ToolTypes, ToSet
  <2>3. CASE ~MCP!Unseen
    <3>1. k' = k + 1 /\ UNCHANGED <<seen, summaries, tokens>>
      BY <1>7, <2>3 DEF MCP!GetDocumentSummary
    <3>2. ToolTypes'
      BY <1>1, <2>1, <3>1 DEF ToolTypes
    <3>3. k <= Len(context) => Len(summaries) < MaxSummaries
      BY <1>1, <2>1 DEF ToolLoops
    <3>4. ToolLoops'
      BY <1>1, <2>1, <3>1, <3>3 DEF ToolLoops
    <3>5. ToolContextFits'
      BY <1>1, <2>1, <3>1, FitsStays
    <3> QED BY <3>2, <3>4, <3>5 DEF ToolInv
  <2>4. CASE MCP!Unseen
    <3>1. d # NoDocument /\ d \notin seen
      BY <2>4 DEF MCP!Unseen, MCP!Document
    <3>2. /\ seen' = seen \cup {d}
          /\ \/ /\ tokens + SummaryTokens[d] <= maxTokens
                /\ summaries' = Append(summaries, d) /\ tokens' = tokens + SummaryTokens[d]
             \/ UNCHANGED <<summaries, tokens>>
          /\ k' = IF Len(summaries') >= MaxSummaries THEN Len(context) + 1 ELSE k + 1
      BY <1>7, <2>4 DEF MCP!GetDocumentSummary, MCP!Document, MCP!Fits, MCP!EnoughSummaries
    <3>3. d \in Documents
      BY <2>2, <3>1, MCPAssumption
    <3>4. d \notin ToSet(summaries) /\ Len(summaries) < MaxSummaries
      BY <1>1, <2>1, <3>1 DEF ToolLoops
    <3>5. ToolContextFits'
      <4>1. CASE UNCHANGED <<summaries, tokens>>
        BY <1>1, <2>1, <4>1, FitsStays
      <4>2. CASE /\ tokens + SummaryTokens[d] <= maxTokens
                 /\ summaries' = Append(summaries, d) /\ tokens' = tokens + SummaryTokens[d]
        <5>1. d = DocumentOf[context[k]]
          OBVIOUS
        <5> HIDE DEF d
        <5> QED BY <1>1, <2>1, <2>2, <3>1, <3>3, <3>4, <4>2, <5>1, SummaryFits
      <4> QED BY <3>2, <4>1, <4>2
    <3> HIDE DEF d
    <3>6. summaries' \in Seq(Documents) /\ ToSet(summaries') \subseteq ToSet(summaries) \cup {d}
      <4>1. summaries \in Seq(Documents)
        BY <1>1 DEF ToolTypes
      <4>2. /\ Append(summaries, d) \in Seq(Documents)
            /\ ToSet(Append(summaries, d)) = ToSet(summaries) \cup {d}
        BY <3>3, <4>1, AppendOnce
      <4> QED BY <3>2, <4>1, <4>2
    <3>7. k' \in Nat \ {0} /\ Len(summaries') \in Nat
      BY <2>2, <3>2, <3>6
    <3>8. ToolTypes'
      BY <1>1, <2>1, <3>6, <3>7 DEF ToolTypes
    <3>9. k' <= Len(context) => Len(summaries') < MaxSummaries
      BY <2>2, <3>2, <3>7, MCPAssumption
    <3>10. ToolLoops'
      BY <1>1, <2>1, <3>2, <3>6, <3>9 DEF ToolLoops
    <3> QED BY <3>5, <3>8, <3>10 DEF ToolInv
  <2> QED BY <2>3, <2>4
<1>8. CASE UNCHANGED <<retrievalVars, vars, toolVars>>
  BY <1>2, <1>8
<1>9. CASE SourcesNext
  BY <1>2, <1>3, <1>4, <1>5, <1>6, <1>7, <1>9 DEF SourcesNext, MCP!Next
<1> QED BY <1>8, <1>9

\* What the tools' two loops count is what they added, within the limit; and there is
\* a summary at most for each document that was found, and not more than there may be
\* (RetrieveMCPContext).
THEOREM ToolContextAlwaysFits == SourcesSpec => []ToolContextFits
<1>1. ToolInv => ToolContextFits
  BY DEF ToolInv
<1> QED BY <1>1, ToolInit, ToolStep, PTL DEF SourcesSpec

-----------------------------------------------------------------------------
(* DocumentRetrieval: types *)

\* A slice sorted has the elements it had.
LEMMA DescendingIs ==
    ASSUME NEW E, NEW s \in Seq(E), NEW score, NEW o \in Descending(s, score)
    PROVE  o \in Seq(E) /\ ToSet(o) = ToSet(s) /\ (IsInjective(s) => IsInjective(o))
<1>1. o \in Orderings(s)
  BY DEF Descending
<1>2. PICK p \in SetToSeqs(DOMAIN s) : o = [x \in DOMAIN s |-> s[p[x]]]
  BY <1>1 DEF Orderings
<1> QED BY <1>2, Reordered

\* A set of chunks sorted is a list of them.
LEMMA SortedSet ==
    ASSUME NEW S \in SUBSET Chunks, NEW score, NEW o \in Descending(SetToSeq(S), score)
    PROVE  o \in Seq(Chunks) /\ ToSet(o) = S /\ IsInjective(o)
<1> DEFINE s == SetToSeq(S)
<1>1. s \in Seq(S) /\ IsInjective(s) /\ ToSet(s) = S
  BY ChunksFinite, SetListed
<1>2. s \in Seq(Chunks)
  BY <1>1
<1> HIDE DEF s
<1>3. o \in Descending(s, score)
  BY DEF s
<1> QED BY <1>1, <1>2, <1>3, DescendingIs

\* What the type invariant says of the retrieval alone.
RetrievalTypes ==
    /\ request \in Requests /\ fileBudget \in FileBudgets
    /\ at \in {"asked", "search", "files", "page", "tenant", "combine", "building",
               "result", "format", "done"}
    /\ hits \in Seq(Chunks)
    /\ file \in 1..(Len(request.selected) + 1)
    /\ page \in 1..MaxPages
    /\ ofFile \in Seq(Chunks) /\ fetched \in Seq(Chunks) /\ ranked \in Seq(Chunks)
    /\ fileTokens = SumTokens(ofFile) /\ fileTokens <= fileBudget
    /\ skipped \subseteq DOMAIN request.selected
    /\ taken \in 0..Len(ranked)
    /\ used \in Nat /\ written \in Nat
    /\ truncated \in BOOLEAN
    /\ answer \in {"none", "own prompt", "no context", "injected", "built", "error"}

\* Where a retrieval is before the prompt is begun.
BeforeFormat == {"asked", "search", "files", "page", "tenant", "combine", "building", "result"}

\* A file is fetched while there is one, from the first, and nothing is injected before the result.
RetrievalPlaces == /\ at = "page" => file <= Len(request.selected)
                   /\ at \in {"asked", "search", "files"} => file = 1
                   /\ at \in BeforeFormat => taken = 0

\* The invariant of the retrieval that the others rest on.
FetchInv == RetrievalTypes /\ RetrievalPlaces

\* A request selects files.
LEMMA SelectedFiles ==
    ASSUME request \in Requests
    PROVE  request.selected \in Seq(Files) /\ Len(request.selected) \in Nat
<1>1. request.selected \in Selections
  BY DEF Requests, RequestType
<1>2. request.selected \in Seq(Files)
  BY <1>1, LibraryAssumption
<1> QED BY <1>2

\* A sum of tokens is a number.
LEMMA TokensAreNat == \A s \in Seq(Chunks) : SumTokens(s) \in Nat
  BY ChunksAssumption, SumIsNat DEF SumTokens

\* A page holds chunks.
LEMMA PageHoldsChunks ==
    ASSUME NEW f \in Files, page \in Nat \ {0}
    PROVE  /\ ChunksOf[f] \in Seq(Chunks) /\ Len(ChunksOf[f]) \in Nat
           /\ PageOf(f) \in Seq(Chunks) /\ Len(PageOf(f)) \in Nat
<1>1. ChunksOf[f] \in Seq(Chunks)
  <2>1. KeepIn(Library, {c \in Chunks : FileOf[c] = f}) \in Seq(Chunks)
    BY LibraryAssumption, KeepIsSeq
  <2> QED BY <2>1 DEF ChunksOf
<1> DEFINE all == ChunksOf[f]
           from == (page - 1) * PageSize + 1
           to == Min({page * PageSize, Len(all)})
<1>2. all \in Seq(Chunks) /\ Len(all) \in Nat
  BY <1>1
<1> HIDE DEF all
<1>3. PageSize \in Nat /\ page * PageSize \in Nat /\ page - 1 \in Nat /\ (page - 1) * PageSize \in Nat
  BY LimitsAssumption
<1>4. to \in Nat /\ to <= Len(all)
  BY <1>2, <1>3, MinOfTwo
<1>5. from \in Nat \ {0}
  BY <1>3
<1>6. PageOf(f) = SubSeq(all, from, to)
  BY DEF PageOf, all
<1> HIDE DEF from, to
<1>7. SubSeq(all, from, to) \in Seq(Chunks)
  BY <1>2, <1>4, <1>5
<1> QED BY <1>1, <1>2, <1>6, <1>7 DEF all

\* What is kept of a page is a beginning of it that fits the file's budget.
LEMMA KeptFits ==
    ASSUME NEW s \in Seq(Chunks), fileTokens \in Nat, fileBudget \in Nat, fileTokens <= fileBudget
    PROVE  \E n \in 0..Len(s) :
              /\ KeptOf(s) = SubSeq(s, 1, n)
              /\ KeptOf(s) \in Seq(Chunks) /\ Len(KeptOf(s)) = n
              /\ \A j \in 0..n : fileTokens + SumTokens(SubSeq(s, 1, j)) <= fileBudget
              /\ n < Len(s) => fileTokens + SumTokens(SubSeq(s, 1, n + 1)) > fileBudget
<1> DEFINE fits(n) == fileTokens + SumTokens(SubSeq(s, 1, n)) <= fileBudget
           S == {n \in 0..Len(s) : \A j \in 0..n : fits(j)}
           n == Max(S)
<1>1. Len(s) \in Nat
  OBVIOUS
<1>2. KeptOf(s) = SubSeq(s, 1, n)
  BY DEF KeptOf
<1>3. fits(0)
  <2>1. SubSeq(s, 1, 0) = <<>>
    OBVIOUS
  <2>2. SumTokens(<<>>) = 0
    BY SumEmpty, ChunksAssumption DEF SumTokens
  <2>3. SumTokens(SubSeq(s, 1, 0)) = 0
    BY <2>1, <2>2
  <2>4. fileTokens + 0 <= fileBudget
    OBVIOUS
  <2> QED BY <2>3, <2>4
<1> HIDE DEF fits
<1>4. 0 \in S
  <2>1. \A j \in 0..0 : j = 0
    OBVIOUS
  <2> QED BY <1>1, <1>3, <2>1
<1>5. n \in S /\ \A x \in S : x <= n
  <2>1. S \in SUBSET (0..Len(s)) /\ S # {}
    BY <1>4
  <2> HIDE DEF S
  <2> QED BY <1>1, <2>1, BoundedMax
<1> HIDE DEF n
<1>6. n \in 0..Len(s) /\ \A j \in 0..n : fits(j)
  BY <1>5
<1>7. n < Len(s) => ~fits(n + 1)
  <2> SUFFICES ASSUME n < Len(s), fits(n + 1) PROVE FALSE
    OBVIOUS
  <2>1. n + 1 \in 0..Len(s) /\ \A j \in 0..(n + 1) : j \in 0..n \/ j = n + 1
    BY <1>6
  <2>2. n + 1 \in S
    BY <1>6, <2>1
  <2>3. n + 1 <= n
    BY <1>5, <2>2
  <2> QED BY <1>6, <2>3
<1>8. SubSeq(s, 1, n) \in Seq(Chunks) /\ Len(SubSeq(s, 1, n)) = n
  BY <1>6
<1>9. n < Len(s) => fileTokens + SumTokens(SubSeq(s, 1, n + 1)) > fileBudget
  <2> SUFFICES ASSUME n < Len(s) PROVE fileTokens + SumTokens(SubSeq(s, 1, n + 1)) > fileBudget
    OBVIOUS
  <2>1. SubSeq(s, 1, n + 1) \in Seq(Chunks)
    BY <1>6
  <2>2. SumTokens(SubSeq(s, 1, n + 1)) \in Nat
    BY <2>1, TokensAreNat
  <2> QED BY <1>7, <2>2 DEF fits
<1> QED BY <1>2, <1>6, <1>8, <1>9 DEF fits

\* The chunks sorted by document are the chunks there were.
LEMMA SortedByDocument ==
    ASSUME NEW s \in Seq(Chunks)
    PROVE  ByDocument(s) \in Seq(Chunks) /\ ToSet(ByDocument(s)) = ToSet(s)
<1> DEFINE seqs == [n \in DOMAIN Library |-> KeepIn(s, {Library[n]})]
<1>1. \A n \in DOMAIN Library : /\ KeepIn(s, {Library[n]}) \in Seq(Chunks)
                                /\ ToSet(KeepIn(s, {Library[n]})) = ToSet(s) \cap {Library[n]}
  BY KeepIsSeq, KeepSet
<1>2. Len(Library) \in Nat /\ DOMAIN Library = 1..Len(Library)
  BY LibraryAssumption
<1>3. seqs \in Seq(Seq(Chunks)) /\ DOMAIN seqs = DOMAIN Library
  <2>1. seqs \in [1..Len(Library) -> Seq(Chunks)]
    BY <1>1, <1>2
  <2> QED BY <1>2, <2>1
<1>4. ByDocument(s) = FlattenSeq(seqs)
  BY DEF ByDocument
<1>5. \A n \in DOMAIN Library : seqs[n] = KeepIn(s, {Library[n]})
  OBVIOUS
<1> HIDE DEF seqs
<1>6. /\ FlattenSeq(seqs) \in Seq(Chunks)
      /\ ToSet(FlattenSeq(seqs)) = UNION {ToSet(r) : r \in ToSet(seqs)}
  BY <1>3, FlattenElements
<1>7. UNION {ToSet(r) : r \in ToSet(seqs)} = ToSet(s)
  <2>1. ASSUME NEW r \in ToSet(seqs) PROVE ToSet(r) \subseteq ToSet(s)
    <3>1. PICK n \in DOMAIN Library : r = seqs[n]
      BY <1>3 DEF ToSet
    <3>2. r = KeepIn(s, {Library[n]})
      BY <1>5, <3>1
    <3>3. ToSet(r) = ToSet(s) \cap {Library[n]}
      BY <1>1, <3>2
    <3> QED BY <3>3
  <2>2. ASSUME NEW c \in ToSet(s) PROVE \E r \in ToSet(seqs) : c \in ToSet(r)
    <3>1. c \in Chunks
      BY DEF ToSet
    <3>2. PICK n \in DOMAIN Library : Library[n] = c
      BY <3>1, LibraryAssumption DEF ToSet
    <3>3. seqs[n] \in ToSet(seqs)
      BY <1>3 DEF ToSet
    <3>4. c \in ToSet(seqs[n])
      BY <1>1, <1>5, <3>2
    <3> QED BY <3>3, <3>4
  <2> QED BY <2>1, <2>2
<1> QED BY <1>4, <1>6, <1>7

\* The ranking of the two sources merged has every chunk of either, once.
LEMMA MergedOnce ==
    ASSUME hits \in Seq(Chunks), fetched \in Seq(Chunks), NEW o \in mergeAndRankChunks
    PROVE  o \in Seq(Chunks) /\ IsInjective(o) /\ ToSet(o) = ToSet(hits) \cup ToSet(fetched)
<1>1. Merged \in SUBSET Chunks /\ Merged = ToSet(hits) \cup ToSet(fetched)
  BY DEF Merged, ToSet
<1>2. o \in Descending(SetToSeq(Merged), [c \in Merged |-> MergedScore(c)])
  BY DEF mergeAndRankChunks
<1> QED BY <1>1, <1>2, SortedSet

\* What a step that leaves the retrieval alone leaves alone.
RetrievalStutters == UNCHANGED <<request, at, hits, fileBudget, file, page, ofFile, fileTokens,
                                 fetched, skipped, ranked, taken, used, written, truncated, answer>>

\* No step of the call changes who asked.
RetrievalActions ==
    \/ buildSystemPromptWithContext
    \/ RetrieveVectorContext
    \/ RetrieveFullDocuments
    \/ fetchChunksForFile
    \/ fetchAllChunksForTenant
    \/ Combine
    \/ Build
    \/ FormatContextForInjection
    \/ RetrievalStutters

\* Every step of the call is one of the retrieval's, or leaves the retrieval alone.
LEMMA RetrievalSteps == [SourcesNext]_<<retrievalVars, vars, toolVars>> => RetrievalActions
  BY DEF SourcesNext, RetrievalNext, RetrievalActions, RetrievalStutters, retrievalVars, fetch,
         injection

\* Four characters are a token, and up to three more are rounded away.
LEMMA Estimates ==
    ASSUME NEW n \in Nat
    PROVE  Estimate(n) \in Nat /\ n <= 4 * Estimate(n) + 3
  BY DEF Estimate

\* Before the first step nothing is fetched.
LEMMA FetchInit == SourcesInit => FetchInv
<1> SUFFICES ASSUME SourcesInit PROVE FetchInv
  OBVIOUS
<1>1. RetrievalIdle /\ fileBudget \in FileBudgets /\ at \in {"asked", "done"}
  BY DEF SourcesInit, RetrievalInit, NotAsked
<1>2. request \in Requests
  <2>1. CASE RetrievalInit
    BY <2>1 DEF RetrievalInit
  <2>2. CASE NotAsked
    <3>1. request \in RequestType
      BY <2>2, LibraryAssumption DEF NotAsked, RequestType, Strategies
    <3> QED BY <2>2, <3>1 DEF NotAsked, Requests
  <2> QED BY <2>1, <2>2 DEF SourcesInit
<1>3. SumTokens(<<>>) = 0 /\ fileBudget \in Nat
  BY <1>1, SumEmpty, ChunksAssumption, LimitsAssumption DEF SumTokens
<1>4. request.selected \in Seq(Files) /\ Len(request.selected) \in Nat
  BY <1>2, SelectedFiles
<1>5. 1 \in 1..MaxPages
  BY LimitsAssumption
<1>6. 0 \in 0..Len(<<>>) /\ <<>> \in Seq(Chunks)
  OBVIOUS
<1>7. RetrievalTypes
  <2>1. /\ hits = <<>> /\ file = 1 /\ page = 1 /\ ofFile = <<>> /\ fileTokens = 0 /\ fetched = <<>>
        /\ skipped = {} /\ ranked = <<>> /\ taken = 0 /\ used = 0 /\ written = 0 /\ truncated = FALSE
        /\ answer = "none"
    BY <1>1 DEF RetrievalIdle
  <2>2. fileTokens = SumTokens(ofFile) /\ fileTokens <= fileBudget
    BY <1>3, <2>1
  <2>3. file \in 1..(Len(request.selected) + 1) /\ skipped \subseteq DOMAIN request.selected
    BY <1>4, <2>1
  <2>4. taken \in 0..Len(ranked) /\ used \in Nat /\ written \in Nat /\ truncated \in BOOLEAN
    BY <1>6, <2>1
  <2> QED BY <1>1, <1>2, <1>5, <1>6, <2>1, <2>2, <2>3, <2>4 DEF RetrievalTypes
<1>8. RetrievalPlaces
  BY <1>1 DEF RetrievalPlaces, RetrievalIdle
<1> QED BY <1>7, <1>8 DEF FetchInv

\* The handlers' decision and the vector search keep the types.
LEMMA SearchTypes ==
    ASSUME FetchInv, buildSystemPromptWithContext \/ RetrieveVectorContext \/ RetrieveFullDocuments
           \/ RetrievalStutters
    PROVE  FetchInv'
<1>1. RetrievalTypes /\ RetrievalPlaces
  BY DEF FetchInv
<1>2. CASE buildSystemPromptWithContext
  <2>1. /\ at = "asked" /\ at' \in {"done", "files", "search"}
        /\ answer' \in {answer, "own prompt", "no context"}
        /\ UNCHANGED <<request, hits, fileBudget, file, page, ofFile, fileTokens, fetched, skipped,
                       ranked, taken, used, written, truncated>>
    BY <1>2 DEF buildSystemPromptWithContext, End, fetch, injection
  <2>2. RetrievalTypes'
    BY <1>1, <2>1 DEF RetrievalTypes
  <2>3. RetrievalPlaces'
    BY <1>1, <2>1 DEF RetrievalPlaces, BeforeFormat
  <2> QED BY <2>2, <2>3 DEF FetchInv
<1>3. CASE RetrieveVectorContext
  <2>1. /\ at = "search" /\ at' \in {"done", "files", "result"}
        /\ answer' \in {answer, "error", "no context"}
        /\ hits' \in Seq(Chunks) /\ ranked' \in {ranked, hits'}
        /\ UNCHANGED <<request, fileBudget, file, page, ofFile, fileTokens, fetched, skipped,
                       taken, used, written, truncated>>
    <3>1. /\ at = "search"
          /\ UNCHANGED <<request, fileBudget, file, page, ofFile, fileTokens, fetched, skipped,
                         taken, used, written, truncated>>
      BY <1>3 DEF RetrieveVectorContext, fetch, injection
    <3>2. CASE Fail /\ UNCHANGED <<hits, ranked>>
      BY <1>1, <3>1, <3>2 DEF Fail, End, RetrievalTypes
    <3>3. CASE ~(Fail /\ UNCHANGED <<hits, ranked>>)
      <4>1. PICK S \in SUBSET Indexed :
               hits' \in Descending(SetToSeq(S), [c \in S |-> Score[c]["vector"]])
        BY <1>3, <3>3 DEF RetrieveVectorContext
      <4>2. S \in SUBSET Chunks
        BY <4>1, LibraryAssumption
      <4>3. hits' \in Seq(Chunks)
        BY <4>1, <4>2, SortedSet
      <4>4. /\ answer' = answer
            /\ \/ at' = "files" /\ ranked' = ranked
               \/ at' = "result" /\ ranked' = hits'
        BY <1>3, <3>3 DEF RetrieveVectorContext
      <4> QED BY <3>1, <4>3, <4>4
    <3> QED BY <3>2, <3>3
  <2>2. taken' \in 0..Len(ranked')
    <3>1. taken = 0 /\ taken' = taken
      BY <1>1, <2>1 DEF RetrievalPlaces, BeforeFormat
    <3>2. ranked' \in Seq(Chunks)
      BY <1>1, <2>1 DEF RetrievalTypes
    <3>3. Len(ranked') \in Nat
      BY <3>2
    <3> QED BY <3>1, <3>3
  <2>3. RetrievalTypes'
    BY <1>1, <2>1, <2>2 DEF RetrievalTypes
  <2>4. RetrievalPlaces'
    BY <1>1, <2>1 DEF RetrievalPlaces, BeforeFormat
  <2> QED BY <2>3, <2>4 DEF FetchInv
<1>4. CASE RetrieveFullDocuments
  <2>1. /\ at = "files" /\ at' = IF request.selected = <<>> THEN "tenant" ELSE "page"
        /\ UNCHANGED <<request, hits, fileBudget, file, page, ofFile, fileTokens, fetched, skipped,
                       ranked, taken, used, written, truncated, answer>>
    BY <1>4 DEF RetrieveFullDocuments, fetch, injection
  <2>2. RetrievalTypes'
    BY <1>1, <2>1 DEF RetrievalTypes
  <2>3. file = 1 => (at' = "page" => file <= Len(request.selected))
    <3>1. request.selected \in Seq(Files)
      BY <1>1, SelectedFiles DEF RetrievalTypes
    <3>2. request.selected # <<>> => Len(request.selected) >= 1
      BY <3>1
    <3> QED BY <2>1, <3>2
  <2>4. RetrievalPlaces'
    BY <1>1, <2>1, <2>3 DEF RetrievalPlaces, BeforeFormat
  <2> QED BY <2>2, <2>4 DEF FetchInv
<1>5. CASE RetrievalStutters
  <2>1. RetrievalTypes'
    BY <1>1, <1>5 DEF RetrievalTypes, RetrievalStutters
  <2>2. RetrievalPlaces'
    BY <1>1, <1>5 DEF RetrievalPlaces, RetrievalStutters
  <2> QED BY <2>1, <2>2 DEF FetchInv
<1> QED BY <1>2, <1>3, <1>4, <1>5

\* One file's chunks are a sum of pages within its budget, and each is followed by
\* the next file or the end.
LEMMA PageTypes ==
    ASSUME FetchInv, fetchChunksForFile \/ fetchAllChunksForTenant
    PROVE  FetchInv'
<1>1. RetrievalTypes /\ RetrievalPlaces
  BY DEF FetchInv
<1>2. request.selected \in Seq(Files) /\ Len(request.selected) \in Nat /\ fileBudget \in Nat
  BY <1>1, SelectedFiles, LimitsAssumption DEF RetrievalTypes
<1>a. /\ file \in 1..(Len(request.selected) + 1) /\ page \in 1..MaxPages
      /\ fetched \in Seq(Chunks) /\ ofFile \in Seq(Chunks)
      /\ skipped \subseteq DOMAIN request.selected
  BY <1>1 DEF RetrievalTypes
<1>b. at = "page" => file <= Len(request.selected)
  BY <1>1 DEF RetrievalPlaces
<1>3. SumTokens(<<>>) = 0
  BY SumEmpty, ChunksAssumption DEF SumTokens
<1>4. ASSUME NEW s \in Seq(Chunks), at = "page", NextFile(s), skipped' \in {skipped, skipped \cup {file}},
             UNCHANGED <<request, hits, fileBudget, ranked, taken, used, written, truncated, answer>>
      PROVE  FetchInv'
  <2>1. /\ fetched' = fetched \o s /\ file' = file + 1 /\ page' = 1 /\ ofFile' = <<>> /\ fileTokens' = 0
        /\ at' = IF file = Len(request.selected) THEN "combine" ELSE "page"
    BY <1>4 DEF NextFile
  <2>2. fetched' \in Seq(Chunks)
    BY <1>a, <2>1
  <2>3. file \in 1..Len(request.selected) /\ DOMAIN request.selected = 1..Len(request.selected)
    BY <1>a, <1>b, <1>2, <1>4
  <2>4. file' \in 1..(Len(request.selected) + 1) /\ skipped' \subseteq DOMAIN request.selected
    BY <1>a, <1>2, <1>4, <2>1, <2>3
  <2>5. ofFile' \in Seq(Chunks) /\ fileTokens' = SumTokens(ofFile') /\ fileTokens' <= fileBudget
    BY <1>2, <1>3, <2>1
  <2>6. page' \in 1..MaxPages
    BY <2>1, LimitsAssumption
  <2>7. RetrievalTypes'
    BY <1>1, <1>4, <2>1, <2>2, <2>4, <2>5, <2>6 DEF RetrievalTypes
  <2>8. RetrievalPlaces'
    BY <1>1, <1>2, <1>4, <2>1, <2>3 DEF RetrievalPlaces, BeforeFormat
  <2> QED BY <2>7, <2>8 DEF FetchInv
<1>5. CASE fetchChunksForFile
  <2>1. /\ at = "page"
        /\ UNCHANGED <<request, hits, fileBudget, ranked, taken, used, written, truncated, answer>>
        /\ FetchPage(request.selected[file]) \/ FailedFile
    BY <1>5 DEF fetchChunksForFile, injection
  <2>2. CASE FailedFile
    <3>1. NextFile(<<>>) /\ skipped' = skipped \cup {file} /\ <<>> \in Seq(Chunks)
      BY <2>2 DEF FailedFile, OfFailedFile
    <3> QED BY <1>4, <2>1, <3>1
  <2>3. CASE FetchPage(request.selected[file])
    <3> DEFINE f == request.selected[file]
               got == PageOf(f)
    <3>1. f \in Files
      BY <1>a, <1>b, <1>2, <2>1
    <3>2. page \in Nat \ {0} /\ MaxPages \in Nat /\ page <= MaxPages
      BY <1>a, LimitsAssumption
    <3>3. PICK more \in {MoreAfter(f), TRUE} :
            /\ IF EndOfFile(got, more)
                 THEN NextFile(ofFile \o KeptOf(got))
                 ELSE /\ ofFile' = ofFile \o KeptOf(got)
                      /\ fileTokens' = fileTokens + SumTokens(KeptOf(got))
                      /\ page' = page + 1
                      /\ UNCHANGED <<at, fetched, file>>
            /\ UNCHANGED skipped
      BY <2>3 DEF FetchPage
    <3>4. got \in Seq(Chunks)
      BY <3>1, <3>2, PageHoldsChunks
    <3>5. ofFile \in Seq(Chunks) /\ fileTokens = SumTokens(ofFile) /\ fileTokens <= fileBudget
      BY <1>1 DEF RetrievalTypes
    <3>6. fileTokens \in Nat
      BY <3>5, TokensAreNat
    <3> HIDE DEF got, f
    <3>7. PICK n \in 0..Len(got) :
              /\ KeptOf(got) = SubSeq(got, 1, n)
              /\ KeptOf(got) \in Seq(Chunks) /\ Len(KeptOf(got)) = n
              /\ \A j \in 0..n : fileTokens + SumTokens(SubSeq(got, 1, j)) <= fileBudget
              /\ n < Len(got) => fileTokens + SumTokens(SubSeq(got, 1, n + 1)) > fileBudget
      BY <1>2, <3>4, <3>5, <3>6, KeptFits
    <3>8. n \in 0..n
      BY <3>4
    <3>9. fileTokens + SumTokens(KeptOf(got)) <= fileBudget
      BY <3>7, <3>8
    <3>10. ofFile \o KeptOf(got) \in Seq(Chunks)
      BY <3>5, <3>7
    <3>11. CASE EndOfFile(got, more)
      BY <1>4, <2>1, <3>3, <3>10, <3>11
    <3>12. CASE ~EndOfFile(got, more)
      <4>1. page # MaxPages
        BY <3>12 DEF EndOfFile
      <4>2. /\ ofFile' = ofFile \o KeptOf(got)
            /\ fileTokens' = fileTokens + SumTokens(KeptOf(got))
            /\ page' = page + 1
            /\ UNCHANGED <<at, fetched, file, skipped>>
        BY <3>3, <3>12
      <4>3. fileTokens' = SumTokens(ofFile')
        <5>1. \A s, u \in Seq(Chunks) : SumTokens(s \o u) = SumTokens(s) + SumTokens(u)
          BY SumConcat, ChunksAssumption DEF SumTokens
        <5>2. SumTokens(ofFile \o KeptOf(got)) = SumTokens(ofFile) + SumTokens(KeptOf(got))
          BY <3>5, <3>7, <5>1
        <5> QED BY <3>5, <4>2, <5>2
      <4>4. page' \in 1..MaxPages
        BY <3>2, <4>1, <4>2
      <4>5. RetrievalTypes'
        BY <1>1, <2>1, <3>9, <3>10, <4>2, <4>3, <4>4 DEF RetrievalTypes
      <4>6. RetrievalPlaces'
        BY <1>1, <2>1, <4>2 DEF RetrievalPlaces, BeforeFormat
      <4> QED BY <4>5, <4>6 DEF FetchInv
    <3> QED BY <3>11, <3>12
  <2> QED BY <2>1, <2>2, <2>3
<1>6. CASE fetchAllChunksForTenant
  <2>1. /\ at = "tenant"
        /\ UNCHANGED <<request, hits, fileBudget, file, page, ofFile, fileTokens, skipped, ranked,
                       taken, used, written, truncated>>
    BY <1>6 DEF fetchAllChunksForTenant, injection
  <2>2. /\ at' \in {"combine", "done"} /\ answer' \in {answer, "error", "no context"}
        /\ fetched' \in Seq(Chunks)
    <3>1. CASE Fail /\ UNCHANGED fetched
      BY <1>1, <3>1 DEF Fail, End, RetrievalTypes
    <3>2. CASE ~(Fail /\ UNCHANGED fetched)
      <4>1. PICK S \in SUBSET Chunks : fetched' = SetToSeq(S)
        BY <1>6, <3>2 DEF fetchAllChunksForTenant
      <4>2. SetToSeq(S) \in Seq(S)
        BY <4>1, ChunksFinite, SetListed
      <4>3. fetched' \in Seq(Chunks)
        BY <4>1, <4>2
      <4>4. at' = "combine" /\ answer' = answer
        BY <1>6, <3>2 DEF fetchAllChunksForTenant
      <4> QED BY <4>3, <4>4
    <3> QED BY <3>1, <3>2
  <2>3. RetrievalTypes'
    BY <1>1, <2>1, <2>2 DEF RetrievalTypes
  <2>4. RetrievalPlaces'
    BY <1>1, <2>1, <2>2 DEF RetrievalPlaces, BeforeFormat
  <2> QED BY <2>3, <2>4 DEF FetchInv
<1> QED BY <1>5, <1>6

\* The result is made of what was found, and the prompt of a beginning of it.
LEMMA ResultTypes ==
    ASSUME FetchInv, Combine \/ Build \/ FormatContextForInjection
    PROVE  FetchInv'
<1>1. RetrievalTypes /\ RetrievalPlaces
  BY DEF FetchInv
<1>2. CASE Combine
  <2>1. /\ at = "combine"
        /\ UNCHANGED <<request, hits, fileBudget, file, page, ofFile, fileTokens, fetched, skipped,
                       taken, used, written, truncated, answer>>
    BY <1>2 DEF Combine, fetch, injection
  <2>2. at' \in {"result", "building"} /\ ranked' \in Seq(Chunks)
    <3>1. CASE request.caller # "service"
      <4>1. at' = "result" /\ (ranked' = ByDocument(fetched) \/ ranked' \in mergeAndRankChunks)
        BY <1>2, <3>1 DEF Combine
      <4>2. hits \in Seq(Chunks) /\ fetched \in Seq(Chunks)
        BY <1>1 DEF RetrievalTypes
      <4>3. ByDocument(fetched) \in Seq(Chunks)
        BY <4>2, SortedByDocument
      <4>4. \A o \in mergeAndRankChunks : o \in Seq(Chunks)
        BY <4>2, MergedOnce
      <4> QED BY <4>1, <4>3, <4>4
    <3>2. CASE request.caller = "service"
      BY <1>1, <1>2, <3>2 DEF Combine, RetrievalTypes
    <3> QED BY <3>1, <3>2
  <2>3. taken' \in 0..Len(ranked')
    <3>1. taken = 0 /\ taken' = taken
      BY <1>1, <2>1 DEF RetrievalPlaces, BeforeFormat
    <3>2. Len(ranked') \in Nat
      BY <2>2
    <3> QED BY <3>1, <3>2
  <2>4. RetrievalTypes'
    BY <1>1, <2>1, <2>2, <2>3 DEF RetrievalTypes
  <2>5. RetrievalPlaces'
    BY <1>1, <2>1, <2>2 DEF RetrievalPlaces, BeforeFormat
  <2> QED BY <2>4, <2>5 DEF FetchInv
<1>3. CASE Build
  <2>1. /\ at = "building" /\ at' \in {"building", "done"} /\ answer' \in {answer, "built"}
        /\ UNCHANGED <<request, hits, fileBudget, file, page, ofFile, fileTokens, fetched, skipped,
                       ranked, taken, used, written, truncated>>
    BY <1>3 DEF Build, fetch, injection, End
  <2>2. RetrievalTypes'
    BY <1>1, <2>1 DEF RetrievalTypes
  <2>3. RetrievalPlaces'
    BY <1>1, <2>1 DEF RetrievalPlaces, BeforeFormat
  <2> QED BY <2>2, <2>3 DEF FetchInv
<1>4. CASE FormatContextForInjection
  <2>1. /\ at \in {"result", "format"} /\ at' \in {"format", "done"}
        /\ answer' \in {answer, "no context", "injected"} /\ truncated' \in {truncated, TRUE}
        /\ UNCHANGED <<request, hits, fileBudget, file, page, ofFile, fileTokens, fetched, skipped,
                       ranked>>
    BY <1>4 DEF FormatContextForInjection, StartFormat, FormatChunk, EndFormat, EndPrompt, fetch, injection, End
  <2>2. /\ ranked \in Seq(Chunks) /\ taken \in 0..Len(ranked) /\ Len(ranked) \in Nat
        /\ used \in Nat /\ written \in Nat
    <3>1. /\ ranked \in Seq(Chunks) /\ taken \in 0..Len(ranked)
          /\ used \in Nat /\ written \in Nat
      BY <1>1 DEF RetrievalTypes
    <3> QED BY <3>1
  <2>3. taken' \in 0..Len(ranked) /\ used' \in Nat /\ written' \in Nat
    <3>1. CASE StartFormat
      <4>1. HeaderLength \in Nat /\ Estimate(HeaderLength) \in Nat
        BY LengthsAssumption, Estimates
      <4> QED BY <2>2, <3>1, <4>1 DEF StartFormat
    <3>2. CASE FormatChunk
      <4> DEFINE c == ranked[taken + 1]
      <4>1. /\ taken < Len(ranked)
            /\ \/ UNCHANGED <<taken, used>> /\ written' = written + EndLength
               \/ /\ taken' = taken + 1 /\ used' = used + TokensOf[c]
                  /\ written' = written + Separator(c) + LengthOf[c] + 1
        BY <3>2 DEF FormatChunk, EndPrompt
      <4>2. c \in Chunks
        BY <2>2, <4>1
      <4>3. TokensOf[c] \in Nat /\ LengthOf[c] \in Nat /\ EndLength \in Nat
        BY <4>2, ChunksAssumption, LengthsAssumption
      <4>4. Separator(c) \in Nat
        BY LengthsAssumption DEF Separator
      <4> HIDE DEF c
      <4>5. written' \in Nat
        BY <2>2, <4>1, <4>3, <4>4
      <4> QED BY <2>2, <4>1, <4>3, <4>5
    <3>3. CASE EndFormat
      <4>1. EndLength \in Nat
        BY LengthsAssumption
      <4> QED BY <2>2, <3>3, <4>1 DEF EndFormat, EndPrompt
    <3> QED BY <1>4, <3>1, <3>2, <3>3 DEF FormatContextForInjection
  <2>4. RetrievalTypes'
    BY <1>1, <2>1, <2>3 DEF RetrievalTypes
  <2>5. RetrievalPlaces'
    BY <1>1, <2>1 DEF RetrievalPlaces, BeforeFormat
  <2> QED BY <2>4, <2>5 DEF FetchInv
<1> QED BY <1>2, <1>3, <1>4

\* The types of the retrieval, all the way.
LEMMA FetchStep == FetchInv /\ [SourcesNext]_<<retrievalVars, vars, toolVars>> => FetchInv'
<1> SUFFICES ASSUME FetchInv, [SourcesNext]_<<retrievalVars, vars, toolVars>> PROVE FetchInv'
  OBVIOUS
<1>1. RetrievalActions
  BY RetrievalSteps
<1> QED BY <1>1, SearchTypes, PageTypes, ResultTypes DEF RetrievalActions

-----------------------------------------------------------------------------
(* DocumentRetrieval: files page by page.  That a file is fetched from its    *)
(* beginning holds page by page, and of all files so far.                     *)

\* A file's first n pages.
FirstPages(f, n) == SubSeq(ChunksOf[f], 1, Min({n * PageSize, Len(ChunksOf[f])}))

\* A file's beginning, within a budget of tokens.
BeginningIn(f, budget) ==
    LET whole == ChunksOf[f]
        allowed(n) == n <= MaxPages * PageSize /\ SumTokens(SubSeq(whole, 1, n)) <= budget
    IN  SubSeq(whole, 1, Max({n \in 0..Len(whole) : allowed(n)}))

\* What the first n files of a selection add to what is fetched.
OfFirst(selection, failed, budget, n) ==
    FlattenSeq([j \in 1..n |-> IF j \in failed THEN <<>> ELSE BeginningIn(selection[j], budget)])

\* What has been added once the first n files are through.
FetchedFrom(n) == fetched = OfFirst(request.selected, skipped, fileBudget, n)

\* Where the pages and the files are.
PagesInv ==
    /\ at \in {"asked", "search", "files"} =>
          page = 1 /\ ofFile = <<>> /\ fetched = <<>> /\ skipped = {}
    /\ at = "search" => request.strategy # "full"
    /\ at = "tenant" => request.selected = <<>>
    /\ at = "page" => /\ ofFile = FirstPages(request.selected[file], page - 1)
                      /\ FetchedFrom(file - 1)
                      /\ skipped \subseteq 1..(file - 1)
    /\ at # "done" => answer = "none"
    /\ (at \in {"combine", "building", "result", "format"} \/ answer = "injected")
       /\ request.selected # <<>> /\ (request.strategy = "full" \/ request.strategy = "hybrid") =>
          FetchedFrom(Len(request.selected))

\* The numbers the pages are cut at.
LEMMA PageBounds ==
    ASSUME page \in 1..MaxPages
    PROVE  /\ page \in Nat /\ page - 1 \in Nat
           /\ (page - 1) * PageSize \in Nat /\ page * PageSize \in Nat
           /\ page * PageSize = (page - 1) * PageSize + PageSize /\ PageSize \in Nat \ {0}
           /\ page * PageSize <= MaxPages * PageSize /\ MaxPages * PageSize \in Nat
<1>1. PageSize \in Nat \ {0} /\ MaxPages \in Nat \ {0}
  BY LimitsAssumption
<1>2. \A x, y, z \in Nat : x * z \in Nat /\ (x + y) * z = x * z + y * z
  OBVIOUS
<1>3. /\ page \in Nat /\ page - 1 \in Nat /\ MaxPages - page \in Nat
      /\ page = (page - 1) + 1 /\ MaxPages = page + (MaxPages - page)
  BY <1>1
<1>4. page * PageSize = (page - 1) * PageSize + 1 * PageSize
  BY <1>1, <1>2, <1>3
<1>5. MaxPages * PageSize = page * PageSize + (MaxPages - page) * PageSize
  BY <1>1, <1>2, <1>3
<1>6. (MaxPages - page) * PageSize \in Nat /\ (page - 1) * PageSize \in Nat /\ page * PageSize \in Nat
  BY <1>1, <1>2, <1>3
<1>7. 1 * PageSize = PageSize
  BY <1>1
<1> QED BY <1>1, <1>3, <1>4, <1>5, <1>6, <1>7

\* The pages before a page and a part of it are a beginning of the file.
LEMMA PageJoins ==
    ASSUME NEW f \in Files, page \in 1..MaxPages, NEW n \in 0..Len(PageOf(f))
    PROVE  \E m \in 0..Len(ChunksOf[f]) :
              /\ FirstPages(f, page - 1) \o SubSeq(PageOf(f), 1, n) = SubSeq(ChunksOf[f], 1, m)
              /\ m <= MaxPages * PageSize
              /\ n < Len(PageOf(f)) =>
                    /\ m + 1 <= Len(ChunksOf[f])
                    /\ FirstPages(f, page - 1) \o SubSeq(PageOf(f), 1, n + 1)
                          = SubSeq(ChunksOf[f], 1, m + 1)
              /\ n = Len(PageOf(f)) =>
                    /\ SubSeq(ChunksOf[f], 1, m) = FirstPages(f, page)
                    /\ page * PageSize >= Len(ChunksOf[f]) => m = Len(ChunksOf[f])
                    /\ page = MaxPages => m = Len(ChunksOf[f]) \/ m = MaxPages * PageSize
                    /\ PageOf(f) = <<>> => m = Len(ChunksOf[f])
<1> DEFINE all == ChunksOf[f]
           L == Len(all)
           a == (page - 1) * PageSize
           b == page * PageSize
           lim == MaxPages * PageSize
           x == Min({a, L})
           y == Min({b, L})
           got == PageOf(f)
<1>1. all \in Seq(Chunks) /\ L \in Nat
  BY PageHoldsChunks, PageBounds
<1>2. /\ a \in Nat /\ b \in Nat /\ lim \in Nat /\ a < b /\ b <= lim
      /\ page = MaxPages => b = lim
  BY PageBounds
<1>3. x \in Nat /\ x <= a /\ x <= L /\ (x = a \/ x = L)
  BY <1>1, <1>2, MinOfTwo
<1>4. y \in Nat /\ y <= b /\ y <= L /\ (y = b \/ y = L)
  BY <1>1, <1>2, MinOfTwo
<1>5. /\ FirstPages(f, page - 1) = SubSeq(all, 1, x) /\ FirstPages(f, page) = SubSeq(all, 1, y)
      /\ got = SubSeq(all, a + 1, y)
  BY DEF FirstPages, PageOf
<1>6. /\ b >= L <=> page * PageSize >= Len(ChunksOf[f])
      /\ lim = MaxPages * PageSize /\ L = Len(ChunksOf[f]) /\ all = ChunksOf[f] /\ got = PageOf(f)
  OBVIOUS
<1> HIDE DEF a, b, lim, x, y, all, got
<1>7. L \in Nat /\ L = Len(all)
  BY <1>1
<1> HIDE DEF L
<1>8. n \in 0..Len(got) /\ Len(got) \in Nat
  <2>1. got \in Seq(Chunks)
    BY <1>6, PageHoldsChunks, PageBounds
  <2> QED BY <1>6, <2>1
<1>9. CASE x = L /\ a >= L
  <2>1. y = L
    BY <1>2, <1>3, <1>4, <1>7, <1>9
  <2>2. got = <<>> /\ Len(got) = 0
    BY <1>1, <1>2, <1>5, <1>7, <1>9, <2>1
  <2>3. n = 0
    BY <1>8, <2>2
  <2>4. SubSeq(all, 1, x) \o SubSeq(got, 1, n) = SubSeq(all, 1, L)
    BY <1>1, <1>7, <1>9, <2>2, <2>3
  <2>5. L \in 0..L /\ L <= lim
    BY <1>2, <1>4, <1>7, <2>1
  <2>6. ~(n < Len(PageOf(f)))
    BY <1>6, <1>7, <2>2, <2>3, <2>5
  <2> DEFINE m == L
  <2>7. m \in 0..Len(ChunksOf[f])
    BY <1>6, <1>7
  <2> WITNESS m \in 0..Len(ChunksOf[f])
  <2> QED BY <1>5, <1>6, <2>1, <2>4, <2>5, <2>6 DEF m
<1>10. CASE x = a /\ a < L
  <2>1. a \in 0..L /\ y \in a..L /\ a < y
    BY <1>2, <1>4, <1>7, <1>10
  <2>2. Len(got) = y - a
    BY <1>1, <1>2, <1>4, <1>5, <1>7, <2>1
  <2>3. \A d \in 0..(y - a) : SubSeq(all, 1, a) \o SubSeq(got, 1, d) = SubSeq(all, 1, a + d)
    BY <1>1, <1>5, <1>7, <2>1, SliceJoin
  <2> DEFINE m == a + n
  <2>4. m \in 0..L /\ m <= y /\ n \in 0..(y - a) /\ m <= lim
    BY <1>2, <1>4, <1>7, <1>8, <2>1, <2>2
  <2>5. SubSeq(all, 1, x) \o SubSeq(got, 1, n) = SubSeq(all, 1, m)
    BY <1>10, <2>3, <2>4
  <2>6. n < Len(got) => /\ m + 1 <= L
                        /\ SubSeq(all, 1, x) \o SubSeq(got, 1, n + 1) = SubSeq(all, 1, m + 1)
    <3> SUFFICES ASSUME n < Len(got)
                 PROVE  /\ m + 1 <= L
                        /\ SubSeq(all, 1, x) \o SubSeq(got, 1, n + 1) = SubSeq(all, 1, m + 1)
      OBVIOUS
    <3>1. n + 1 \in 0..(y - a) /\ a + (n + 1) = m + 1 /\ m + 1 <= L
      BY <1>2, <1>4, <1>7, <1>8, <2>1, <2>2
    <3>2. SubSeq(all, 1, a) \o SubSeq(got, 1, n + 1) = SubSeq(all, 1, a + (n + 1))
      BY <2>3, <3>1
    <3> QED BY <1>10, <3>1, <3>2
  <2>7. n = Len(got) => /\ m = y
                        /\ b >= L => m = L
                        /\ page = MaxPages => m = L \/ m = lim
                        /\ got = <<>> => m = L
    <3>1. got # <<>>
      BY <2>1, <2>2, <1>2, <1>4
    <3>2. n = Len(got) => m = y
      BY <1>2, <1>4, <2>2
    <3> QED BY <1>2, <1>4, <1>7, <3>1, <3>2
  <2> HIDE DEF m
  <2>8. m \in 0..Len(ChunksOf[f])
    BY <1>6, <2>4
  <2> WITNESS m \in 0..Len(ChunksOf[f])
  <2> QED BY <1>5, <1>6, <2>4, <2>5, <2>6, <2>7
<1>11. (x = L /\ a >= L) \/ (x = a /\ a < L)
  BY <1>2, <1>3, <1>7
<1> QED BY <1>9, <1>10, <1>11

\* A beginning that fits, and cannot be longer, is the longest.
LEMMA LongestBeginning ==
    ASSUME NEW f \in Files, page \in 1..MaxPages, NEW m \in 0..Len(ChunksOf[f]),
           fileBudget \in Nat,
           m <= MaxPages * PageSize, SumTokens(SubSeq(ChunksOf[f], 1, m)) <= fileBudget,
           \/ m = Len(ChunksOf[f])
           \/ m = MaxPages * PageSize
           \/ m + 1 <= Len(ChunksOf[f]) /\ SumTokens(SubSeq(ChunksOf[f], 1, m + 1)) > fileBudget
    PROVE  BeginningIn(f, fileBudget) = SubSeq(ChunksOf[f], 1, m)
<1> DEFINE all == ChunksOf[f]
           lim == MaxPages * PageSize
           allowed(n) == n <= lim /\ SumTokens(SubSeq(all, 1, n)) <= fileBudget
           S == {n \in 0..Len(all) : allowed(n)}
<1>1. all \in Seq(Chunks) /\ Len(all) \in Nat /\ lim \in Nat
  BY PageHoldsChunks, PageBounds
<1>2. BeginningIn(f, fileBudget) = SubSeq(all, 1, Max(S))
  BY DEF BeginningIn
<1>3. m \in 0..Len(all) /\ allowed(m)
  OBVIOUS
<1>4. ASSUME NEW n \in 0..Len(all), n > m PROVE ~allowed(n)
  <2>1. CASE m + 1 <= Len(all) /\ SumTokens(SubSeq(all, 1, m + 1)) > fileBudget
    <3>1. m + 1 \in 0..Len(all) /\ n \in (m + 1)..Len(all)
      BY <1>1, <1>3, <1>4, <2>1
    <3>2. SumTokens(SubSeq(all, 1, m + 1)) <= SumTokens(SubSeq(all, 1, n))
      <4> HIDE DEF all
      <4> QED BY <1>1, <3>1, PrefixGrows, ChunksAssumption DEF SumTokens
    <3>3. SubSeq(all, 1, n) \in Seq(Chunks) /\ SubSeq(all, 1, m + 1) \in Seq(Chunks)
      BY <1>1, <3>1
    <3>4. SumTokens(SubSeq(all, 1, m + 1)) \in Nat /\ SumTokens(SubSeq(all, 1, n)) \in Nat
      BY <3>3, TokensAreNat
    <3> DEFINE u == SumTokens(SubSeq(all, 1, m + 1))
               v == SumTokens(SubSeq(all, 1, n))
    <3>5. u > fileBudget /\ u <= v /\ u \in Nat /\ v \in Nat
      BY <2>1, <3>2, <3>4
    <3> HIDE DEF u, v
    <3>6. ~(v <= fileBudget)
      BY <3>5
    <3> QED BY <3>6 DEF v
  <2>2. CASE m = Len(all)
    BY <1>1, <1>4, <2>2
  <2>3. CASE m = lim
    BY <1>1, <1>4, <2>3
  <2> QED BY <2>1, <2>2, <2>3
<1>5. S \in SUBSET (0..Len(all)) /\ m \in S
  BY <1>3
<1>6. \A n \in S : n \in 0..Len(all) /\ ~(n > m)
  BY <1>4
<1> HIDE DEF S
<1>7. Max(S) \in S /\ \A n \in S : n <= Max(S)
  <2> DEFINE L == Len(all)
  <2>1. L \in Nat /\ S \in SUBSET (0..L) /\ S # {}
    BY <1>1, <1>5
  <2> HIDE DEF L
  <2> QED BY <2>1, BoundedMax
<1>8. Max(S) = m
  <2>1. m <= Max(S) /\ ~(Max(S) > m) /\ Max(S) \in 0..Len(all)
    BY <1>5, <1>6, <1>7
  <2> QED BY <1>1, <1>3, <2>1
<1> QED BY <1>2, <1>8

\* It is a sequence of chunks.
LEMMA BeginningHolds ==
    ASSUME NEW f \in Files, fileBudget \in Nat, page \in 1..MaxPages
    PROVE  /\ BeginningIn(f, fileBudget) \in Seq(Chunks)
           /\ \E m \in 0..Len(ChunksOf[f]) : BeginningIn(f, fileBudget) = SubSeq(ChunksOf[f], 1, m)
<1> DEFINE all == ChunksOf[f]
           lim == MaxPages * PageSize
           allowed(n) == n <= lim /\ SumTokens(SubSeq(all, 1, n)) <= fileBudget
           S == {n \in 0..Len(all) : allowed(n)}
<1>1. all \in Seq(Chunks) /\ Len(all) \in Nat /\ lim \in Nat
  BY PageHoldsChunks, PageBounds
<1>2. BeginningIn(f, fileBudget) = SubSeq(all, 1, Max(S))
  BY DEF BeginningIn
<1>3. 0 \in S
  <2>1. SubSeq(all, 1, 0) = <<>>
    BY <1>1
  <2>2. SumTokens(<<>>) = 0
    BY SumEmpty, ChunksAssumption DEF SumTokens
  <2>3. 0 <= fileBudget
    OBVIOUS
  <2>4. SumTokens(SubSeq(all, 1, 0)) <= fileBudget
    BY <2>1, <2>2, <2>3
  <2>5. 0 <= lim /\ 0 \in 0..Len(all)
    BY <1>1
  <2> QED BY <2>4, <2>5
<1>4. S \in SUBSET (0..Len(all)) /\ S # {}
  BY <1>3
<1> HIDE DEF S
<1>5. Max(S) \in 0..Len(all)
  <2> DEFINE L == Len(all)
  <2>1. L \in Nat /\ S \in SUBSET (0..L) /\ S # {}
    BY <1>1, <1>4
  <2> HIDE DEF L
  <2>2. Max(S) \in 0..L
    BY <2>1, BoundedMax
  <2> QED BY <2>2 DEF L
<1> HIDE DEF all
<1>6. SubSeq(all, 1, Max(S)) \in Seq(Chunks)
  BY <1>1, <1>5
<1> QED BY <1>2, <1>5, <1>6 DEF all

\* After no files nothing is fetched; one file more adds its beginning, or nothing if
\* it failed, and the files before it stay as they were.
LEMMA FilesJoin ==
    ASSUME request.selected \in Seq(Files), fileBudget \in Nat, page \in 1..MaxPages,
           NEW n \in 1..Len(request.selected), NEW S,
           S = skipped \/ S = skipped \cup {n}, skipped \subseteq 1..(n - 1)
    PROVE  OfFirst(request.selected, S, fileBudget, n)
              = OfFirst(request.selected, skipped, fileBudget, n - 1)
                \o (IF n \in S THEN <<>> ELSE BeginningIn(request.selected[n], fileBudget))
<1> DEFINE sel == request.selected
           item(U, j) == IF j \in U THEN <<>> ELSE BeginningIn(sel[j], fileBudget)
           before == [j \in 1..(n - 1) |-> item(skipped, j)]
           last == item(S, n)
<1>1. Len(sel) \in Nat /\ n \in Nat \ {0} /\ n <= Len(sel)
  OBVIOUS
<1>2. \A j \in 1..n : sel[j] \in Files
  BY <1>1
<1>3. \A j \in 1..n : BeginningIn(sel[j], fileBudget) \in Seq(Chunks)
  BY <1>2, BeginningHolds
<1>4. \A U : \A j \in 1..n : item(U, j) \in Seq(Chunks)
  <2> SUFFICES ASSUME NEW U, NEW j \in 1..n PROVE item(U, j) \in Seq(Chunks)
    OBVIOUS
  <2>1. BeginningIn(sel[j], fileBudget) \in Seq(Chunks) /\ <<>> \in Seq(Chunks)
    BY <1>3
  <2> QED BY <2>1
<1>5. \A j \in 1..(n - 1) : item(S, j) = item(skipped, j)
  <2> SUFFICES ASSUME NEW j \in 1..(n - 1) PROVE item(S, j) = item(skipped, j)
    OBVIOUS
  <2>1. j \in S <=> j \in skipped
    BY <1>1
  <2> QED BY <2>1
<1> HIDE DEF item
<1>6. before \in Seq(Seq(Chunks)) /\ Len(before) = n - 1
  <2>1. n - 1 \in Nat /\ \A j \in 1..(n - 1) : j \in 1..n
    BY <1>1
  <2>2. before \in [1..(n - 1) -> Seq(Chunks)]
    BY <1>4, <2>1
  <2> QED BY <2>1, <2>2
<1>7. last \in Seq(Chunks)
  BY <1>1, <1>4
<1>8. [j \in 1..n |-> item(S, j)] = Append(before, last)
  <2> DEFINE a == Append(before, last)
             b == [j \in 1..n |-> item(S, j)]
  <2>1. \A j \in 1..(n - 1) : before[j] = item(skipped, j)
    OBVIOUS
  <2>2. DOMAIN b = 1..n /\ \A j \in 1..n : b[j] = item(S, j)
    OBVIOUS
  <2> HIDE DEF before, last, b
  <2>3. a \in Seq(Seq(Chunks)) /\ Len(a) = n /\ a[n] = last /\ \A j \in 1..(n - 1) : a[j] = before[j]
    BY <1>1, <1>6, <1>7
  <2>4. DOMAIN a = 1..n /\ \A j \in 1..n : a[j] = b[j]
    <3>1. \A j \in 1..n : j = n \/ j \in 1..(n - 1)
      BY <1>1
    <3>2. b[n] = last
      BY <1>1, <2>2 DEF last
    <3>3. DOMAIN a = 1..n
      BY <2>3
    <3> HIDE DEF a
    <3> QED BY <1>5, <2>1, <2>2, <2>3, <3>1, <3>2, <3>3
  <2>5. a = b
    <3>1. b = [j \in 1..n |-> b[j]]
      BY DEF b
    <3> HIDE DEF a
    <3>2. a \in [1..n -> Seq(Chunks)]
      BY <2>3
    <3> QED BY <2>4, <3>1, <3>2
  <2> QED BY <2>5 DEF b
<1> HIDE DEF before, last
<1>9. FlattenSeq(Append(before, last)) = FlattenSeq(before) \o last
  BY <1>6, <1>7, FlattenAppend
<1>10. FlattenSeq([j \in 1..n |-> item(S, j)]) = FlattenSeq(before) \o last
  BY <1>8, <1>9
<1> QED BY <1>10 DEF before, last, item, OfFirst

\* At first there are no pages and no files.
LEMMA PagesInit == SourcesInit => PagesInv
  BY DEF SourcesInit, RetrievalInit, NotAsked, RetrievalIdle, PagesInv

\* No files add nothing, and no pages are nothing.
LEMMA NoneYet ==
    /\ \A selection, failed, budget : OfFirst(selection, failed, budget, 0) = <<>>
    /\ \A f \in Files : FirstPages(f, 0) = <<>>
<1>1. ASSUME NEW selection, NEW failed, NEW budget
      PROVE  OfFirst(selection, failed, budget, 0) = <<>>
  <2> DEFINE none == [j \in 1..0 |-> IF j \in failed THEN <<>> ELSE BeginningIn(selection[j], budget)]
  <2>1. none = <<>>
    OBVIOUS
  <2> QED BY <2>1, FlattenEmpty DEF OfFirst
<1>2. ASSUME NEW f \in Files PROVE FirstPages(f, 0) = <<>>
  <2> DEFINE all == ChunksOf[f]
             L == Len(all)
             m == Min({0 * PageSize, L})
  <2>1. 1 \in 1..MaxPages
    BY LimitsAssumption
  <2>2. all \in Seq(Chunks) /\ L \in Nat
    <3>1. KeepIn(Library, {c \in Chunks : FileOf[c] = f}) \in Seq(Chunks)
      BY LibraryAssumption, KeepIsSeq
    <3>2. all \in Seq(Chunks)
      BY <3>1 DEF ChunksOf
    <3> HIDE DEF all
    <3> QED BY <3>2
  <2>3. 0 * PageSize = 0
    BY LimitsAssumption
  <2>4. m = 0
    <3>1. L \in Nat /\ 0 \in Nat
      BY <2>2
    <3>2. m = Min({0, L})
      BY <2>3
    <3> HIDE DEF L, m
    <3>3. Min({0, L}) \in Nat /\ Min({0, L}) <= 0
      BY <3>1, MinOfTwo
    <3>4. \A x \in Nat : x <= 0 => x = 0
      OBVIOUS
    <3> QED BY <3>2, <3>3, <3>4
  <2> HIDE DEF all, m
  <2>5. SubSeq(all, 1, m) = <<>>
    BY <2>2, <2>4
  <2> QED BY <2>5 DEF FirstPages, all, m, L
<1> QED BY <1>1, <1>2

\* The next file starts from nothing, and the last one leaves all there is.
LEMMA FileEnds ==
    ASSUME FetchInv, PagesInv, at = "page", NEW s, NextFile(s),
           \/ skipped' = skipped \cup {file} /\ s = <<>>
           \/ skipped' = skipped /\ s = BeginningIn(request.selected[file], fileBudget),
           request' = request, fileBudget' = fileBudget, answer' = answer
    PROVE  PagesInv'
<1> DEFINE sel == request.selected
           f == sel[file]
<1>1. /\ sel \in Seq(Files) /\ Len(sel) \in Nat /\ file \in 1..Len(sel) /\ page \in 1..MaxPages
      /\ fileBudget \in Nat
  <2>1. /\ sel \in Seq(Files) /\ Len(sel) \in Nat
    BY SelectedFiles DEF FetchInv, RetrievalTypes
  <2>2. /\ file \in 1..(Len(sel) + 1) /\ file <= Len(sel) /\ page \in 1..MaxPages
        /\ fileBudget \in Nat
    BY LimitsAssumption DEF FetchInv, RetrievalTypes, RetrievalPlaces
  <2> QED BY <2>1, <2>2
<1>2. FetchedFrom(file - 1) /\ skipped \subseteq 1..(file - 1)
  BY DEF PagesInv
<1>3. /\ fetched' = fetched \o s /\ file' = file + 1 /\ page' = 1 /\ ofFile' = <<>>
      /\ at' = IF file = Len(sel) THEN "combine" ELSE "page"
  BY DEF NextFile
<1>4. s = IF file \in skipped' THEN <<>> ELSE BeginningIn(f, fileBudget)
  <2>1. file \notin skipped
    BY <1>1, <1>2
  <2> QED BY <2>1
<1>5. OfFirst(sel, skipped', fileBudget, file)
         = OfFirst(sel, skipped, fileBudget, file - 1) \o s
  BY <1>1, <1>2, <1>4, FilesJoin
<1>6. fetched' = OfFirst(sel, skipped', fileBudget, file)
  BY <1>2, <1>3, <1>5 DEF FetchedFrom
<1>7. skipped' \subseteq 1..file
  <2>1. skipped' \subseteq skipped \cup {file}
    OBVIOUS
  <2>2. 1..(file - 1) \subseteq 1..file /\ file \in 1..file
    BY <1>1
  <2> QED BY <1>2, <2>1, <2>2
<1>8. at' = "page" => /\ ofFile' = FirstPages(request'.selected[file'], page' - 1)
                      /\ fetched' = OfFirst(request'.selected, skipped', fileBudget', file' - 1)
                      /\ skipped' \subseteq 1..(file' - 1)
  <2> SUFFICES ASSUME at' = "page"
               PROVE  /\ ofFile' = FirstPages(request'.selected[file'], page' - 1)
                      /\ fetched' = OfFirst(request'.selected, skipped', fileBudget', file' - 1)
                      /\ skipped' \subseteq 1..(file' - 1)
    OBVIOUS
  <2>1. file' - 1 = file /\ page' - 1 = 0
    BY <1>1, <1>3
  <2>2. file' \in 1..Len(sel)
    BY <1>1, <1>3
  <2>3. sel[file'] \in Files
    BY <1>1, <2>2
  <2>4. FirstPages(request'.selected[file'], page' - 1) = <<>>
    BY <2>1, <2>3, NoneYet
  <2> QED BY <1>3, <1>6, <1>7, <2>1, <2>4
<1>9. at' = "combine" => fetched' = OfFirst(request'.selected, skipped', fileBudget', Len(request'.selected))
  BY <1>1, <1>3, <1>6
<1>10. at' \in {"page", "combine"}
  BY <1>3
<1>11. answer' = "none"
  BY DEF PagesInv
<1> QED BY <1>8, <1>9, <1>10, <1>11 DEF PagesInv, FetchedFrom

\* A file's end is its beginning; until then it has its first pages.
LEMMA PageStep ==
    ASSUME FetchInv, PagesInv, fetchChunksForFile
    PROVE  PagesInv'
<1> DEFINE f == request.selected[file]
           got == PageOf(f)
           all == ChunksOf[f]
<1>1. /\ at = "page"
      /\ UNCHANGED <<request, hits, fileBudget, ranked, taken, used, written, truncated, answer>>
      /\ FetchPage(f) \/ FailedFile
  BY DEF fetchChunksForFile, injection
<1>2. /\ f \in Files /\ page \in 1..MaxPages /\ fileBudget \in Nat
      /\ ofFile \in Seq(Chunks) /\ fileTokens = SumTokens(ofFile) /\ fileTokens <= fileBudget
  <2>1. request.selected \in Seq(Files) /\ Len(request.selected) \in Nat
    BY SelectedFiles DEF FetchInv, RetrievalTypes
  <2>2. /\ file \in 1..(Len(request.selected) + 1) /\ file <= Len(request.selected)
        /\ page \in 1..MaxPages
        /\ fileBudget \in Nat /\ ofFile \in Seq(Chunks) /\ fileTokens = SumTokens(ofFile)
        /\ fileTokens <= fileBudget
    BY <1>1, LimitsAssumption DEF FetchInv, RetrievalTypes, RetrievalPlaces
  <2>3. f \in Files
    BY <2>1, <2>2
  <2> QED BY <2>2, <2>3
<1>3. ofFile = FirstPages(f, page - 1)
  BY <1>1 DEF PagesInv
<1>4. CASE FailedFile
  <2>1. NextFile(<<>>) /\ skipped' = skipped \cup {file}
    BY <1>4 DEF FailedFile, OfFailedFile
  <2> QED BY <1>1, <2>1, FileEnds
<1>5. CASE FetchPage(f)
  <2>1. PICK more \in {MoreAfter(f), TRUE} :
          /\ IF EndOfFile(got, more)
               THEN NextFile(ofFile \o KeptOf(got))
               ELSE /\ ofFile' = ofFile \o KeptOf(got)
                    /\ fileTokens' = fileTokens + SumTokens(KeptOf(got))
                    /\ page' = page + 1
                    /\ UNCHANGED <<at, fetched, file>>
          /\ UNCHANGED skipped
    BY <1>5 DEF FetchPage
  <2>2. got \in Seq(Chunks) /\ Len(got) \in Nat /\ all \in Seq(Chunks) /\ Len(all) \in Nat
    <3>1. page \in Nat \ {0} /\ f \in Files
      BY <1>2
    <3>2. /\ ChunksOf[f] \in Seq(Chunks) /\ Len(ChunksOf[f]) \in Nat
          /\ PageOf(f) \in Seq(Chunks) /\ Len(PageOf(f)) \in Nat
      <4> HIDE DEF f
      <4> QED BY <3>1, PageHoldsChunks
    <3> QED BY <3>2
  <2>3. fileTokens \in Nat
    BY <1>2, TokensAreNat
  <2>4. ~more => page * PageSize >= Len(all)
    <3>1. page * PageSize \in Nat
      BY <1>2, PageBounds
    <3>2. ~more => ~(page * PageSize < Len(all))
      BY <2>1 DEF MoreAfter
    <3> QED BY <2>2, <3>1, <3>2
  <2>5. got = PageOf(f) /\ all = ChunksOf[f]
    OBVIOUS
  <2> HIDE DEF f, got, all
  <2>6. PICK n \in 0..Len(got) :
            /\ KeptOf(got) = SubSeq(got, 1, n)
            /\ KeptOf(got) \in Seq(Chunks) /\ Len(KeptOf(got)) = n
            /\ \A j \in 0..n : fileTokens + SumTokens(SubSeq(got, 1, j)) <= fileBudget
            /\ n < Len(got) => fileTokens + SumTokens(SubSeq(got, 1, n + 1)) > fileBudget
    BY <1>2, <2>2, <2>3, KeptFits
  <2>7. PICK m \in 0..Len(all) :
              /\ ofFile \o SubSeq(got, 1, n) = SubSeq(all, 1, m)
              /\ m <= MaxPages * PageSize
              /\ n < Len(got) => /\ m + 1 <= Len(all)
                                 /\ ofFile \o SubSeq(got, 1, n + 1) = SubSeq(all, 1, m + 1)
              /\ n = Len(got) => /\ SubSeq(all, 1, m) = FirstPages(f, page)
                                 /\ page * PageSize >= Len(all) => m = Len(all)
                                 /\ page = MaxPages => m = Len(all) \/ m = MaxPages * PageSize
                                 /\ got = <<>> => m = Len(all)
    BY <1>2, <1>3, <2>5, <2>6, PageJoins
  <2>8. \A s \in Seq(Chunks) : SumTokens(ofFile \o s) = fileTokens + SumTokens(s)
    <3>1. \A s, u \in Seq(Chunks) : SumTokens(s \o u) = SumTokens(s) + SumTokens(u)
      BY SumConcat, ChunksAssumption DEF SumTokens
    <3> QED BY <1>2, <3>1
  <2>9. CASE EndOfFile(got, more)
    <3>1. SumTokens(SubSeq(all, 1, m)) <= fileBudget
      <4>1. n \in 0..n
        BY <2>2
      <4>2. SumTokens(ofFile \o SubSeq(got, 1, n)) = fileTokens + SumTokens(SubSeq(got, 1, n))
        BY <2>6, <2>8
      <4>3. fileTokens + SumTokens(SubSeq(got, 1, n)) <= fileBudget
        BY <2>6, <4>1
      <4> QED BY <2>7, <4>2, <4>3
    <3>2. n < Len(got) => m + 1 <= Len(all) /\ SumTokens(SubSeq(all, 1, m + 1)) > fileBudget
      <4> SUFFICES ASSUME n < Len(got)
                   PROVE  m + 1 <= Len(all) /\ SumTokens(SubSeq(all, 1, m + 1)) > fileBudget
        OBVIOUS
      <4>1. SubSeq(got, 1, n + 1) \in Seq(Chunks)
        BY <2>2
      <4>2. SumTokens(ofFile \o SubSeq(got, 1, n + 1)) = fileTokens + SumTokens(SubSeq(got, 1, n + 1))
        BY <2>8, <4>1
      <4>3. fileTokens + SumTokens(SubSeq(got, 1, n + 1)) > fileBudget
        BY <2>6
      <4> QED BY <2>7, <4>2, <4>3
    <3>3. n = Len(got) => m = Len(all) \/ m = MaxPages * PageSize
      <4>1. n = Len(got) => ~more \/ got = <<>> \/ page = MaxPages
        BY <2>2, <2>6, <2>9 DEF EndOfFile
      <4> QED BY <2>4, <2>7, <4>1
    <3>4. n < Len(got) \/ n = Len(got)
      BY <2>2
    <3>5. BeginningIn(f, fileBudget) = SubSeq(all, 1, m)
      <4>1. \/ m = Len(ChunksOf[f]) \/ m = MaxPages * PageSize
            \/ m + 1 <= Len(ChunksOf[f]) /\ SumTokens(SubSeq(ChunksOf[f], 1, m + 1)) > fileBudget
        BY <2>5, <3>2, <3>3, <3>4
      <4> QED BY <1>2, <2>5, <2>7, <3>1, <4>1, LongestBeginning
    <3>6. NextFile(ofFile \o KeptOf(got)) /\ skipped' = skipped
          /\ ofFile \o KeptOf(got) = BeginningIn(f, fileBudget)
      BY <2>1, <2>6, <2>7, <2>9, <3>5
    <3> QED BY <1>1, <3>6, FileEnds DEF f
  <2>10. CASE ~EndOfFile(got, more)
    <3>1. /\ ofFile' = ofFile \o KeptOf(got) /\ page' = page + 1
          /\ UNCHANGED <<at, fetched, file, skipped>>
      BY <2>1, <2>10
    <3>2. n = Len(got)
      <4>1. ~(n < Len(got))
        BY <2>6, <2>10 DEF EndOfFile
      <4> QED BY <2>2, <4>1
    <3>3. ofFile' = FirstPages(f, page)
      BY <2>6, <2>7, <3>1, <3>2
    <3>4. page' - 1 = page
      BY <1>2, <3>1
    <3>5. ofFile' = FirstPages(request'.selected[file'], page' - 1)
      BY <1>1, <3>1, <3>3, <3>4 DEF f
    <3>6. /\ fetched' = OfFirst(request'.selected, skipped', fileBudget', file' - 1)
          /\ skipped' \subseteq 1..(file' - 1)
      BY <1>1, <3>1 DEF PagesInv, FetchedFrom
    <3>7. answer' = "none"
      BY <1>1 DEF PagesInv
    <3> QED BY <1>1, <3>1, <3>5, <3>6, <3>7 DEF PagesInv, FetchedFrom
  <2> QED BY <2>9, <2>10
<1> QED BY <1>1, <1>4, <1>5

\* Where the retrieval goes besides.
LEMMA OtherSteps ==
    ASSUME FetchInv, PagesInv,
           \/ buildSystemPromptWithContext \/ RetrieveVectorContext \/ RetrieveFullDocuments
           \/ fetchAllChunksForTenant \/ Combine \/ Build \/ FormatContextForInjection
           \/ RetrievalStutters
    PROVE  PagesInv'
<1>1. CASE RetrievalStutters
  BY <1>1 DEF RetrievalStutters, PagesInv, FetchedFrom
<1>2. CASE buildSystemPromptWithContext
  <2>1. /\ at = "asked"
        /\ \/ at' = "done" /\ answer' \in {"own prompt", "no context"}
           \/ at' = "files" /\ answer' = answer
           \/ at' = "search" /\ request.strategy # "full" /\ answer' = answer
        /\ UNCHANGED <<request, page, ofFile, fetched, skipped>>
    BY <1>2 DEF buildSystemPromptWithContext, End, fetch
  <2> QED BY <2>1 DEF PagesInv
<1>3. CASE RetrieveVectorContext
  <2>1. /\ at = "search"
        /\ \/ at' = "done" /\ answer' \in {"error", "no context"}
           \/ at' = "files" /\ answer' = answer
           \/ at' = "result" /\ request.strategy # "hybrid" /\ answer' = answer
        /\ UNCHANGED <<request, page, ofFile, fetched, skipped>>
    BY <1>3 DEF RetrieveVectorContext, Fail, End, fetch
  <2> QED BY <2>1 DEF PagesInv
<1>4. CASE RetrieveFullDocuments
  <2>1. /\ at = "files" /\ at' = IF request.selected = <<>> THEN "tenant" ELSE "page"
        /\ UNCHANGED <<request, fileBudget, file, page, ofFile, fetched, skipped, answer>>
    BY <1>4 DEF RetrieveFullDocuments, fetch
  <2>2. /\ file = 1 /\ page = 1 /\ ofFile = <<>> /\ fetched = <<>> /\ skipped = {} /\ answer = "none"
    BY <2>1 DEF PagesInv, FetchInv, RetrievalPlaces
  <2>3. CASE at' = "tenant"
    BY <2>1, <2>2, <2>3 DEF PagesInv
  <2>4. CASE at' = "page"
    <3>1. request.selected \in Seq(Files) /\ request.selected # <<>>
      BY <2>1, <2>4, SelectedFiles DEF FetchInv, RetrievalTypes
    <3>2. request.selected[1] \in Files
      BY <3>1
    <3>3. page - 1 = 0 /\ file - 1 = 0
      BY <2>2
    <3>4. FirstPages(request.selected[file], page - 1) = <<>>
      BY <2>2, <3>2, <3>3, NoneYet
    <3>5. OfFirst(request.selected, skipped, fileBudget, file - 1) = <<>>
      BY <3>3, NoneYet
    <3> QED BY <2>1, <2>2, <2>4, <3>4, <3>5 DEF PagesInv, FetchedFrom
  <2> QED BY <2>1, <2>3, <2>4
<1>5. CASE fetchAllChunksForTenant
  <2>1. /\ at = "tenant"
        /\ \/ at' = "combine" /\ answer' = answer
           \/ at' = "done" /\ answer' \in {"error", "no context"}
        /\ UNCHANGED request
    BY <1>5 DEF fetchAllChunksForTenant, Fail, End
  <2> QED BY <2>1 DEF PagesInv
<1>6. CASE Combine
  <2>1. /\ at = "combine" /\ at' \in {"result", "building"}
        /\ UNCHANGED <<request, fileBudget, fetched, skipped, answer>>
    BY <1>6 DEF Combine, fetch
  <2> QED BY <2>1 DEF PagesInv, FetchedFrom
<1>7. CASE Build
  <2>1. /\ at = "building"
        /\ \/ at' = "building" /\ answer' = answer
           \/ at' = "done" /\ answer' = "built"
        /\ UNCHANGED <<request, fileBudget, fetched, skipped>>
    BY <1>7 DEF Build, fetch, End
  <2> QED BY <2>1 DEF PagesInv, FetchedFrom
<1>8. CASE FormatContextForInjection
  <2>1. /\ at \in {"result", "format"}
        /\ \/ at' = "format" /\ answer' = answer
           \/ at' = "done" /\ answer' \in {"no context", "injected"}
        /\ UNCHANGED <<request, fileBudget, fetched, skipped>>
    BY <1>8 DEF FormatContextForInjection, StartFormat, FormatChunk, EndFormat, EndPrompt, fetch, End, PagesInv
  <2> QED BY <2>1 DEF PagesInv, FetchedFrom
<1> QED BY <1>1, <1>2, <1>3, <1>4, <1>5, <1>6, <1>7, <1>8

\* The pages' invariant is kept by every step.
LEMMA PagesStep == FetchInv /\ PagesInv /\ [SourcesNext]_<<retrievalVars, vars, toolVars>> => PagesInv'
<1> SUFFICES ASSUME FetchInv, PagesInv, [SourcesNext]_<<retrievalVars, vars, toolVars>> PROVE PagesInv'
  OBVIOUS
<1>1. RetrievalActions
  BY RetrievalSteps
<1> QED BY <1>1, PageStep, OtherSteps DEF RetrievalActions

\* What is fetched is what each file would give alone.
LEMMA PagesAreBeginnings == FetchInv /\ PagesInv => FilesAreIndependent
<1> SUFFICES ASSUME FetchInv, PagesInv,
                    at \in {"combine", "building", "result", "format"}, request.selected # <<>>,
                    request.strategy = "full" \/ request.strategy = "hybrid"
             PROVE  fetched = FlattenSeq([j \in DOMAIN request.selected |->
                                  IF j \in skipped THEN <<>> ELSE Beginning(request.selected[j])])
  BY DEF FilesAreIndependent
<1>1. request.selected \in Seq(Files)
  BY SelectedFiles DEF FetchInv, RetrievalTypes
<1>2. DOMAIN request.selected = 1..Len(request.selected)
  BY <1>1
<1>3. \A f : Beginning(f) = BeginningIn(f, fileBudget)
  BY DEF Beginning, BeginningIn
<1>4. fetched = OfFirst(request.selected, skipped, fileBudget, Len(request.selected))
  BY DEF PagesInv, FetchedFrom
<1> QED BY <1>2, <1>3, <1>4 DEF OfFirst

\* Whichever pages fail, and whatever a store says of more, every file is fetched from
\* its beginning for as long as its budget lasts, or not at all (fetchChunksForFile).
THEOREM FilesStayIndependent == SourcesSpec => []FilesAreIndependent
<1>1. SourcesInit => FetchInv /\ PagesInv
  BY FetchInit, PagesInit
<1>2. FetchInv /\ PagesInv /\ [SourcesNext]_<<retrievalVars, vars, toolVars>> => (FetchInv /\ PagesInv)'
  BY FetchStep, PagesStep
<1> QED BY <1>1, <1>2, PagesAreBeginnings, PTL DEF SourcesSpec

-----------------------------------------------------------------------------
(* DocumentRetrieval: the prompt *)

\* As long as a prompt may be before its end: four characters for each token counted,
\* what each estimate rounds away, a line end for each chunk, and a line for each
\* change of document.
Allowed == 4 * used + 3 * (taken + 1) + taken + Cardinality(Switches) * (SeparatorLength + 1)

\* What is found and ranked, how far into the ranking the prompt is, and its size.
PromptInv ==
    /\ request.strategy = "full" => hits = <<>>
    /\ at \in {"result", "format"} \/ answer = "injected" =>
          ToSet(hits) \cup ToSet(fetched) \subseteq ToSet(ranked)
    /\ at \in BeforeFormat \/ at = "format" => ~truncated
    /\ at = "format" \/ answer = "injected" => (taken > 0 => used <= MaxTokens)
    /\ at = "format" => written <= Allowed
    /\ answer = "injected" => written <= Allowed + EndLength
    /\ answer = "injected" /\ ~truncated => taken = Len(ranked)

\* Before the call there is nothing in the prompt.
LEMMA PromptInit == SourcesInit => PromptInv
<1> SUFFICES ASSUME SourcesInit PROVE PromptInv
  OBVIOUS
<1>1. RetrievalIdle /\ at \in {"asked", "done"}
  BY DEF SourcesInit, RetrievalInit, NotAsked
<1> QED BY <1>1 DEF RetrievalIdle, PromptInv

\* The ranking has all that was found.
LEMMA CombineKeepsAll ==
    ASSUME FetchInv, PromptInv, PagesInv, Combine
    PROVE  at' = "result" => ToSet(hits') \cup ToSet(fetched') \subseteq ToSet(ranked')
<1> SUFFICES ASSUME at' = "result"
             PROVE  ToSet(hits') \cup ToSet(fetched') \subseteq ToSet(ranked')
  OBVIOUS
<1>1. hits' = hits /\ fetched' = fetched
  BY DEF Combine, fetch
<1>2. hits \in Seq(Chunks) /\ fetched \in Seq(Chunks)
  BY DEF FetchInv, RetrievalTypes
<1>3. request.caller # "service"
  BY DEF Combine
<1>4. CASE request.strategy = "full"
  <2>1. ranked' = ByDocument(fetched)
    BY <1>3, <1>4 DEF Combine
  <2>2. ToSet(ByDocument(fetched)) = ToSet(fetched)
    BY <1>2, SortedByDocument
  <2>3. ToSet(hits) = {}
    BY <1>4 DEF PromptInv, ToSet
  <2> QED BY <1>1, <2>1, <2>2, <2>3
<1>5. CASE request.strategy # "full"
  <2>1. ranked' \in mergeAndRankChunks
    BY <1>3, <1>5 DEF Combine
  <2>2. ToSet(ranked') = ToSet(hits) \cup ToSet(fetched)
    BY <1>2, <2>1, MergedOnce
  <2> QED BY <1>1, <2>2
<1> QED BY <1>4, <1>5

\* The numbers of the chunks before which the document changes.
LEMMA SwitchesGrow ==
    ASSUME taken \in Nat, taken' = taken + 1, UNCHANGED ranked
    PROVE  LET c == ranked[taken + 1] IN
           /\ Cardinality(Switches) \in Nat /\ Cardinality(Switches') \in Nat
           /\ Cardinality(Switches') = IF taken = 0 \/ FileOf[c] # FileOf[ranked[taken]]
                                         THEN Cardinality(Switches) + 1
                                         ELSE Cardinality(Switches)
<1> DEFINE c == ranked[taken + 1]
           changes == taken = 0 \/ FileOf[c] # FileOf[ranked[taken]]
<1>1. IsFiniteSet(Switches)
  <2>1. IsFiniteSet(1..taken) /\ Switches \subseteq 1..taken
    BY FS_Interval DEF Switches
  <2> QED BY <2>1, FS_Subset
<1>2. taken + 1 \notin Switches
  BY DEF Switches
<1>3. Switches' = IF changes THEN Switches \cup {taken + 1} ELSE Switches
  <2>1. 1..(taken + 1) = (1..taken) \cup {taken + 1} /\ (taken + 1) - 1 = taken
        /\ (taken + 1 = 1 <=> taken = 0)
    OBVIOUS
  <2>2. Switches' = {m \in 1..(taken + 1) : m = 1 \/ FileOf[ranked[m]] # FileOf[ranked[m - 1]]}
    BY DEF Switches
  <2>3. changes <=> taken + 1 = 1 \/ FileOf[ranked[taken + 1]] # FileOf[ranked[(taken + 1) - 1]]
    BY <2>1
  <2> HIDE DEF changes
  <2> QED BY <2>1, <2>2, <2>3 DEF Switches
<1>4. Cardinality(Switches \cup {taken + 1}) = Cardinality(Switches) + 1
  BY <1>1, <1>2, FS_AddElement
<1>5. Cardinality(Switches) \in Nat
  BY <1>1, FS_CardinalityType
<1> HIDE DEF changes
<1>6. /\ Cardinality(Switches') \in Nat
      /\ Cardinality(Switches') = IF changes THEN Cardinality(Switches) + 1
                                 ELSE Cardinality(Switches)
  BY <1>3, <1>4, <1>5
<1> QED BY <1>5, <1>6 DEF changes

\* There are as many as a number.
LEMMA AllowedIsInt ==
    ASSUME taken \in Nat, used \in Nat
    PROVE  Allowed \in Int /\ Cardinality(Switches) \in Nat
<1>1. IsFiniteSet(1..taken) /\ Switches \subseteq 1..taken
  BY FS_Interval DEF Switches
<1>2. Cardinality(Switches) \in Nat
  BY <1>1, FS_Subset, FS_CardinalityType
<1> QED BY <1>2, LengthsAssumption DEF Allowed

\* A chunk, its line end and perhaps the line before it make the prompt no longer than
\* is allowed for.
LEMMA ChunkIsAllowed ==
    ASSUME FetchInv, taken < Len(ranked), written <= Allowed, UNCHANGED ranked,
           taken' = taken + 1, used' = used + TokensOf[ranked[taken + 1]],
           written' = written + Separator(ranked[taken + 1]) + LengthOf[ranked[taken + 1]] + 1
    PROVE  written' <= Allowed'
<1> DEFINE c == ranked[taken + 1]
           n == Cardinality(Switches)
           m == Cardinality(Switches')
           line == SeparatorLength + 1
<1>1. /\ ranked \in Seq(Chunks) /\ taken \in Nat /\ used \in Nat /\ written \in Nat
      /\ taken + 1 \in 1..Len(ranked)
  <2>1. ranked \in Seq(Chunks) /\ taken \in 0..Len(ranked) /\ used \in Nat /\ written \in Nat
    BY DEF FetchInv, RetrievalTypes
  <2> QED BY <2>1
<1>2. c \in Chunks
  BY <1>1
<1>3. /\ TokensOf[c] \in Nat /\ LengthOf[c] \in Nat /\ SeparatorLength \in Nat
      /\ LengthOf[c] <= 4 * TokensOf[c] + 3
  BY <1>2, ChunksAssumption, LengthsAssumption, Estimates
<1>4. /\ n \in Nat /\ m \in Nat
      /\ m = IF taken = 0 \/ FileOf[c] # FileOf[ranked[taken]] THEN n + 1 ELSE n
  BY <1>1, SwitchesGrow
<1>5. /\ Separator(c) \in Nat
      /\ \/ m = n + 1 /\ Separator(c) <= line
         \/ m = n /\ Separator(c) = 0
  BY <1>3, <1>4 DEF Separator
<1>6. /\ Allowed = 4 * used + 3 * (taken + 1) + taken + n * line
      /\ Allowed' = 4 * used' + 3 * (taken' + 1) + taken' + m * line
  BY DEF Allowed
<1> DEFINE x == TokensOf[c]
           y == LengthOf[c]
           z == Separator(c)
<1>7. /\ x \in Nat /\ y \in Nat /\ z \in Nat /\ line \in Nat /\ y <= 4 * x + 3
      /\ used' = used + x /\ written' = written + z + y + 1
  BY <1>3, <1>5
<1> HIDE DEF c, n, m, line, x, y, z
<1>8. n * line \in Nat /\ (n + 1) * line = n * line + line
  <2>1. \A a, b \in Nat : a * b \in Nat /\ (a + 1) * b = a * b + b
    OBVIOUS
  <2>2. n \in Nat /\ line \in Nat
    BY <1>4, <1>7
  <2> QED BY <2>1, <2>2
<1>9. m * line >= n * line + z
  <2>1. CASE m = n + 1 /\ z <= line
    BY <1>7, <1>8, <2>1
  <2>2. CASE m = n /\ z = 0
    BY <1>8, <2>2
  <2> QED BY <1>5, <2>1, <2>2 DEF z
<1> DEFINE p == n * line
           q == m * line
<1>10. p \in Nat /\ q \in Int /\ q >= p + z
  BY <1>4, <1>7, <1>8, <1>9
<1>11. /\ written <= 4 * used + 3 * (taken + 1) + taken + p
       /\ Allowed' = 4 * used' + 3 * (taken' + 1) + taken' + q
  BY <1>6
<1> HIDE DEF p, q
<1> QED BY <1>1, <1>7, <1>10, <1>11

\* The loop keeps to the limit, and to what may be written beside what it counts.
LEMMA ChunkIsCounted ==
    ASSUME FetchInv, PagesInv, PromptInv, FormatChunk
    PROVE  PromptInv'
<1>1. /\ at = "format" /\ taken < Len(ranked)
      /\ UNCHANGED <<request, hits, fetched, ranked>>
      /\ \/ /\ used + TokensOf[ranked[taken + 1]] <= MaxTokens
            /\ taken' = taken + 1 /\ used' = used + TokensOf[ranked[taken + 1]]
            /\ written' = written + Separator(ranked[taken + 1])
                          + LengthOf[ranked[taken + 1]] + 1
            /\ UNCHANGED <<at, answer, truncated>>
         \/ /\ truncated' = TRUE /\ at' = "done" /\ answer' = "injected"
            /\ written' = written + EndLength /\ UNCHANGED <<taken, used>>
  BY DEF FormatChunk, FitsPrompt, EndPrompt, End, fetch
<1>2. ranked \in Seq(Chunks) /\ taken \in 0..Len(ranked) /\ used \in Nat /\ written \in Nat
  BY DEF FetchInv, RetrievalTypes
<1>3. /\ request.strategy = "full" => hits = <<>>
      /\ ToSet(hits) \cup ToSet(fetched) \subseteq ToSet(ranked) /\ ~truncated
      /\ written <= Allowed /\ (taken > 0 => used <= MaxTokens)
  BY <1>1 DEF PromptInv
<1>4. answer = "none"
  BY <1>1 DEF PagesInv
<1>5. CASE answer' = answer
  <2>1. written' <= Allowed'
    BY <1>1, <1>3, <1>4, <1>5, ChunkIsAllowed
  <2>2. used' <= MaxTokens /\ ~truncated' /\ answer' # "injected"
    BY <1>1, <1>3, <1>4, <1>5
  <2> QED BY <1>1, <1>3, <2>1, <2>2 DEF PromptInv
<1>6. CASE answer' = "injected"
  <2>1. /\ UNCHANGED <<taken, used, ranked>> /\ at' = "done" /\ truncated'
        /\ written' = written + EndLength
    BY <1>1, <1>4, <1>6
  <2>2. Allowed' = Allowed
    BY <2>1 DEF Allowed, Switches
  <2>3. Allowed \in Int /\ EndLength \in Nat
    BY <1>2, AllowedIsInt, LengthsAssumption
  <2>4. written' <= Allowed' + EndLength
    BY <1>2, <1>3, <2>1, <2>2, <2>3
  <2> QED BY <1>1, <1>3, <2>1, <2>4 DEF PromptInv, BeforeFormat
<1> QED BY <1>1, <1>5, <1>6

\* The other steps on the way to a prompt.
LEMMA PromptStep ==
    FetchInv /\ PagesInv /\ PromptInv /\ [SourcesNext]_<<retrievalVars, vars, toolVars>> => PromptInv'
<1> SUFFICES ASSUME FetchInv, PagesInv, PromptInv, RetrievalActions PROVE PromptInv'
  BY RetrievalSteps
<1>1. CASE \/ buildSystemPromptWithContext \/ RetrieveFullDocuments \/ fetchChunksForFile
           \/ fetchAllChunksForTenant \/ Build
  <2>1. /\ at \in {"asked", "files", "page", "tenant", "building"}
        /\ at' \in {"done", "search", "files", "page", "tenant", "combine", "building"}
        /\ answer' \in {answer, "own prompt", "no context", "error", "built"}
        /\ UNCHANGED <<request, hits, truncated>>
    <3>1. CASE buildSystemPromptWithContext
      BY <3>1 DEF buildSystemPromptWithContext, End, injection
    <3>2. CASE RetrieveFullDocuments
      BY <3>2 DEF RetrieveFullDocuments, injection
    <3>3. CASE fetchChunksForFile
      <4>1. at' \in {"page", "combine"}
        BY <3>3 DEF fetchChunksForFile, FetchPage, FailedFile, NextFile
      <4> QED BY <3>3, <4>1 DEF fetchChunksForFile, injection
    <3>4. CASE fetchAllChunksForTenant
      BY <3>4 DEF fetchAllChunksForTenant, Fail, End, injection
    <3>5. CASE Build
      BY <3>5 DEF Build, End, injection
    <3> QED BY <1>1, <3>1, <3>2, <3>3, <3>4, <3>5
  <2>2. answer = "none"
    BY <2>1 DEF PagesInv
  <2>3. ~truncated'
    BY <2>1 DEF PromptInv, BeforeFormat
  <2>4. answer' # "injected" /\ at' \notin {"result", "format"}
    BY <2>1, <2>2
  <2> QED BY <2>1, <2>3, <2>4 DEF PromptInv
<1>2. CASE RetrieveVectorContext
  <2>1. /\ at = "search" /\ at' \in {"done", "files", "result"}
        /\ answer' \in {answer, "error", "no context"}
        /\ at' = "result" => ranked' = hits'
        /\ UNCHANGED <<request, fetched, truncated>>
    BY <1>2 DEF RetrieveVectorContext, Fail, End, fetch, injection
  <2>2. request.strategy # "full" /\ answer = "none" /\ fetched = <<>>
    BY <2>1 DEF PagesInv
  <2>3. ToSet(fetched) = {}
    BY <2>2 DEF ToSet
  <2>4. ~truncated' /\ answer' # "injected"
    BY <2>1, <2>2 DEF PromptInv, BeforeFormat
  <2> QED BY <2>1, <2>2, <2>3, <2>4 DEF PromptInv
<1>3. CASE Combine
  <2>1. /\ at = "combine" /\ at' \in {"result", "building"}
        /\ UNCHANGED <<request, hits, truncated, answer>>
    BY <1>3 DEF Combine, injection
  <2>2. answer = "none"
    BY <2>1 DEF PagesInv
  <2>3. at' = "result" => ToSet(hits') \cup ToSet(fetched') \subseteq ToSet(ranked')
    BY <1>3, CombineKeepsAll
  <2> QED BY <2>1, <2>2, <2>3 DEF PromptInv, BeforeFormat
<1>4. CASE StartFormat
  <2>1. /\ at = "result" /\ UNCHANGED <<request, hits, fetched, ranked, taken, truncated>>
        /\ \/ at' = "done" /\ answer' = "no context"
           \/ /\ at' = "format" /\ answer' = answer
              /\ used' = Estimate(HeaderLength) /\ written' = HeaderLength
    BY <1>4 DEF StartFormat, End, fetch
  <2>2. taken = 0 /\ answer = "none"
    BY <2>1 DEF PagesInv, FetchInv, RetrievalPlaces, BeforeFormat
  <2>3. ranked \in Seq(Chunks)
    BY DEF FetchInv, RetrievalTypes
  <2>4. at' = "format" => written' <= Allowed'
    <3> SUFFICES ASSUME at' = "format" PROVE written' <= Allowed'
      OBVIOUS
    <3>1. /\ HeaderLength \in Nat /\ Estimate(HeaderLength) \in Nat
          /\ HeaderLength <= 4 * Estimate(HeaderLength) + 3
      BY LengthsAssumption, Estimates
    <3>2. taken' = 0 /\ used' = Estimate(HeaderLength) /\ written' = HeaderLength
      BY <2>1, <2>2
    <3>3. Switches' = {}
      BY <3>2 DEF Switches
    <3>4. Allowed' = 4 * used' + 3 * (taken' + 1) + taken' + 0 * (SeparatorLength + 1)
      BY <3>3, FS_EmptySet DEF Allowed
    <3>5. SeparatorLength \in Nat
      BY LengthsAssumption
    <3> QED BY <3>1, <3>2, <3>4, <3>5
  <2>5. /\ request'.strategy = "full" => hits' = <<>>
        /\ ToSet(hits') \cup ToSet(fetched') \subseteq ToSet(ranked')
    BY <2>1 DEF PromptInv
  <2>6. answer' # "injected" /\ ~truncated' /\ ~(taken' > 0)
    <3>1. at \in BeforeFormat
      BY <2>1 DEF BeforeFormat
    <3>2. ~truncated
      BY <3>1 DEF PromptInv
    <3>3. taken' = 0
      BY <2>1, <2>2
    <3>4. ~(taken' > 0)
      BY <3>3
    <3>5. answer' # "injected"
      BY <2>1, <2>2
    <3> QED BY <2>1, <3>2, <3>4, <3>5
  <2> QED BY <2>1, <2>4, <2>5, <2>6 DEF PromptInv
<1>5. CASE FormatChunk
  BY <1>5, ChunkIsCounted
<1>6. CASE EndFormat
  <2>1. /\ at = "format" /\ taken = Len(ranked) /\ at' = "done" /\ answer' = "injected"
        /\ written' = written + EndLength
        /\ UNCHANGED <<request, hits, fetched, ranked, taken, used, truncated>>
    BY <1>6 DEF EndFormat, EndPrompt, End, fetch
  <2>2. written' <= Allowed' + EndLength
    <3>1. Allowed' = Allowed
      BY <2>1 DEF Allowed, Switches
    <3>2. taken \in Nat /\ used \in Nat /\ written \in Nat
      <4>1. /\ ranked \in Seq(Chunks) /\ taken \in 0..Len(ranked)
            /\ used \in Nat /\ written \in Nat
        BY DEF FetchInv, RetrievalTypes
      <4> QED BY <4>1
    <3>3. Allowed \in Int /\ EndLength \in Nat
      BY <3>2, AllowedIsInt, LengthsAssumption
    <3>4. written <= Allowed
      BY <2>1 DEF PromptInv
    <3> QED BY <2>1, <3>1, <3>2, <3>3, <3>4
  <2>3. /\ request'.strategy = "full" => hits' = <<>>
        /\ ToSet(hits') \cup ToSet(fetched') \subseteq ToSet(ranked')
        /\ taken' > 0 => used' <= MaxTokens
    BY <2>1 DEF PromptInv
  <2>4. taken' = Len(ranked') /\ at' = "done" /\ at' \notin BeforeFormat
    BY <2>1 DEF BeforeFormat
  <2> QED BY <2>2, <2>3, <2>4 DEF PromptInv
<1>7. CASE RetrievalStutters
  <2>1. Allowed' = Allowed
    BY <1>7 DEF RetrievalStutters, Allowed, Switches
  <2> QED BY <1>7, <2>1 DEF RetrievalStutters, PromptInv
<1> QED BY <1>1, <1>2, <1>3, <1>4, <1>5, <1>6, <1>7 DEF RetrievalActions, FormatContextForInjection

\* A prompt that is not called truncated is whole.
LEMMA PromptIsWhole == FetchInv /\ PromptInv => UncutMeansAll
<1> SUFFICES ASSUME FetchInv, PromptInv, answer = "injected", ~truncated
             PROVE  ToSet(hits) \cup ToSet(fetched) \subseteq Injected
  BY DEF UncutMeansAll
<1>1. ranked \in Seq(Chunks)
  BY DEF FetchInv, RetrievalTypes
<1>2. Injected = ToSet(ranked)
  BY <1>1 DEF PromptInv, Injected, ToSet
<1> QED BY <1>2 DEF PromptInv

\* If the prompt does not say it is truncated, every chunk that the search and the
\* files gave is in it (FormatContextForInjection after mergeAndRankChunks).
THEOREM UncutStaysAll == SourcesSpec => []UncutMeansAll
<1>1. SourcesInit => FetchInv /\ PagesInv /\ PromptInv
  BY FetchInit, PagesInit, PromptInit
<1>2. FetchInv /\ PagesInv /\ PromptInv /\ [SourcesNext]_<<retrievalVars, vars, toolVars>>
         => (FetchInv /\ PagesInv /\ PromptInv)'
  BY FetchStep, PagesStep, PromptStep
<1> QED BY <1>1, <1>2, PromptIsWhole, PTL DEF SourcesSpec

\* Whatever FormatContextForInjection writes and does not count, the prompt is over its
\* limit by no more than a line for each change of document, the line ends, the end,
\* and what the estimates round away.
THEOREM OverOnlyByLines == SourcesSpec => []OverByLinesOnly
<1>1. SourcesInit => FetchInv /\ PagesInv /\ PromptInv
  BY FetchInit, PagesInit, PromptInit
<1>2. FetchInv /\ PagesInv /\ PromptInv /\ [SourcesNext]_<<retrievalVars, vars, toolVars>>
         => (FetchInv /\ PagesInv /\ PromptInv)'
  BY FetchStep, PagesStep, PromptStep
<1>3. FetchInv /\ PromptInv => OverByLinesOnly
  <2> SUFFICES ASSUME FetchInv, PromptInv, answer = "injected", taken > 0
               PROVE  written <= 4 * MaxTokens + 3 * (taken + 1) + taken
                                 + Cardinality(Switches) * (SeparatorLength + 1) + EndLength
    BY DEF OverByLinesOnly
  <2> DEFINE lines == Cardinality(Switches) * (SeparatorLength + 1)
  <2>1. /\ used <= MaxTokens
        /\ written <= 4 * used + 3 * (taken + 1) + taken + lines + EndLength
    BY DEF PromptInv, Allowed
  <2>2. taken \in Nat /\ used \in Nat /\ written \in Nat
    <3>1. /\ ranked \in Seq(Chunks) /\ taken \in 0..Len(ranked)
          /\ used \in Nat /\ written \in Nat
      BY DEF FetchInv, RetrievalTypes
    <3> QED BY <3>1
  <2>3. lines \in Int /\ EndLength \in Nat /\ MaxTokens \in Nat
    BY <2>2, AllowedIsInt, LengthsAssumption, LimitsAssumption
  <2> HIDE DEF lines
  <2>4. written <= 4 * MaxTokens + 3 * (taken + 1) + taken + lines + EndLength
    BY <2>1, <2>2, <2>3
  <2> QED BY <2>4 DEF lines
<1> QED BY <1>1, <1>2, <1>3, PTL DEF SourcesSpec

-----------------------------------------------------------------------------
(* HybridContext: the steps of the builder, and its types *)

\* What the builder may do in a step.
BuilderActions ==
    \/ \E a \in SUBSET Chunks, b \in SUBSET Chunks, w \in SUBSET Chunks :
          w \subseteq b /\ BuildHybridContext(a, b, w)
    \/ scoreAllChunks
    \/ deduplicateByContent
    \/ TakeInTier \/ EndTier \/ EndTiers \/ Fill \/ EndFill \/ SortResult
    \/ UNCHANGED vars

\* Every step of the call is a step of the builder or leaves it alone.
LEMMA BuilderSteps ==
    ASSUME FetchInv, [SourcesNext]_<<retrievalVars, vars, toolVars>>
    PROVE  BuilderActions
<1>1. hits \in Seq(Chunks) /\ fetched \in Seq(Chunks)
  BY DEF FetchInv, RetrievalTypes
<1>2. CASE Combine
  <2> DEFINE w == {c \in Chunks : Times(c) > 1}
  <2>1. UNCHANGED vars \/ BuildHybridContext(ToSet(hits), ToSet(fetched), w)
    BY <1>2 DEF Combine
  <2>2. ToSet(hits) \in SUBSET Chunks /\ ToSet(fetched) \in SUBSET Chunks
    BY <1>1 DEF ToSet
  <2>3. ASSUME NEW c \in w PROVE c \in ToSet(fetched)
    <3> DEFINE kept == KeepIn(fetched, {c})
    <3>1. kept \in Seq(Chunks) /\ ToSet(kept) = ToSet(fetched) \cap {c} /\ Len(kept) > 1
      BY <1>1, KeepIsSeq, KeepSet DEF Times
    <3> HIDE DEF kept
    <3>2. kept[1] \in ToSet(kept)
      BY <3>1 DEF ToSet
    <3> QED BY <3>1, <3>2
  <2>4. w \in SUBSET Chunks /\ w \subseteq ToSet(fetched)
    BY <2>3
  <2> HIDE DEF w
  <2> QED BY <2>1, <2>2, <2>4 DEF BuilderActions
<1>3. CASE Build
  BY <1>3 DEF Build, Next, fitToTokenBudget, BuilderActions
<1>4. CASE ~(Combine \/ Build)
  <2>1. UNCHANGED vars
    BY <1>4 DEF SourcesNext, RetrievalNext, buildSystemPromptWithContext, RetrieveVectorContext,
                RetrieveFullDocuments, fetchChunksForFile, fetchAllChunksForTenant,
                FormatContextForInjection, StartFormat, FormatChunk, EndFormat
  <2> QED BY <2>1 DEF BuilderActions
<1> QED BY <1>2, <1>3, <1>4

\* What the tiers are made of.
LEMMA TiersAre ==
    /\ Len(Tiers) \in Nat /\ DOMAIN Tiers = 1..Len(Tiers)
    /\ \A u \in 1..Len(Tiers) : /\ Tiers[u].minScore \in Int /\ Tiers[u].tokens \in Nat
                               /\ Tiers[u].name \in TierNames
<1> DEFINE Tier == [name : TierNames, minScore : Int, tokens : Nat]
<1>1. Tiers \in Seq(Tier)
  BY TiersAssumption
<1>2. \A x \in Tier : x.minScore \in Int /\ x.tokens \in Nat /\ x.name \in TierNames
  OBVIOUS
<1> HIDE DEF Tier
<1>3. Len(Tiers) \in Nat /\ DOMAIN Tiers = 1..Len(Tiers) /\ \A u \in 1..Len(Tiers) : Tiers[u] \in Tier
  BY <1>1
<1> QED BY <1>2, <1>3

\* A chunk's tier is one of those there are.
LEMMA TierIsKnown == \A c : PriorityTier(c) \in TierNames \cup {"default"}
<1> SUFFICES ASSUME NEW c PROVE PriorityTier(c) \in TierNames \cup {"default"}
  OBVIOUS
<1> DEFINE n == Len(Tiers)
           reached == {u \in DOMAIN Tiers : CombinedScore(c) >= Tiers[u].minScore}
           up == [u \in 1..n |-> Tiers[u].minScore]
           down == [u \in 1..n |-> 0 - Tiers[u].minScore]
           best == CHOOSE u \in reached : \A v \in reached : Tiers[u].minScore >= Tiers[v].minScore
           least == CHOOSE u \in DOMAIN Tiers : \A v \in DOMAIN Tiers :
                                                   Tiers[v].minScore >= Tiers[u].minScore
<1>1. n \in Nat /\ DOMAIN Tiers = 1..n /\ \A u \in 1..n : Tiers[u].minScore \in Int
  BY TiersAre
<1>2. \A u \in DOMAIN Tiers : Tiers[u].name \in TierNames
  BY TiersAre
<1>3. PriorityTier(c) = IF Tiers = <<>> THEN "default"
                        ELSE IF reached # {} THEN Tiers[best].name ELSE Tiers[least].name
  BY DEF PriorityTier
<1>4. reached # {} => best \in DOMAIN Tiers
  <2> SUFFICES ASSUME reached # {} PROVE best \in DOMAIN Tiers
    OBVIOUS
  <2>1. reached \in SUBSET (1..n) /\ \A u \in reached : up[u] \in Int
    BY <1>1
  <2>2. \E u \in reached : \A v \in reached : up[u] >= up[v]
    <3> HIDE DEF reached, n, up
    <3> QED BY <1>1, <2>1, Highest
  <2>3. \E u \in reached : \A v \in reached : Tiers[u].minScore >= Tiers[v].minScore
    BY <1>1, <2>1, <2>2
  <2>4. best \in reached
    <3> HIDE DEF reached
    <3> QED BY <2>3
  <2> QED BY <1>1, <2>1, <2>4
<1>5. Tiers # <<>> => least \in DOMAIN Tiers
  <2> SUFFICES ASSUME Tiers # <<>> PROVE least \in DOMAIN Tiers
    OBVIOUS
  <2> DEFINE S == 1..n
  <2>1. S \in SUBSET (1..n) /\ S # {} /\ \A u \in S : down[u] \in Int
    <3>1. n >= 1
      BY TiersAssumption
    <3>2. 1 \in S
      BY <1>1, <3>1
    <3> QED BY <1>1, <3>2
  <2>2. \E u \in S : \A v \in S : down[u] >= down[v]
    <3> HIDE DEF S, n, down
    <3> QED BY <1>1, <2>1, Highest
  <2>3. \E u \in DOMAIN Tiers : \A v \in DOMAIN Tiers : Tiers[v].minScore >= Tiers[u].minScore
    <3>1. PICK u \in S : \A v \in S : down[u] >= down[v]
      BY <2>2
    <3>2. \A v \in 1..n : Tiers[v].minScore >= Tiers[u].minScore
      BY <1>1, <3>1
    <3> QED BY <1>1, <3>1, <3>2
  <2> QED BY <2>3
<1> HIDE DEF reached, best, least
<1> QED BY <1>2, <1>3, <1>4, <1>5

\* The tokens a tier may use are a number, and not more than there are left.
LEMMA TierBudgetIs ==
    ASSUME t \in 1..Len(Tiers), remaining \in Nat
    PROVE  TierBudget \in Nat /\ TierBudget <= remaining
<1>1. Tiers[t].tokens \in Nat
  BY TiersAre
<1> QED BY <1>1, MinOfTwo DEF TierBudget

-----------------------------------------------------------------------------
(* HybridContext: copies.  The loop's own invariant: what is kept of the      *)
(* first n chunks has each content once, at its best score so far.            *)

\* Of the first n chunks of s, each content is kept once, no worse than any copy was.
BestOf(kept, s, n) ==
    /\ kept \in Seq(Chunks)
    /\ \A p, q \in DOMAIN kept : p # q => Content[kept[p]] # Content[kept[q]]
    /\ \A p \in DOMAIN kept : \E j \in 1..n : kept[p] = s[j]
    /\ \A j \in 1..n : \E p \in DOMAIN kept : /\ Content[kept[p]] = Content[s[j]]
                                              /\ CombinedScore(kept[p]) >= CombinedScore(s[j])

\* A turn of the loop gives a list of chunks.
LEMMA BetterIsList == \A kept \in Seq(Chunks), c \in Chunks : KeepBetter(kept, c) \in Seq(Chunks)
<1> SUFFICES ASSUME NEW kept \in Seq(Chunks), NEW c \in Chunks PROVE KeepBetter(kept, c) \in Seq(Chunks)
  OBVIOUS
<1> DEFINE copies == {p \in DOMAIN kept : Content[kept[p]] = Content[c]}
           new == [p \in DOMAIN kept |->
                      IF p \in copies /\ CombinedScore(c) > CombinedScore(kept[p]) THEN c ELSE kept[p]]
<1>1. KeepBetter(kept, c) = IF copies = {} THEN Append(kept, c) ELSE new
  BY DEF KeepBetter
<1>2. Len(kept) \in Nat /\ DOMAIN kept = 1..Len(kept) /\ \A p \in DOMAIN kept : kept[p] \in Chunks
  OBVIOUS
<1>3. new \in [1..Len(kept) -> Chunks]
  BY <1>2
<1> HIDE DEF new, copies
<1>4. new \in Seq(Chunks)
  BY <1>2, <1>3
<1>5. Append(kept, c) \in Seq(Chunks)
  OBVIOUS
<1> QED BY <1>1, <1>4, <1>5

\* And what it keeps is still the best.
LEMMA BetterStays ==
    ASSUME NEW s \in Seq(Chunks), \A j \in 1..Len(s) : CombinedScore(s[j]) \in Int,
           NEW n \in 0..(Len(s) - 1), NEW kept, BestOf(kept, s, n)
    PROVE  BestOf(KeepBetter(kept, s[n + 1]), s, n + 1)
<1> DEFINE c == s[n + 1]
           score(x) == CombinedScore(x)
           copies == {p \in DOMAIN kept : Content[kept[p]] = Content[c]}
           new == [p \in DOMAIN kept |-> IF p \in copies /\ score(c) > score(kept[p]) THEN c ELSE kept[p]]
<1>1. KeepBetter(kept, c) = IF copies = {} THEN Append(kept, c) ELSE new
  BY DEF KeepBetter
<1>2. n + 1 \in 1..Len(s) /\ n \in Nat /\ c \in Chunks /\ Len(s) \in Nat
  OBVIOUS
<1>3. kept \in Seq(Chunks) /\ Len(kept) \in Nat /\ DOMAIN kept = 1..Len(kept)
  BY DEF BestOf
<1>4. \A p, q \in DOMAIN kept : p # q => Content[kept[p]] # Content[kept[q]]
  BY DEF BestOf
<1>5. \A p \in DOMAIN kept : \E j \in 1..n : kept[p] = s[j]
  BY DEF BestOf
<1>6. \A j \in 1..n : \E p \in DOMAIN kept : /\ Content[kept[p]] = Content[s[j]]
                                             /\ score(kept[p]) >= score(s[j])
  BY DEF BestOf
<1>7. \A j \in 1..(n + 1) : score(s[j]) \in Int /\ (j \in 1..n \/ j = n + 1)
  BY <1>2
<1>8. \A p \in DOMAIN kept : score(kept[p]) \in Int
  <2> HIDE DEF score
  <2> SUFFICES ASSUME NEW p \in DOMAIN kept PROVE score(kept[p]) \in Int
    OBVIOUS
  <2>1. PICK j \in 1..n : kept[p] = s[j]
    BY <1>5
  <2>2. j \in 1..(n + 1)
    BY <1>2
  <2> QED BY <1>7, <2>1, <2>2
<1>9. score(c) \in Int
  <2>1. n + 1 \in 1..(n + 1)
    BY <1>2
  <2> HIDE DEF score
  <2> QED BY <1>7, <2>1
<1>10. KeepBetter(kept, c) \in Seq(Chunks)
  BY <1>2, <1>3, BetterIsList
<1>11. c = s[n + 1] /\ \A p \in DOMAIN kept : p \in copies <=> Content[kept[p]] = Content[c]
  OBVIOUS
<1>12. /\ DOMAIN new = DOMAIN kept
       /\ \A p \in DOMAIN kept :
             new[p] = IF p \in copies /\ score(c) > score(kept[p]) THEN c ELSE kept[p]
  OBVIOUS
<1>13. copies \subseteq DOMAIN kept
  OBVIOUS
<1> HIDE DEF score, c, copies, new
<1>14. CASE copies = {}
  <2> DEFINE a == Append(kept, c)
             m == Len(kept)
  <2>1. /\ a \in Seq(Chunks) /\ DOMAIN a = 1..(m + 1) /\ a[m + 1] = c /\ m \in Nat
        /\ \A p \in 1..m : a[p] = kept[p]
        /\ \A p \in 1..(m + 1) : p \in 1..m \/ p = m + 1
    BY <1>2, <1>3 DEF c
  <2>2. DOMAIN kept = 1..m
    BY <1>3
  <2> HIDE DEF a, m
  <2>3. \A p \in 1..m : Content[a[p]] # Content[c]
    BY <1>11, <1>14, <2>1, <2>2
  <2>4. \A p, q \in DOMAIN a : p # q => Content[a[p]] # Content[a[q]]
    BY <1>4, <2>1, <2>2, <2>3
  <2>5. \A p \in DOMAIN a : \E j \in 1..(n + 1) : a[p] = s[j]
    <3> SUFFICES ASSUME NEW p \in DOMAIN a PROVE \E j \in 1..(n + 1) : a[p] = s[j]
      OBVIOUS
    <3>1. CASE p \in 1..m
      <4>1. PICK j \in 1..n : kept[p] = s[j]
        BY <1>5, <2>2, <3>1
      <4>2. j \in 1..(n + 1)
        BY <1>2
      <4> QED BY <2>1, <3>1, <4>1, <4>2
    <3>2. CASE p = m + 1
      <4>1. n + 1 \in 1..(n + 1)
        BY <1>2
      <4> QED BY <1>11, <2>1, <3>2, <4>1
    <3> QED BY <2>1, <3>1, <3>2
  <2>6. \A j \in 1..(n + 1) : \E p \in DOMAIN a : /\ Content[a[p]] = Content[s[j]]
                                                  /\ score(a[p]) >= score(s[j])
    <3> SUFFICES ASSUME NEW j \in 1..(n + 1)
                 PROVE  \E p \in DOMAIN a : Content[a[p]] = Content[s[j]] /\ score(a[p]) >= score(s[j])
      OBVIOUS
    <3>1. CASE j \in 1..n
      <4>1. PICK p \in DOMAIN kept : Content[kept[p]] = Content[s[j]] /\ score(kept[p]) >= score(s[j])
        BY <1>6, <3>1
      <4>2. p \in DOMAIN a /\ a[p] = kept[p]
        BY <2>1, <2>2
      <4> QED BY <4>1, <4>2
    <3>2. CASE j = n + 1
      <4>1. m + 1 \in DOMAIN a /\ a[m + 1] = s[j]
        BY <1>11, <2>1, <3>2
      <4>2. score(c) >= score(c)
        BY <1>9
      <4>3. score(a[m + 1]) >= score(s[j])
        BY <1>11, <2>1, <3>2, <4>2
      <4> QED BY <4>1, <4>3
    <3> QED BY <1>7, <3>1, <3>2
  <2>7. KeepBetter(kept, c) = a
    BY <1>1, <1>14 DEF a, new, score
  <2> QED BY <1>10, <1>11, <2>4, <2>5, <2>6, <2>7 DEF BestOf, score
<1>15. CASE copies # {}
  <2>1. \A p \in DOMAIN kept : /\ Content[new[p]] = Content[kept[p]]
                               /\ score(new[p]) >= score(kept[p])
                               /\ new[p] = c \/ new[p] = kept[p]
                               /\ p \in copies => score(new[p]) >= score(c)
    <3> SUFFICES ASSUME NEW p \in DOMAIN kept
                 PROVE  /\ Content[new[p]] = Content[kept[p]]
                        /\ score(new[p]) >= score(kept[p])
                        /\ new[p] = c \/ new[p] = kept[p]
                        /\ p \in copies => score(new[p]) >= score(c)
      OBVIOUS
    <3> DEFINE x == score(c)
               y == score(kept[p])
    <3>1. x \in Int /\ y \in Int
      BY <1>8, <1>9
    <3>2. CASE p \in copies /\ x > y
      <4>1. new[p] = c /\ Content[kept[p]] = Content[c]
        BY <1>11, <1>12, <3>2
      <4>2. x >= y /\ x >= x
        BY <3>1, <3>2
      <4> QED BY <4>1, <4>2
    <3>3. CASE ~(p \in copies /\ x > y)
      <4>1. new[p] = kept[p]
        BY <1>12, <3>3
      <4>2. y >= y /\ (p \in copies => y >= x)
        BY <3>1, <3>3
      <4> QED BY <4>1, <4>2
    <3> QED BY <3>2, <3>3
  <2>2. \A p, q \in DOMAIN new : p # q => Content[new[p]] # Content[new[q]]
    BY <1>4, <1>12, <2>1
  <2>3. \A p \in DOMAIN new : \E j \in 1..(n + 1) : new[p] = s[j]
    <3> SUFFICES ASSUME NEW p \in DOMAIN new PROVE \E j \in 1..(n + 1) : new[p] = s[j]
      OBVIOUS
    <3>1. PICK j \in 1..n : kept[p] = s[j]
      BY <1>5, <1>12
    <3>2. j \in 1..(n + 1) /\ n + 1 \in 1..(n + 1)
      BY <1>2
    <3>3. new[p] = s[n + 1] \/ new[p] = s[j]
      BY <1>11, <1>12, <2>1, <3>1
    <3> QED BY <3>2, <3>3
  <2>4. \A j \in 1..(n + 1) : \E p \in DOMAIN new : /\ Content[new[p]] = Content[s[j]]
                                                    /\ score(new[p]) >= score(s[j])
    <3> SUFFICES ASSUME NEW j \in 1..(n + 1)
                 PROVE  \E p \in DOMAIN new : Content[new[p]] = Content[s[j]]
                                              /\ score(new[p]) >= score(s[j])
      OBVIOUS
    <3>1. CASE j \in 1..n
      <4>1. PICK p \in DOMAIN kept : Content[kept[p]] = Content[s[j]] /\ score(kept[p]) >= score(s[j])
        BY <1>6, <3>1
      <4>2. Content[new[p]] = Content[s[j]] /\ score(new[p]) >= score(kept[p])
        BY <2>1, <4>1
      <4>3. score(new[p]) \in Int
        BY <1>8, <1>9, <2>1
      <4>4. score(new[p]) >= score(s[j])
        BY <1>7, <1>8, <4>1, <4>2, <4>3
      <4> QED BY <1>12, <4>2, <4>4
    <3>2. CASE j = n + 1
      <4>1. PICK p \in copies : TRUE
        BY <1>15
      <4>2. p \in DOMAIN kept /\ Content[kept[p]] = Content[c]
        BY <1>11, <1>13
      <4>3. Content[new[p]] = Content[c] /\ score(new[p]) >= score(c)
        BY <2>1, <4>1, <4>2
      <4> QED BY <1>11, <1>12, <3>2, <4>2, <4>3
    <3> QED BY <1>7, <3>1, <3>2
  <2>5. KeepBetter(kept, c) = new
    BY <1>1, <1>15 DEF new, score
  <2> QED BY <1>10, <1>11, <2>2, <2>3, <2>4, <2>5 DEF BestOf, score
<1> QED BY <1>14, <1>15

\* The fold that drops copies goes from one chunk to the next.
LEMMA BetterIsStepped ==
    ASSUME NEW s \in Seq(Chunks)
    PROVE  \E h : /\ FoldLeft(KeepBetter, <<>>, s) = h[Len(s)]
                  /\ h[0] = <<>>
                  /\ \A n \in 1..Len(s) : h[n] = KeepBetter(h[n - 1], s[n])
<1> DEFINE n == Len(s)
           F == [p \in 1..n |-> [a \in Seq(Chunks) |-> KeepBetter(a, s[p])]]
           D == DOMAIN s
           iter == CHOOSE f : f = [S \in SUBSET D |->
                      IF S = {} THEN <<>> ELSE KeepBetter(f[S \ {Max(S)}], s[Max(S)])]
<1>1. n \in Nat /\ D = 1..n /\ \A p \in 1..n : s[p] \in Chunks
  OBVIOUS
<1>2. FoldLeft(KeepBetter, <<>>, s) = iter[D]
  BY DEF FoldLeft, MapThenFoldSet
<1>3. iter = [S \in SUBSET D |-> IF S = {} THEN <<>> ELSE KeepBetter(iter[S \ {Max(S)}], s[Max(S)])]
  <2>1. F \in [1..n -> [Seq(Chunks) -> Seq(Chunks)]]
    BY <1>1, BetterIsList
  <2>2. PICK f \in [SUBSET (1..n) -> Seq(Chunks)] : IsFold(<<>>, n, F, f)
    <3>1. <<>> \in Seq(Chunks)
      OBVIOUS
    <3> HIDE DEF F, n
    <3> QED BY <1>1, <2>1, <3>1, FoldExists
  <2>3. ASSUME NEW S \in SUBSET D, S # {}
        PROVE  F[Max(S)][f[S \ {Max(S)}]] = KeepBetter(f[S \ {Max(S)}], s[Max(S)])
    <3>1. Max(S) \in 1..n
      <4>1. S \in SUBSET (0..n)
        BY <1>1
      <4> QED BY <1>1, <2>3, <4>1, BoundedMax
    <3>2. f[S \ {Max(S)}] \in Seq(Chunks)
      BY <1>1, <2>2
    <3> QED BY <3>1, <3>2
  <2>4. f = [S \in SUBSET D |-> IF S = {} THEN <<>> ELSE KeepBetter(f[S \ {Max(S)}], s[Max(S)])]
    <3> HIDE DEF F, n
    <3> QED BY <1>1, <2>2, <2>3 DEF IsFold
  <2> HIDE DEF D
  <2> QED BY <2>4
<1> HIDE DEF iter
<1> DEFINE h == [p \in 0..n |-> iter[1..p]]
<1>4. \A p \in 1..n : iter[1..p] = KeepBetter(iter[1..(p - 1)], s[p])
  <2> SUFFICES ASSUME NEW p \in 1..n PROVE iter[1..p] = KeepBetter(iter[1..(p - 1)], s[p])
    OBVIOUS
  <2>1. 1..p \in SUBSET D /\ 1..p # {} /\ 1..p \in SUBSET (0..n)
    <3>1. 1..p \in SUBSET D /\ 1..p \in SUBSET (0..n)
      BY <1>1
    <3>2. p \in 1..p
      BY <1>1
    <3> QED BY <3>1, <3>2
  <2>2. Max(1..p) = p
    <3>1. Max(1..p) \in 1..p /\ \A x \in 1..p : x <= Max(1..p)
      BY <1>1, <2>1, BoundedMax
    <3> QED BY <3>1
  <2>3. (1..p) \ {p} = 1..(p - 1)
    OBVIOUS
  <2> QED BY <1>3, <2>1, <2>2, <2>3
<1>5. iter[1..0] = <<>>
  <2>1. 1..0 = {} /\ {} \in SUBSET D
    OBVIOUS
  <2> QED BY <1>3, <2>1
<1>6. \A p \in 1..n : p \in 0..n /\ p - 1 \in 0..n
  BY <1>1
<1>7. n \in 0..n /\ 0 \in 0..n
  BY <1>1
<1>8. /\ FoldLeft(KeepBetter, <<>>, s) = h[n] /\ h[0] = <<>>
      /\ \A p \in 1..n : h[p] = KeepBetter(h[p - 1], s[p])
  BY <1>1, <1>2, <1>4, <1>5, <1>6, <1>7
<1> HIDE DEF h
<1> QED BY <1>8

\* What the loop leaves is the best of every content, once.
LEMMA CopiesDropped ==
    ASSUME NEW s \in Seq(Chunks), \A j \in 1..Len(s) : CombinedScore(s[j]) \in Int
    PROVE  BestOf(FoldLeft(KeepBetter, <<>>, s), s, Len(s))
<1>1. PICK h : /\ FoldLeft(KeepBetter, <<>>, s) = h[Len(s)] /\ h[0] = <<>>
               /\ \A n \in 1..Len(s) : h[n] = KeepBetter(h[n - 1], s[n])
  BY BetterIsStepped
<1> DEFINE U == {n \in Nat : n <= Len(s) => BestOf(h[n], s, n)}
<1>2. 0 \in U
  <2>1. BestOf(<<>>, s, 0)
    BY DEF BestOf
  <2> QED BY <1>1, <2>1
<1>3. ASSUME NEW n \in Nat, n \in U PROVE n + 1 \in U
  <2> SUFFICES ASSUME n + 1 <= Len(s) PROVE BestOf(h[n + 1], s, n + 1)
    OBVIOUS
  <2>1. n + 1 \in 1..Len(s) /\ (n + 1) - 1 = n /\ n <= Len(s) /\ n \in 0..(Len(s) - 1)
    OBVIOUS
  <2>2. BestOf(h[n], s, n)
    BY <1>3, <2>1
  <2>3. h[n + 1] = KeepBetter(h[n], s[n + 1])
    BY <1>1, <2>1
  <2>4. BestOf(KeepBetter(h[n], s[n + 1]), s, n + 1)
    BY <2>1, <2>2, BetterStays
  <2> QED BY <2>3, <2>4
<1>4. \A n \in Nat : n \in U
  <2> HIDE DEF U
  <2> QED BY <1>2, <1>3, SetInduction
<1>5. Len(s) \in Nat
  OBVIOUS
<1> QED BY <1>1, <1>4, <1>5

-----------------------------------------------------------------------------
(* HybridContext: types.  A tier's room is not negative because what a tier   *)
(* uses stays within what remains, which the type invariant does not say.     *)

\* Where the builder's loops are, and how much of the budget they have used.
BuilderPlaces ==
    /\ step \in {"waiting", "score"} => list = <<>>
    /\ step \in {"waiting", "score", "deduplicate"} =>
          /\ t = 1 /\ i = 1 /\ result = <<>> /\ remaining = 0 /\ tierUsed = 0
          /\ \A n \in TierNames \cup {"default"} : tierBreakdown[n] = 0
    /\ step \in {"tiers", "fill", "sort"} => config.tokenBudget > 0
    /\ step = "tiers" /\ t > Len(Tiers) => i = 1 /\ tierUsed = 0
    /\ step # "tiers" => tierUsed = 0
    /\ tierUsed <= remaining

\* The invariant of the builder that the others rest on.
BuilderTypes == TypeOK /\ BuilderPlaces

\* Before the call.
LEMMA BuilderInit == SourcesInit => BuilderTypes
<1> SUFFICES ASSUME Init PROVE BuilderTypes
  BY DEF SourcesInit, RetrievalInit, NotAsked
<1>1. Len(Tiers) \in Nat /\ Len(<<>>) = 0 /\ <<>> \in Seq(Chunks)
  BY TiersAre
<1>2. t \in 1..(Len(Tiers) + 1) /\ i \in 1..(Len(list) + 1)
  BY <1>1 DEF Init
<1>3. tierBreakdown \in [TierNames \cup {"default"} -> Nat]
  BY DEF Init
<1>4. TypeOK
  BY <1>1, <1>2, <1>3 DEF Init, TypeOK
<1>5. BuilderPlaces
  BY DEF Init, BuilderPlaces
<1> QED BY <1>4, <1>5 DEF BuilderTypes

\* The scored chunks are a list of those that were found.
LEMMA Scored ==
    ASSUME TypeOK, scoreAllChunks
    PROVE  /\ source' \in [Chunks -> Sources \cup {"none"}]
           /\ list' \in Seq(Chunks) /\ IsInjective(list')
           /\ ToSet(list') = {c \in Chunks : source'[c] # "none"}
<1> DEFINE S == {c \in Chunks : SourceOf(c) # "none"}
<1>1. source' = [c \in Chunks |-> SourceOf(c)]
  BY DEF scoreAllChunks
<1>2. list' \in Descending(SetToSeq(S), [c \in S |-> Score[c][SourceOf(c)]])
  BY DEF scoreAllChunks
<1>3. S \in SUBSET Chunks
  OBVIOUS
<1>4. list' \in Seq(Chunks) /\ ToSet(list') = S /\ IsInjective(list')
  BY <1>2, <1>3, SortedSet
<1>5. \A c : SourceOf(c) \in Sources \cup {"none"}
  BY DEF SourceOf, Sources
<1> QED BY <1>1, <1>4, <1>5

\* The list with or without copies is a list.
LEMMA ListAfter ==
    ASSUME TypeOK, deduplicateByContent
    PROVE  list' \in Seq(Chunks) /\ Len(list') \in Nat
<1>1. list \in Seq(Chunks)
  BY DEF TypeOK
<1>2. list' = list \/ list' = FoldLeft(KeepBetter, <<>>, list)
  BY DEF deduplicateByContent
<1>3. FoldLeft(KeepBetter, <<>>, list) \in Seq(Chunks)
  <2>1. PICK h : /\ FoldLeft(KeepBetter, <<>>, list) = h[Len(list)] /\ h[0] = <<>>
                 /\ \A n \in 1..Len(list) : h[n] = KeepBetter(h[n - 1], list[n])
    BY <1>1, BetterIsStepped
  <2> DEFINE U == {n \in Nat : n <= Len(list) => h[n] \in Seq(Chunks)}
  <2>2. 0 \in U
    <3>1. <<>> \in Seq(Chunks)
      OBVIOUS
    <3> QED BY <2>1, <3>1
  <2>3. ASSUME NEW n \in Nat, n \in U PROVE n + 1 \in U
    <3> SUFFICES ASSUME n + 1 <= Len(list) PROVE h[n + 1] \in Seq(Chunks)
      OBVIOUS
    <3>1. n + 1 \in 1..Len(list) /\ (n + 1) - 1 = n /\ n <= Len(list) /\ list[n + 1] \in Chunks
      BY <1>1
    <3>2. h[n] \in Seq(Chunks)
      BY <2>3, <3>1
    <3>3. h[n + 1] = KeepBetter(h[n], list[n + 1])
      BY <2>1, <3>1
    <3> QED BY <3>1, <3>2, <3>3, BetterIsList
  <2>4. \A n \in Nat : n \in U
    <3> HIDE DEF U
    <3> QED BY <2>2, <2>3, SetInduction
  <2>5. Len(list) \in Nat
    BY <1>1
  <2> QED BY <2>1, <2>4, <2>5
<1>4. list' \in Seq(Chunks)
  BY <1>1, <1>2, <1>3
<1> QED BY <1>4

\* The first three steps keep the types.
LEMMA OpeningTypes ==
    ASSUME BuilderTypes,
           \/ \E a \in SUBSET Chunks, b \in SUBSET Chunks, w \in SUBSET Chunks :
                 w \subseteq b /\ BuildHybridContext(a, b, w)
           \/ scoreAllChunks \/ deduplicateByContent \/ UNCHANGED vars
    PROVE  BuilderTypes'
<1>1. TypeOK /\ BuilderPlaces
  BY DEF BuilderTypes
<1>2. CASE UNCHANGED vars
  <2>1. TypeOK'
    BY <1>1, <1>2 DEF TypeOK, vars, input, loop
  <2>2. BuilderPlaces'
    BY <1>1, <1>2 DEF BuilderPlaces, vars, input, loop
  <2> QED BY <2>1, <2>2 DEF BuilderTypes
<1>3. ASSUME NEW a \in SUBSET Chunks, NEW b \in SUBSET Chunks, NEW w \in SUBSET Chunks,
             w \subseteq b, BuildHybridContext(a, b, w)
      PROVE  BuilderTypes'
  <2>1. /\ step = "waiting" /\ step' = "score"
        /\ config' \in [tokenBudget : Budgets, deduplicateByContent : BOOLEAN]
        /\ vectorChunks' = a /\ fullDocChunks' = b /\ again' = w
        /\ UNCHANGED <<source, list, t, i, result, remaining, tierUsed, tierBreakdown>>
    BY <1>3 DEF BuildHybridContext, loop
  <2>2. config' \in [tokenBudget : Budgets \cup {0}, deduplicateByContent : BOOLEAN]
    BY <2>1
  <2>3. TypeOK'
    BY <1>1, <1>3, <2>1, <2>2 DEF TypeOK
  <2>4. BuilderPlaces'
    BY <1>1, <2>1 DEF BuilderPlaces
  <2> QED BY <2>3, <2>4 DEF BuilderTypes
<1>4. CASE scoreAllChunks
  <2>1. /\ step = "score" /\ step' = "deduplicate"
        /\ UNCHANGED <<config, vectorChunks, fullDocChunks, again,
                       t, i, result, remaining, tierUsed, tierBreakdown>>
    BY <1>4 DEF scoreAllChunks, input, loop
  <2>2. source' \in [Chunks -> Sources \cup {"none"}] /\ list' \in Seq(Chunks)
    BY <1>1, <1>4, Scored
  <2>3. i' \in 1..(Len(list') + 1)
    <3>1. i' = 1
      BY <1>1, <2>1 DEF BuilderPlaces
    <3>2. Len(list') \in Nat
      BY <2>2
    <3> QED BY <3>1, <3>2
  <2>4. TypeOK'
    BY <1>1, <2>1, <2>2, <2>3 DEF TypeOK
  <2>5. BuilderPlaces'
    BY <1>1, <2>1 DEF BuilderPlaces
  <2> QED BY <2>4, <2>5 DEF BuilderTypes
<1>5. CASE deduplicateByContent
  <2>1. /\ step = "deduplicate"
        /\ IF config.tokenBudget <= 0
             THEN result' = list' /\ step' = "done" /\ remaining' = remaining
             ELSE remaining' = config.tokenBudget /\ step' = "tiers" /\ result' = result
        /\ UNCHANGED <<config, vectorChunks, fullDocChunks, again, source, t, i, tierUsed,
                       tierBreakdown>>
    BY <1>5 DEF deduplicateByContent, input
  <2>2. list' \in Seq(Chunks) /\ Len(list') \in Nat
    BY <1>1, <1>5, ListAfter
  <2>3. t = 1 /\ i = 1 /\ result = <<>> /\ remaining = 0 /\ tierUsed = 0
    BY <1>1, <2>1 DEF BuilderPlaces
  <2>4. i' \in 1..(Len(list') + 1)
    BY <2>1, <2>2, <2>3
  <2>5. config.tokenBudget \in Int
    <3>1. config \in [tokenBudget : Budgets \cup {0}, deduplicateByContent : BOOLEAN]
      BY <1>1 DEF TypeOK
    <3>2. config.tokenBudget \in Budgets \/ config.tokenBudget = 0
      BY <3>1
    <3>3. config.tokenBudget \in Budgets => config.tokenBudget \in Int
      BY BudgetsAssumption
    <3> QED BY <3>2, <3>3
  <2>6. remaining' \in Nat /\ result' \in Seq(Chunks) /\ step' \in {"tiers", "done"}
        /\ (step' = "tiers" => config'.tokenBudget > 0)
    <3>1. CASE config.tokenBudget <= 0
      BY <2>1, <2>2, <2>3, <3>1
    <3>2. CASE ~(config.tokenBudget <= 0)
      <4>1. config.tokenBudget > 0 /\ config.tokenBudget \in Nat
        BY <2>5, <3>2
      <4>2. <<>> \in Seq(Chunks)
        OBVIOUS
      <4> QED BY <2>1, <2>3, <3>2, <4>1, <4>2
    <3> QED BY <3>1, <3>2
  <2>7. TypeOK'
    BY <1>1, <2>1, <2>2, <2>4, <2>6 DEF TypeOK
  <2>8. BuilderPlaces'
    BY <2>1, <2>3, <2>6 DEF BuilderPlaces
  <2> QED BY <2>7, <2>8 DEF BuilderTypes
<1> QED BY <1>2, <1>3, <1>4, <1>5

\* A position of the list is a chunk.
LEMMA ChunkAt ==
    ASSUME TypeOK, i <= Len(list)
    PROVE  /\ i \in 1..Len(list) /\ Len(list) \in Nat
           /\ list[i] \in Chunks /\ list[i] \in ToSet(list) /\ TokensOf[list[i]] \in Nat
           /\ i + 1 \in 1..(Len(list) + 1)
<1>1. list \in Seq(Chunks) /\ i \in 1..(Len(list) + 1)
  BY DEF TypeOK
<1>2. Len(list) \in Nat /\ i \in 1..Len(list) /\ i + 1 \in 1..(Len(list) + 1)
  BY <1>1
<1>3. list[i] \in Chunks /\ list[i] \in ToSet(list)
  BY <1>1, <1>2 DEF ToSet
<1> QED BY <1>2, <1>3, ChunksAssumption

\* The first pass over the budget keeps the types.
LEMMA TierTypes ==
    ASSUME BuilderTypes, TakeInTier \/ EndTier \/ EndTiers
    PROVE  BuilderTypes'
<1>1. TypeOK /\ BuilderPlaces
  BY DEF BuilderTypes
<1>2. /\ t \in 1..(Len(Tiers) + 1) /\ i \in 1..(Len(list) + 1) /\ remaining \in Nat /\ tierUsed \in Nat
      /\ result \in Seq(Chunks) /\ tierBreakdown \in [TierNames \cup {"default"} -> Nat]
      /\ list \in Seq(Chunks) /\ tierUsed <= remaining
  BY <1>1 DEF TypeOK, BuilderPlaces
<1>3. Len(Tiers) \in Nat /\ Len(list) \in Nat
  BY <1>2, TiersAre
<1>4. CASE TakeInTier
  <2>1. /\ step = "tiers" /\ t <= Len(Tiers) /\ i <= Len(list) /\ i' = i + 1
        /\ UNCHANGED <<config, vectorChunks, fullDocChunks, again, step, source, list, t, remaining,
                       tierBreakdown>>
        /\ \/ /\ tierUsed + TokensOf[list[i]] <= TierBudget
              /\ result' = Append(result, list[i]) /\ tierUsed' = tierUsed + TokensOf[list[i]]
           \/ UNCHANGED <<result, tierUsed>>
    BY <1>4 DEF TakeInTier, input
  <2>2. list[i] \in Chunks /\ TokensOf[list[i]] \in Nat /\ i' \in 1..(Len(list') + 1)
    BY <1>1, <2>1, ChunkAt
  <2>3. TierBudget \in Nat /\ TierBudget <= remaining
    <3>1. t \in 1..Len(Tiers)
      BY <1>2, <1>3, <2>1
    <3> QED BY <1>2, <3>1, TierBudgetIs
  <2>4. result' \in Seq(Chunks) /\ tierUsed' \in Nat /\ tierUsed' <= remaining
    <3> DEFINE d == TokensOf[list[i]]
    <3>1. Append(result, list[i]) \in Seq(Chunks) /\ d \in Nat
      BY <1>2, <2>2
    <3>2. result' \in {result, Append(result, list[i])}
      BY <2>1
    <3>3. tierUsed' = tierUsed \/ (tierUsed + d <= TierBudget /\ tierUsed' = tierUsed + d)
      BY <2>1
    <3> HIDE DEF d
    <3>4. tierUsed' \in Nat /\ tierUsed' <= remaining
      BY <1>2, <2>3, <3>1, <3>3
    <3> QED BY <1>2, <3>1, <3>2, <3>4
  <2>5. TypeOK'
    BY <1>1, <2>1, <2>2, <2>4 DEF TypeOK
  <2>6. ~(t' > Len(Tiers))
    BY <1>2, <1>3, <2>1
  <2>7. BuilderPlaces'
    BY <1>1, <2>1, <2>4, <2>6 DEF BuilderPlaces
  <2> QED BY <2>5, <2>7 DEF BuilderTypes
<1>5. CASE EndTier
  <2>1. /\ step = "tiers" /\ t <= Len(Tiers)
        /\ remaining' = remaining - tierUsed
        /\ tierBreakdown' = [tierBreakdown EXCEPT ![Tiers[t].name] = tierUsed]
        /\ t' = t + 1 /\ i' = 1 /\ tierUsed' = 0
        /\ UNCHANGED <<config, vectorChunks, fullDocChunks, again, step, source, list, result>>
    BY <1>5 DEF EndTier, input
  <2>2. /\ remaining' \in Nat /\ tierUsed' <= remaining' /\ tierUsed' \in Nat
        /\ t' \in 1..(Len(Tiers) + 1) /\ i' \in 1..(Len(list') + 1)
    BY <1>2, <1>3, <2>1
  <2>3. tierBreakdown' \in [TierNames \cup {"default"} -> Nat]
    BY <1>2, <2>1
  <2>4. TypeOK'
    BY <1>1, <2>1, <2>2, <2>3 DEF TypeOK
  <2>5. BuilderPlaces'
    BY <1>1, <2>1, <2>2 DEF BuilderPlaces
  <2> QED BY <2>4, <2>5 DEF BuilderTypes
<1>6. CASE EndTiers
  <2>1. /\ step = "tiers" /\ t > Len(Tiers) /\ step' \in {"fill", "sort"}
        /\ UNCHANGED <<config, vectorChunks, fullDocChunks, again, source, list, t, i, result,
                       remaining, tierUsed, tierBreakdown>>
    BY <1>6 DEF EndTiers, input, loop
  <2>2. TypeOK'
    BY <1>1, <2>1 DEF TypeOK
  <2>3. BuilderPlaces'
    BY <1>1, <2>1 DEF BuilderPlaces
  <2> QED BY <2>2, <2>3 DEF BuilderTypes
<1> QED BY <1>4, <1>5, <1>6

\* The second pass and the last sort keep the types.
LEMMA FillTypes ==
    ASSUME BuilderTypes, Fill \/ EndFill \/ SortResult
    PROVE  BuilderTypes'
<1>1. TypeOK /\ BuilderPlaces
  BY DEF BuilderTypes
<1>2. /\ i \in 1..(Len(list) + 1) /\ remaining \in Nat /\ result \in Seq(Chunks)
      /\ tierBreakdown \in [TierNames \cup {"default"} -> Nat] /\ list \in Seq(Chunks)
  BY <1>1 DEF TypeOK
<1>3. CASE Fill
  <2>1. /\ step = "fill" /\ i <= Len(list) /\ i' = i + 1
        /\ UNCHANGED <<config, vectorChunks, fullDocChunks, again, step, source, list, t, tierUsed>>
        /\ \/ /\ TokensOf[list[i]] <= remaining
              /\ result' = Append(result, list[i]) /\ remaining' = remaining - TokensOf[list[i]]
              /\ tierBreakdown' = AddFor(list[i])
           \/ UNCHANGED <<result, remaining, tierBreakdown>>
    BY <1>3 DEF Fill, input
  <2>2. list[i] \in Chunks /\ TokensOf[list[i]] \in Nat /\ i' \in 1..(Len(list') + 1)
    BY <1>1, <2>1, ChunkAt
  <2>3. AddFor(list[i]) \in [TierNames \cup {"default"} -> Nat]
    <3> DEFINE x == PriorityTier(list[i])
    <3>1. x \in TierNames \cup {"default"}
      BY TierIsKnown
    <3> HIDE DEF x
    <3>2. tierBreakdown[x] + TokensOf[list[i]] \in Nat
      BY <1>2, <2>2, <3>1
    <3>3. [tierBreakdown EXCEPT ![x] = @ + TokensOf[list[i]]] \in [TierNames \cup {"default"} -> Nat]
      BY <1>2, <3>1, <3>2
    <3> QED BY <3>3 DEF AddFor, x
  <2>4. result' \in Seq(Chunks) /\ remaining' \in Nat
    <3> DEFINE d == TokensOf[list[i]]
    <3>1. Append(result, list[i]) \in Seq(Chunks) /\ d \in Nat
      BY <1>2, <2>2
    <3>2. result' \in {result, Append(result, list[i])}
      BY <2>1
    <3>3. remaining' = remaining \/ (d <= remaining /\ remaining' = remaining - d)
      BY <2>1
    <3> HIDE DEF d
    <3>4. remaining' \in Nat
      BY <1>2, <3>1, <3>3
    <3> QED BY <1>2, <3>1, <3>2, <3>4
  <2>5. tierBreakdown' \in [TierNames \cup {"default"} -> Nat]
    BY <1>2, <2>1, <2>3
  <2>6. TypeOK'
    BY <1>1, <2>1, <2>2, <2>4, <2>5 DEF TypeOK
  <2>7. tierUsed' = 0 /\ tierUsed' <= remaining'
    BY <1>1, <2>1, <2>4 DEF BuilderPlaces
  <2>8. BuilderPlaces'
    BY <1>1, <2>1, <2>7 DEF BuilderPlaces
  <2> QED BY <2>6, <2>8 DEF BuilderTypes
<1>4. CASE EndFill
  <2>1. /\ step = "fill" /\ step' = "sort"
        /\ UNCHANGED <<config, vectorChunks, fullDocChunks, again, source, list, t, i, result,
                       remaining, tierUsed, tierBreakdown>>
    BY <1>4 DEF EndFill, input, loop
  <2>2. TypeOK'
    BY <1>1, <2>1 DEF TypeOK
  <2>3. BuilderPlaces'
    BY <1>1, <2>1 DEF BuilderPlaces
  <2> QED BY <2>2, <2>3 DEF BuilderTypes
<1>5. CASE SortResult
  <2>1. /\ step = "sort" /\ step' = "done"
        /\ result' \in Descending(result, [c \in ToSet(result) |-> CombinedScore(c)])
        /\ UNCHANGED <<config, vectorChunks, fullDocChunks, again, source, list, t, i,
                       remaining, tierUsed, tierBreakdown>>
    BY <1>5 DEF SortResult, input
  <2>2. result' \in Seq(Chunks)
    BY <1>2, <2>1, DescendingIs
  <2>3. TypeOK'
    BY <1>1, <2>1, <2>2 DEF TypeOK
  <2>4. BuilderPlaces'
    BY <1>1, <2>1 DEF BuilderPlaces
  <2> QED BY <2>3, <2>4 DEF BuilderTypes
<1> QED BY <1>3, <1>4, <1>5

\* The types of the builder, all the way.
LEMMA BuilderTypesStep == BuilderTypes /\ BuilderActions => BuilderTypes'
<1> SUFFICES ASSUME BuilderTypes, BuilderActions PROVE BuilderTypes'
  OBVIOUS
<1> QED BY OpeningTypes, TierTypes, FillTypes DEF BuilderActions

\* Every variable of a retrieval, and of the builder it may call, keeps to its type.
THEOREM RetrievalIsTyped == SourcesSpec => []RetrievalTypeOK
<1>1. SourcesInit => FetchInv /\ BuilderTypes
  BY FetchInit, BuilderInit
<1>2. FetchInv /\ BuilderTypes /\ [SourcesNext]_<<retrievalVars, vars, toolVars>>
         => (FetchInv /\ BuilderTypes)'
  BY FetchStep, BuilderSteps, BuilderTypesStep
<1>3. FetchInv /\ BuilderTypes => RetrievalTypeOK
  BY DEF FetchInv, RetrievalTypes, BuilderTypes, RetrievalTypeOK
<1> QED BY <1>1, <1>2, <1>3, PTL DEF SourcesSpec

-----------------------------------------------------------------------------
(* HybridContext: which copy stays *)

\* No chunk is listed twice, every one was found, and copies are gone as they should be.
ListInv ==
    /\ step \notin {"waiting", "score"} =>
          IsInjective(list) /\ \A c \in ToSet(list) : source[c] # "none"
    /\ step = "deduplicate" => ToSet(list) = {c \in Chunks : source[c] # "none"}
    /\ BestCopyStays

\* Before the call there is nothing to say.
LEMMA ListInit == SourcesInit => ListInv
  BY DEF SourcesInit, RetrievalInit, NotAsked, Init, ListInv, BestCopyStays

\* The loop over the list leaves the best copies.
LEMMA BestCopies ==
    ASSUME BuilderTypes, ListInv, deduplicateByContent
    PROVE  ListInv'
<1>1. /\ step = "deduplicate" /\ step' \in {"tiers", "done"} /\ UNCHANGED <<config, source>>
      /\ list' = IF config.deduplicateByContent THEN FoldLeft(KeepBetter, <<>>, list) ELSE list
  BY DEF deduplicateByContent, input
<1>2. /\ list \in Seq(Chunks) /\ source \in [Chunks -> Sources \cup {"none"}]
  BY DEF BuilderTypes, TypeOK
<1>3. /\ IsInjective(list) /\ \A c \in ToSet(list) : source[c] # "none"
      /\ ToSet(list) = {c \in Chunks : source[c] # "none"}
  BY <1>1 DEF ListInv
<1>4. CASE ~config.deduplicateByContent
  <2>1. list' = list
    BY <1>1, <1>4
  <2>2. BestCopyStays'
    BY <1>1, <1>4 DEF BestCopyStays
  <2> QED BY <1>1, <1>3, <2>1, <2>2 DEF ListInv
<1>5. CASE config.deduplicateByContent
  <2>1. list' = FoldLeft(KeepBetter, <<>>, list)
    BY <1>1, <1>5
  <2>2. \A j \in 1..Len(list) : CombinedScore(list[j]) \in Int
    <3> SUFFICES ASSUME NEW j \in 1..Len(list) PROVE CombinedScore(list[j]) \in Int
      OBVIOUS
    <3> DEFINE c == list[j]
    <3>1. c \in Chunks /\ c \in ToSet(list)
      BY <1>2 DEF ToSet
    <3> HIDE DEF c
    <3>2. source[c] \in Sources
      BY <1>2, <1>3, <3>1
    <3>3. Score[c] \in [Sources -> Int]
      BY <3>1, ChunksAssumption
    <3>4. Score[c][source[c]] \in Int
      BY <3>2, <3>3
    <3> QED BY <3>4 DEF CombinedScore, c
  <2>3. BestOf(list', list, Len(list))
    BY <1>2, <2>1, <2>2, CopiesDropped
  <2>4. /\ list' \in Seq(Chunks)
        /\ \A p, q \in DOMAIN list' : p # q => Content[list'[p]] # Content[list'[q]]
        /\ \A p \in DOMAIN list' : \E j \in 1..Len(list) : list'[p] = list[j]
        /\ \A j \in 1..Len(list) : \E p \in DOMAIN list' :
              /\ Content[list'[p]] = Content[list[j]]
              /\ CombinedScore(list'[p]) >= CombinedScore(list[j])
    BY <2>3 DEF BestOf
  <2>5. IsInjective(list')
    BY <2>4 DEF IsInjective
  <2>6. \A c \in ToSet(list') : c \in ToSet(list)
    <3> SUFFICES ASSUME NEW p \in DOMAIN list' PROVE list'[p] \in ToSet(list)
      BY DEF ToSet
    <3>1. PICK j \in 1..Len(list) : list'[p] = list[j]
      BY <2>4
    <3>2. list[j] \in ToSet(list)
      BY <1>2 DEF ToSet
    <3> QED BY <3>1, <3>2
  <2>7. ASSUME NEW c \in Chunks, source[c] # "none"
        PROVE  \E d \in ToSet(list') : Content[d] = Content[c] /\ CombinedScore(d) >= CombinedScore(c)
    <3>1. c \in ToSet(list)
      BY <1>3, <2>7
    <3>2. PICK j \in 1..Len(list) : c = list[j]
      BY <1>2, <3>1 DEF ToSet
    <3>3. PICK p \in DOMAIN list' : /\ Content[list'[p]] = Content[c]
                                    /\ CombinedScore(list'[p]) >= CombinedScore(c)
      BY <2>4, <3>2
    <3>4. list'[p] \in ToSet(list')
      BY DEF ToSet
    <3> QED BY <3>3, <3>4
  <2>8. \A c : CombinedScore(c)' = CombinedScore(c)
    BY <1>1 DEF CombinedScore
  <2>9. BestCopyStays'
    BY <1>1, <2>4, <2>7, <2>8 DEF BestCopyStays
  <2>10. \A c \in ToSet(list') : source'[c] # "none"
    BY <1>1, <1>3, <2>6
  <2> QED BY <1>1, <2>5, <2>9, <2>10 DEF ListInv
<1> QED BY <1>4, <1>5

\* The other steps leave the list alone, or make it.
LEMMA ListStep == BuilderTypes /\ ListInv /\ BuilderActions => ListInv'
<1> SUFFICES ASSUME BuilderTypes, ListInv, BuilderActions PROVE ListInv'
  OBVIOUS
<1>1. ASSUME NEW a, NEW b, NEW w, BuildHybridContext(a, b, w)
      PROVE  ListInv'
  <2>1. step' = "score"
    BY <1>1 DEF BuildHybridContext
  <2> QED BY <2>1 DEF ListInv, BestCopyStays
<1>2. CASE scoreAllChunks
  <2>1. step' = "deduplicate"
    BY <1>2 DEF scoreAllChunks
  <2>2. /\ list' \in Seq(Chunks) /\ IsInjective(list')
        /\ ToSet(list') = {c \in Chunks : source'[c] # "none"}
    BY <1>2, Scored DEF BuilderTypes
  <2>3. BestCopyStays'
    BY <2>1 DEF BestCopyStays
  <2> QED BY <2>1, <2>2, <2>3 DEF ListInv
<1>3. CASE UNCHANGED <<config, source, list>> /\ (step' = step \/
              (step \in {"tiers", "fill", "sort"} /\ step' \in {"fill", "sort", "done"}))
  <2>1. \A c : CombinedScore(c)' = CombinedScore(c)
    BY <1>3 DEF CombinedScore
  <2>2. BestCopyStays'
    BY <1>3, <2>1 DEF ListInv, BestCopyStays
  <2> QED BY <1>3, <2>2 DEF ListInv
<1>4. CASE TakeInTier \/ EndTier \/ EndTiers \/ Fill \/ EndFill \/ SortResult
  <2>1. /\ UNCHANGED <<config, source, list>>
        /\ step' = step \/ (step \in {"tiers", "fill", "sort"} /\ step' \in {"fill", "sort", "done"})
    BY <1>4 DEF TakeInTier, EndTier, EndTiers, Fill, EndFill, SortResult, input, loop
  <2> QED BY <1>3, <2>1
<1>5. CASE UNCHANGED vars
  BY <1>3, <1>5 DEF vars, input
<1> QED BY <1>1, <1>2, <1>4, <1>5, BestCopies DEF BuilderActions

\* When copies are dropped, every content stays, once, at the best score any of its
\* copies had, through both passes and the sort (deduplicateByContent).
THEOREM BestCopyIsKept == SourcesSpec => []BestCopyStays
<1>1. SourcesInit => FetchInv /\ BuilderTypes /\ ListInv
  BY FetchInit, BuilderInit, ListInit
<1>2. FetchInv /\ BuilderTypes /\ ListInv /\ [SourcesNext]_<<retrievalVars, vars, toolVars>>
         => (FetchInv /\ BuilderTypes /\ ListInv)'
  BY FetchStep, BuilderSteps, BuilderTypesStep, ListStep
<1>3. ListInv => BestCopyStays
  BY DEF ListInv
<1> QED BY <1>1, <1>2, <1>3, PTL DEF SourcesSpec

-----------------------------------------------------------------------------
(* HybridContext: the selection.  That nothing is taken twice needs to know   *)
(* of each chunk taken in which tier, and where in the list, it was; and that *)
(* nothing is left out that fits, what the second pass has gone past.         *)

\* Chunk c was taken in a tier, this one or one before it.
TakenBefore(c) ==
    \E u \in 1..Len(Tiers), p \in 1..Len(list) :
       /\ list[p] = c
       /\ PriorityTier(c) = Tiers[u].name
       /\ u <= t
       /\ u = t => p < i

\* Nothing is taken twice; of each chunk taken a tier is known, and of each passed over
\* in the second pass, that it does not fit.
ChosenInv ==
    /\ IsInjective(result) /\ ToSet(result) \subseteq ToSet(list)
    /\ step = "tiers" => \A c \in ToSet(result) : TakenBefore(c)
    /\ step = "fill" => \A p \in 1..(i - 1) : list[p] \in ToSet(result) \/ TokensOf[list[p]] > remaining

\* Nothing is chosen before the call.
LEMMA ChosenInit == SourcesInit => ChosenInv
<1> SUFFICES ASSUME Init PROVE ChosenInv
  BY DEF SourcesInit, RetrievalInit, NotAsked
<1>1. result = <<>> /\ step = "waiting"
  BY DEF Init
<1>2. IsInjective(<<>>) /\ ToSet(<<>>) = {}
  BY DEF IsInjective, ToSet
<1> QED BY <1>1, <1>2 DEF ChosenInv

\* A chunk's tier depends on where it was found only.
LEMMA SameTier == source' = source => \A c : PriorityTier(c)' = PriorityTier(c)
  BY DEF PriorityTier, CombinedScore

\* A chunk of this tier at this place has not been taken.
LEMMA NotYetTaken ==
    ASSUME BuilderTypes, ListInv, ChosenInv, step = "tiers", t <= Len(Tiers), i <= Len(list),
           PriorityTier(list[i]) = Tiers[t].name
    PROVE  list[i] \notin ToSet(result)
<1> SUFFICES ASSUME list[i] \in ToSet(result) PROVE FALSE
  OBVIOUS
<1>1. PICK u \in 1..Len(Tiers), p \in 1..Len(list) :
         /\ list[p] = list[i]
         /\ PriorityTier(list[i]) = Tiers[u].name
         /\ u = t => p < i
  BY DEF ChosenInv, TakenBefore
<1>2. t \in 1..Len(Tiers)
  BY TiersAre DEF BuilderTypes, TypeOK
<1>3. u = t
  BY <1>1, <1>2, TiersAre, TiersAssumption
<1>4. i \in 1..Len(list) /\ list \in Seq(Chunks)
  BY ChunkAt DEF BuilderTypes, TypeOK
<1>5. IsInjective(list)
  BY DEF ListInv
<1>6. p = i
  BY <1>1, <1>4, <1>5 DEF IsInjective
<1> QED BY <1>1, <1>3, <1>4, <1>6

\* What the first pass takes.
LEMMA TierStep ==
    ASSUME BuilderTypes, ListInv, ChosenInv, TakeInTier
    PROVE  /\ ChosenInv'
           /\ \/ UNCHANGED <<result, tierUsed>>
              \/ /\ list[i] \in ToSet(list) \ ToSet(result)
                 /\ TokensOf[list[i]] <= remaining - tierUsed
                 /\ ToSet(result') = ToSet(result) \cup {list[i]}
                 /\ tierUsed' = tierUsed + TokensOf[list[i]]
<1> DEFINE c == list[i]
           d == TokensOf[c]
<1>1. /\ step = "tiers" /\ t <= Len(Tiers) /\ i <= Len(list) /\ i' = i + 1
      /\ UNCHANGED <<step, source, list, t, remaining>>
      /\ \/ /\ PriorityTier(c) = Tiers[t].name /\ tierUsed + d <= TierBudget
            /\ result' = Append(result, c) /\ tierUsed' = tierUsed + d
         \/ UNCHANGED <<result, tierUsed>>
  BY DEF TakeInTier, input
<1>2. /\ TypeOK /\ t \in 1..Len(Tiers) /\ i \in 1..Len(list) /\ Len(list) \in Nat
      /\ c \in Chunks /\ c \in ToSet(list) /\ d \in Nat
      /\ result \in Seq(Chunks) /\ remaining \in Nat /\ tierUsed \in Nat
  <2>1. TypeOK
    BY DEF BuilderTypes
  <2>2. t \in 1..Len(Tiers)
    BY <1>1, <2>1, TiersAre DEF TypeOK
  <2> QED BY <1>1, <2>1, <2>2, ChunkAt DEF TypeOK
<1>3. /\ IsInjective(result) /\ ToSet(result) \subseteq ToSet(list)
      /\ \A x \in ToSet(result) : TakenBefore(x)
  BY <1>1 DEF ChosenInv
<1>4. \A x : PriorityTier(x)' = PriorityTier(x)
  BY <1>1, SameTier
<1>5. \A x : TakenBefore(x) => TakenBefore(x)'
  <2> SUFFICES ASSUME NEW x, TakenBefore(x) PROVE TakenBefore(x)'
    OBVIOUS
  <2>1. PICK u \in 1..Len(Tiers), p \in 1..Len(list) :
           list[p] = x /\ PriorityTier(x) = Tiers[u].name /\ u <= t /\ (u = t => p < i)
    BY DEF TakenBefore
  <2>2. u = t' => p < i'
    BY <1>1, <1>2, <2>1
  <2>3. /\ u \in 1..Len(Tiers) /\ p \in 1..Len(list') /\ list'[p] = x
        /\ PriorityTier(x)' = Tiers[u].name /\ u <= t'
    BY <1>1, <1>4, <2>1
  <2> QED BY <2>2, <2>3 DEF TakenBefore
<1>6. CASE UNCHANGED <<result, tierUsed>>
  BY <1>1, <1>3, <1>5, <1>6 DEF ChosenInv
<1>7. CASE ~(UNCHANGED <<result, tierUsed>>)
  <2>1. /\ PriorityTier(c) = Tiers[t].name /\ tierUsed + d <= TierBudget
        /\ result' = Append(result, c) /\ tierUsed' = tierUsed + d
    BY <1>1, <1>7
  <2>2. c \notin ToSet(result)
    BY <1>1, <2>1, NotYetTaken
  <2>3. ToSet(result') = ToSet(result) \cup {c} /\ IsInjective(result')
    BY <1>2, <1>3, <2>1, <2>2, AppendOnce
  <2>4. d <= remaining - tierUsed
    <3>1. TierBudget \in Nat /\ TierBudget <= remaining
      BY <1>2, TierBudgetIs
    <3> HIDE DEF c, d
    <3> QED BY <1>2, <2>1, <3>1
  <2>5. \A x : x = c => TakenBefore(x)'
    <3> SUFFICES ASSUME NEW x, x = c PROVE TakenBefore(x)'
      OBVIOUS
    <3>1. t' \in 1..Len(Tiers) /\ t' <= t' /\ i < i' /\ t' = t
      BY <1>1, <1>2
    <3>2. i \in 1..Len(list') /\ list'[i] = x
      BY <1>1, <1>2
    <3>3. PriorityTier(x)' = Tiers[t'].name
      BY <1>1, <1>4, <2>1
    <3> QED BY <3>1, <3>2, <3>3 DEF TakenBefore
  <2>6. ChosenInv'
    <3>1. \A x \in ToSet(result') : TakenBefore(x)'
      <4> HIDE DEF c
      <4> QED BY <1>3, <1>5, <2>3, <2>5
    <3>2. ToSet(result') \subseteq ToSet(list)
      BY <1>2, <1>3, <2>3
    <3> HIDE DEF c
    <3> QED BY <1>1, <2>3, <3>1, <3>2 DEF ChosenInv
  <2> QED BY <1>2, <2>1, <2>2, <2>3, <2>4, <2>6
<1> QED BY <1>6, <1>7

\* What the second pass takes, and leaves.
LEMMA FillStep ==
    ASSUME BuilderTypes, ListInv, ChosenInv, Fill
    PROVE  /\ ChosenInv'
           /\ \/ UNCHANGED <<result, remaining, tierBreakdown>>
              \/ /\ list[i] \in ToSet(list) \ ToSet(result)
                 /\ TokensOf[list[i]] <= remaining
                 /\ result' = Append(result, list[i])
                 /\ ToSet(result') = ToSet(result) \cup {list[i]}
                 /\ remaining' = remaining - TokensOf[list[i]]
                 /\ tierBreakdown' = AddFor(list[i])
<1> DEFINE c == list[i]
           d == TokensOf[c]
<1>1. /\ step = "fill" /\ i <= Len(list) /\ i' = i + 1
      /\ UNCHANGED <<step, source, list, t, tierUsed>>
      /\ \/ /\ c \notin ToSet(result) /\ d <= remaining
            /\ result' = Append(result, c) /\ remaining' = remaining - d
            /\ tierBreakdown' = AddFor(c)
         \/ /\ c \in ToSet(result) \/ ~(d <= remaining)
            /\ UNCHANGED <<result, remaining, tierBreakdown>>
  BY DEF Fill, Unused, input
<1>2. /\ i \in 1..Len(list) /\ Len(list) \in Nat /\ c \in Chunks /\ c \in ToSet(list) /\ d \in Nat
      /\ result \in Seq(Chunks) /\ remaining \in Nat /\ list \in Seq(Chunks)
  BY <1>1, ChunkAt DEF BuilderTypes, TypeOK
<1>3. /\ IsInjective(result) /\ ToSet(result) \subseteq ToSet(list)
      /\ \A p \in 1..(i - 1) : list[p] \in ToSet(result) \/ TokensOf[list[p]] > remaining
  BY <1>1 DEF ChosenInv
<1>4. \A p \in 1..Len(list) : TokensOf[list[p]] \in Nat
  BY <1>2, ChunksAssumption
<1>5. \A p \in 1..(i' - 1) : p \in 1..(i - 1) \/ p = i
  BY <1>1, <1>2
<1>6. \A p \in 1..(i - 1) : p \in 1..Len(list)
  BY <1>2
<1>7. CASE UNCHANGED <<result, remaining, tierBreakdown>> /\ (c \in ToSet(result) \/ ~(d <= remaining))
  <2>1. c \in ToSet(result) \/ d > remaining
    BY <1>2, <1>7
  <2>2. \A p \in 1..(i' - 1) : list[p] \in ToSet(result) \/ TokensOf[list[p]] > remaining
    BY <1>3, <1>5, <2>1
  <2>3. ChosenInv'
    <3> HIDE DEF c, d
    <3> QED BY <1>1, <1>3, <1>7, <2>2 DEF ChosenInv
  <2> QED BY <1>7, <2>3
<1>8. CASE /\ c \notin ToSet(result) /\ d <= remaining
           /\ result' = Append(result, c) /\ remaining' = remaining - d
           /\ tierBreakdown' = AddFor(c)
  <2>1. ToSet(result') = ToSet(result) \cup {c} /\ IsInjective(result')
    BY <1>2, <1>3, <1>8, AppendOnce
  <2>2. remaining' <= remaining /\ remaining' \in Nat
    <3> HIDE DEF d
    <3> QED BY <1>2, <1>8
  <2>3. \A p \in 1..(i' - 1) : list'[p] \in ToSet(result') \/ TokensOf[list'[p]] > remaining'
    <3> SUFFICES ASSUME NEW p \in 1..(i' - 1)
                 PROVE  list[p] \in ToSet(result') \/ TokensOf[list[p]] > remaining'
      BY <1>1
    <3>1. CASE p = i
      BY <2>1, <3>1
    <3>2. CASE p \in 1..(i - 1)
      <4> DEFINE w == TokensOf[list[p]]
      <4>1. list[p] \in ToSet(result) \/ w > remaining
        BY <1>3, <3>2
      <4>2. w \in Nat
        BY <1>4, <1>6, <3>2
      <4> HIDE DEF w
      <4>3. w > remaining => w > remaining'
        BY <1>2, <2>2, <4>2
      <4> QED BY <2>1, <4>1, <4>3 DEF w
    <3> QED BY <1>5, <3>1, <3>2
  <2>4. ChosenInv'
    <3> HIDE DEF c, d
    <3> QED BY <1>1, <1>2, <1>3, <2>1, <2>3 DEF ChosenInv
  <2> QED BY <1>2, <1>8, <2>1, <2>4
<1> HIDE DEF c, d
<1> QED BY <1>1, <1>7, <1>8 DEF c, d

\* No step takes a chunk twice, or leaves one out that fits.
LEMMA ChosenStep == BuilderTypes /\ ListInv /\ ChosenInv /\ BuilderActions => ChosenInv'
<1> SUFFICES ASSUME BuilderTypes, ListInv, ChosenInv, BuilderActions PROVE ChosenInv'
  OBVIOUS
<1>1. /\ result \in Seq(Chunks) /\ list \in Seq(Chunks) /\ Len(list) \in Nat
      /\ t \in 1..(Len(Tiers) + 1) /\ Len(Tiers) \in Nat
  BY TiersAre DEF BuilderTypes, TypeOK
<1>2. IsInjective(result) /\ ToSet(result) \subseteq ToSet(list)
  BY DEF ChosenInv
<1>3. IsInjective(<<>>) /\ ToSet(<<>>) = {}
  BY DEF IsInjective, ToSet
<1>4. CASE result' = <<>> /\ step' # "fill"
  BY <1>3, <1>4 DEF ChosenInv
<1>5. ASSUME NEW a, NEW b, NEW w, BuildHybridContext(a, b, w)
      PROVE  ChosenInv'
  <2>1. step = "waiting" /\ step' = "score" /\ result' = result
    BY <1>5 DEF BuildHybridContext, loop
  <2>2. result = <<>>
    BY <2>1 DEF BuilderTypes, BuilderPlaces
  <2> QED BY <1>4, <2>1, <2>2
<1>6. CASE scoreAllChunks
  <2>1. step = "score" /\ step' = "deduplicate" /\ result' = result
    BY <1>6 DEF scoreAllChunks, loop
  <2>2. result = <<>>
    BY <2>1 DEF BuilderTypes, BuilderPlaces
  <2> QED BY <1>4, <2>1, <2>2
<1>7. CASE deduplicateByContent
  <2>1. /\ step = "deduplicate"
        /\ \/ result' = list' /\ step' = "done"
           \/ result' = result /\ step' = "tiers"
    BY <1>7 DEF deduplicateByContent
  <2>2. result = <<>>
    BY <2>1 DEF BuilderTypes, BuilderPlaces
  <2>3. ListInv'
    BY ListStep
  <2>4. CASE result' = list' /\ step' = "done"
    <3>1. IsInjective(list')
      BY <2>3, <2>4 DEF ListInv
    <3> QED BY <2>4, <3>1 DEF ChosenInv
  <2>5. CASE result' = result /\ step' = "tiers"
    BY <1>4, <2>2, <2>5
  <2> QED BY <2>1, <2>4, <2>5
<1>8. CASE EndTier
  <2>1. /\ step = "tiers" /\ t <= Len(Tiers) /\ t' = t + 1
        /\ UNCHANGED <<step, source, list, result>>
    BY <1>8 DEF EndTier, input
  <2>2. \A x : PriorityTier(x)' = PriorityTier(x)
    BY <2>1, SameTier
  <2>3. ASSUME NEW x \in ToSet(result) PROVE TakenBefore(x)'
    <3>1. PICK u \in 1..Len(Tiers), p \in 1..Len(list) :
             list[p] = x /\ PriorityTier(x) = Tiers[u].name /\ u <= t
      BY <2>1, <2>3 DEF ChosenInv, TakenBefore
    <3>2. u <= t' /\ u # t'
      BY <1>1, <2>1, <3>1
    <3>3. list'[p] = x /\ p \in 1..Len(list') /\ PriorityTier(x)' = Tiers[u].name
      BY <2>1, <2>2, <3>1
    <3> QED BY <3>2, <3>3 DEF TakenBefore
  <2> QED BY <1>2, <2>1, <2>3 DEF ChosenInv
<1>9. CASE EndTiers
  <2>1. /\ step = "tiers" /\ t > Len(Tiers) /\ step' \in {"fill", "sort"}
        /\ UNCHANGED <<list, i, result, remaining>>
    BY <1>9 DEF EndTiers, loop
  <2>2. i' = 1
    BY <2>1 DEF BuilderTypes, BuilderPlaces
  <2>3. 1..(i' - 1) = {}
    BY <2>2
  <2> QED BY <1>2, <2>1, <2>3 DEF ChosenInv
<1>10. CASE EndFill
  <2>1. step' = "sort" /\ UNCHANGED <<list, result>>
    BY <1>10 DEF EndFill, loop
  <2> QED BY <1>2, <2>1 DEF ChosenInv
<1>11. CASE SortResult
  <2>1. /\ step' = "done" /\ list' = list
        /\ result' \in Descending(result, [c \in ToSet(result) |-> CombinedScore(c)])
    BY <1>11 DEF SortResult
  <2>2. ToSet(result') = ToSet(result) /\ IsInjective(result')
    BY <1>1, <1>2, <2>1, DescendingIs
  <2> QED BY <1>2, <2>1, <2>2 DEF ChosenInv
<1>12. CASE UNCHANGED vars
  <2>1. UNCHANGED <<source, step, list, t, i, result, remaining>>
    BY <1>12 DEF vars, loop
  <2>2. \A x : PriorityTier(x)' = PriorityTier(x)
    BY <2>1, SameTier
  <2>3. \A x : TakenBefore(x) => TakenBefore(x)'
    BY <2>1, <2>2 DEF TakenBefore
  <2> QED BY <2>1, <2>3 DEF ChosenInv
<1> QED BY <1>5, <1>6, <1>7, <1>8, <1>9, <1>10, <1>11, <1>12, TierStep, FillStep DEF BuilderActions

-----------------------------------------------------------------------------
(* HybridContext implements BudgetedSelection *)

\* Before the call nothing is chosen and there is no room.
LEMMA SelectionInit == SourcesInit => Selection!Init
<1> SUFFICES ASSUME Init PROVE Selection!Init
  BY DEF SourcesInit, RetrievalInit, NotAsked
<1>1. step = "waiting" /\ result = <<>> /\ remaining = 0 /\ tierUsed = 0
  BY DEF Init
<1>2. Stage = "waiting"
  BY <1>1 DEF Stage
<1>3. ToSet(<<>>) = {}
  BY DEF ToSet
<1> QED BY <1>1, <1>2, <1>3 DEF Selection!Init

\* What the selection sees of a state and of the next.
LEMMA StageIs ==
    /\ step \in {"waiting", "score", "deduplicate"} => Stage = "waiting"
    /\ step \in {"tiers", "fill"} => Stage = "choosing"
    /\ step \in {"sort", "done"} => Stage = "closed"
    /\ step' \in {"waiting", "score", "deduplicate"} => Stage' = "waiting"
    /\ step' \in {"tiers", "fill"} => Stage' = "choosing"
    /\ step' \in {"sort", "done"} => Stage' = "closed"
  BY DEF Stage

\* A step that the selection does not see.
SelectionStutters == UNCHANGED Selection!vars

\* The end of the search for copies opens the selection, or without a budget ends it.
LEMMA SelectionOpens ==
    ASSUME BuilderTypes, deduplicateByContent
    PROVE  Selection!Open
<1>1. TypeOK /\ BuilderPlaces
  BY DEF BuilderTypes
<1>2. /\ step = "deduplicate" /\ tierUsed' = tierUsed
      /\ IF config.tokenBudget <= 0
           THEN result' = list' /\ step' = "done" /\ remaining' = remaining
           ELSE remaining' = config.tokenBudget /\ step' = "tiers" /\ result' = result
  BY DEF deduplicateByContent
<1>3. result = <<>> /\ remaining = 0 /\ tierUsed = 0
  BY <1>1, <1>2 DEF BuilderPlaces
<1>4. ToSet(list') \in SUBSET Chunks /\ ToSet(<<>>) = {}
  <2>1. list' \in Seq(Chunks)
    BY <1>1, ListAfter
  <2> QED BY <2>1 DEF ToSet
<1>5. config.tokenBudget \in Int
  <2>1. config \in [tokenBudget : Budgets \cup {0}, deduplicateByContent : BOOLEAN]
    BY <1>1 DEF TypeOK
  <2>2. config.tokenBudget \in Budgets \/ config.tokenBudget = 0
    BY <2>1
  <2>3. config.tokenBudget \in Budgets => config.tokenBudget \in Int
    BY BudgetsAssumption
  <2> QED BY <2>2, <2>3
<1>6. Stage = "waiting"
  BY <1>2, StageIs
<1>7. CASE config.tokenBudget <= 0
  <2>1. Stage' = "closed" /\ result' = list' /\ remaining' - tierUsed' = 0
    BY <1>2, <1>3, <1>7, StageIs
  <2> QED BY <1>4, <1>6, <2>1 DEF Selection!Open
<1>8. CASE ~(config.tokenBudget <= 0)
  <2>1. Stage' = "choosing" /\ result' = <<>>
    BY <1>2, <1>3, <1>8, StageIs
  <2>2. remaining' - tierUsed' \in Nat \ {0}
    BY <1>2, <1>3, <1>5, <1>8
  <2> QED BY <1>4, <1>6, <2>1, <2>2 DEF Selection!Open
<1> QED BY <1>7, <1>8

\* A chunk either pass takes, the selection takes.
LEMMA SelectionTakes ==
    ASSUME BuilderTypes, ListInv, ChosenInv, TakeInTier \/ Fill
    PROVE  (\E c \in Chunks : Selection!Take(c)) \/ SelectionStutters
<1>1. TypeOK /\ list \in Seq(Chunks) /\ remaining \in Nat /\ tierUsed \in Nat
  BY DEF BuilderTypes, TypeOK
<1>2. /\ step \in {"tiers", "fill"} /\ step' = step /\ list' = list /\ i <= Len(list)
      /\ (step = "fill" => tierUsed = 0)
  <2>1. /\ step \in {"tiers", "fill"} /\ step' = step /\ list' = list /\ i <= Len(list)
    BY DEF TakeInTier, Fill
  <2>2. step = "fill" => tierUsed = 0
    BY DEF BuilderTypes, BuilderPlaces
  <2> QED BY <2>1, <2>2
<1>3. Stage = "choosing" /\ Stage' = "choosing"
  BY <1>2, StageIs
<1> DEFINE c == list[i]
           d == TokensOf[c]
           room == remaining - tierUsed
<1>4. c \in Chunks /\ d \in Nat
  BY <1>1, <1>2, ChunkAt
<1>5. \/ UNCHANGED <<result, tierUsed, remaining>>
      \/ /\ c \in ToSet(list) \ ToSet(result) /\ d <= room
         /\ ToSet(result') = ToSet(result) \cup {c}
         /\ remaining' - tierUsed' = room - d
  <2>1. CASE TakeInTier
    <3>1. \/ UNCHANGED <<result, tierUsed>>
          \/ /\ c \in ToSet(list) \ ToSet(result) /\ d <= room
             /\ ToSet(result') = ToSet(result) \cup {c}
             /\ tierUsed' = tierUsed + d
      BY <2>1, TierStep
    <3>2. remaining' = remaining
      BY <2>1 DEF TakeInTier
    <3> HIDE DEF c, d
    <3>3. tierUsed' = tierUsed + d => remaining' - tierUsed' = room - d
      BY <1>1, <1>4, <3>2
    <3> QED BY <3>1, <3>2, <3>3
  <2>2. CASE Fill
    <3>1. \/ UNCHANGED <<result, remaining>>
          \/ /\ c \in ToSet(list) \ ToSet(result) /\ d <= remaining
             /\ ToSet(result') = ToSet(result) \cup {c}
             /\ remaining' = remaining - d
      BY <2>2, FillStep
    <3>2. tierUsed' = 0 /\ tierUsed = 0
      BY <1>2, <2>2 DEF Fill
    <3> HIDE DEF c, d
    <3>3. remaining' = remaining - d => remaining' - tierUsed' = room - d
      BY <1>1, <1>4, <3>2
    <3>4. d <= remaining => d <= room
      BY <1>1, <1>4, <3>2
    <3> QED BY <3>1, <3>2, <3>3, <3>4
  <2> QED BY <2>1, <2>2
<1>6. CASE UNCHANGED <<result, tierUsed, remaining>>
  BY <1>2, <1>3, <1>6 DEF SelectionStutters, Selection!vars
<1>7. CASE /\ c \in ToSet(list) \ ToSet(result) /\ d <= room
           /\ ToSet(result') = ToSet(result) \cup {c}
           /\ remaining' - tierUsed' = room - d
  <2> HIDE DEF c
  <2>1. Selection!Take(c)
    BY <1>2, <1>3, <1>7 DEF Selection!Take
  <2> QED BY <1>4, <2>1
<1> QED BY <1>5, <1>6, <1>7

\* The selection closes when no room is left, or when the second pass has gone through.
LEMMA SelectionCloses ==
    ASSUME BuilderTypes, ChosenInv, EndTiers \/ EndFill
    PROVE  Selection!Close \/ SelectionStutters
<1>1. TypeOK /\ list \in Seq(Chunks) /\ remaining \in Nat
  BY DEF BuilderTypes, TypeOK
<1>2. UNCHANGED <<list, result, remaining, tierUsed>> /\ step \in {"tiers", "fill"}
  BY DEF EndTiers, EndFill, loop
<1>3. tierUsed = 0
  <2>1. step = "tiers" => t > Len(Tiers)
    BY DEF EndTiers, EndFill
  <2> QED BY <1>2, <2>1 DEF BuilderTypes, BuilderPlaces
<1>4. Stage = "choosing"
  BY <1>2, StageIs
<1>5. CASE step' = "fill"
  <2>1. Stage' = "choosing"
    BY <1>5, StageIs
  <2> QED BY <1>2, <1>4, <2>1 DEF SelectionStutters, Selection!vars
<1>6. CASE step' = "sort"
  <2>1. Stage' = "closed"
    BY <1>6, StageIs
  <2>2. remaining - tierUsed = 0 \/ \A c \in ToSet(list) \ ToSet(result) : TokensOf[c] > remaining - tierUsed
    <3>1. CASE EndTiers
      <4>1. ~(remaining > 0)
        BY <1>6, <3>1 DEF EndTiers
      <4> QED BY <1>1, <1>3, <4>1
    <3>2. CASE EndFill
      <4>1. step = "fill" /\ i > Len(list) /\ i \in 1..(Len(list) + 1) /\ Len(list) \in Nat
        BY <1>1, <3>2 DEF EndFill, TypeOK
      <4>2. \A p \in 1..Len(list) : p \in 1..(i - 1)
        BY <4>1
      <4>3. \A p \in 1..(i - 1) : list[p] \in ToSet(result) \/ TokensOf[list[p]] > remaining
        BY <4>1 DEF ChosenInv
      <4>4. ASSUME NEW c \in ToSet(list) \ ToSet(result) PROVE TokensOf[c] > remaining
        <5>1. PICK p \in 1..Len(list) : c = list[p]
          BY <1>1 DEF ToSet
        <5> QED BY <4>2, <4>3, <4>4, <5>1
      <4>5. remaining - tierUsed = remaining
        BY <1>1, <1>3
      <4> QED BY <4>4, <4>5
    <3> QED BY <3>1, <3>2
  <2>3. Selection!Close
    BY <1>2, <1>4, <2>1, <2>2 DEF Selection!Close
  <2> QED BY <2>3
<1>7. step' \in {"fill", "sort"}
  BY DEF EndTiers, EndFill
<1> QED BY <1>5, <1>6, <1>7

\* Every other step of the builder is hidden from the selection.
LEMMA SelectionIdles ==
    ASSUME BuilderTypes, ChosenInv,
           \/ \E a, b, w : BuildHybridContext(a, b, w)
           \/ scoreAllChunks \/ EndTier \/ SortResult \/ UNCHANGED vars
    PROVE  SelectionStutters
<1>1. /\ list \in Seq(Chunks) /\ result \in Seq(Chunks) /\ remaining \in Nat /\ tierUsed \in Nat
  BY DEF BuilderTypes, TypeOK
<1>2. CASE UNCHANGED vars
  <2>1. UNCHANGED <<step, list, result, remaining, tierUsed>>
    BY <1>2 DEF vars, loop
  <2>2. Stage' = Stage
    BY <2>1 DEF Stage
  <2> QED BY <2>1, <2>2 DEF SelectionStutters, Selection!vars
<1>3. CASE (\E a, b, w : BuildHybridContext(a, b, w)) \/ scoreAllChunks
  <2>1. /\ step \in {"waiting", "score"} /\ step' \in {"score", "deduplicate"}
        /\ UNCHANGED <<result, remaining, tierUsed>>
    BY <1>3 DEF BuildHybridContext, scoreAllChunks, loop
  <2>2. Stage = "waiting" /\ Stage' = "waiting"
    BY <2>1, StageIs
  <2> QED BY <2>1, <2>2 DEF SelectionStutters, Selection!vars
<1>4. CASE EndTier
  <2>1. /\ step = "tiers" /\ UNCHANGED <<step, list, result>>
        /\ remaining' = remaining - tierUsed /\ tierUsed' = 0
    BY <1>4 DEF EndTier
  <2>2. Stage = "choosing" /\ Stage' = "choosing"
    BY <2>1, StageIs
  <2>3. remaining' - tierUsed' = remaining - tierUsed
    BY <1>1, <2>1
  <2> QED BY <2>1, <2>2, <2>3 DEF SelectionStutters, Selection!vars
<1>5. CASE SortResult
  <2>1. /\ step = "sort" /\ step' = "done" /\ UNCHANGED <<list, remaining, tierUsed>>
        /\ result' \in Descending(result, [c \in ToSet(result) |-> CombinedScore(c)])
    BY <1>5 DEF SortResult
  <2>2. Stage = "closed" /\ Stage' = "closed"
    BY <2>1, StageIs
  <2>3. ToSet(result') = ToSet(result)
    BY <1>1, <2>1, DescendingIs
  <2> QED BY <2>1, <2>2, <2>3 DEF SelectionStutters, Selection!vars
<1> QED BY <1>2, <1>3, <1>4, <1>5

\* The two passes over two budgets are one selection within one budget: nothing is
\* taken twice, nothing over the budget, and the call ends only when nothing that is
\* left would fit (fitToTokenBudget).
THEOREM BuilderSelects == SourcesSpec => SelectionSpec
<1> DEFINE IInv == FetchInv /\ BuilderTypes /\ ListInv /\ ChosenInv
<1>1. SourcesInit => IInv
  BY FetchInit, BuilderInit, ListInit, ChosenInit
<1>2. IInv /\ [SourcesNext]_<<retrievalVars, vars, toolVars>> => IInv'
  BY FetchStep, BuilderSteps, BuilderTypesStep, ListStep, ChosenStep
<1>3. IInv /\ [SourcesNext]_<<retrievalVars, vars, toolVars>> => [Selection!Next]_(Selection!vars)
  <2> SUFFICES ASSUME BuilderTypes, ListInv, ChosenInv, BuilderActions
               PROVE  Selection!Next \/ SelectionStutters
    BY BuilderSteps DEF SelectionStutters
  <2> QED BY SelectionOpens, SelectionTakes, SelectionCloses, SelectionIdles
             DEF BuilderActions, Selection!Next
<1>4. SourcesInit => Selection!Init
  BY SelectionInit
<1> HIDE DEF IInv
<1> QED BY <1>1, <1>2, <1>3, <1>4, PTL DEF SourcesSpec, SelectionSpec, Selection!Spec

-----------------------------------------------------------------------------
(* HybridContext: the breakdown.  While the tiers are gone through, the tier   *)
(* in hand has its tokens in tierUsed and nothing yet in the breakdown, nor    *)
(* have the tiers after it.                                                    *)

\* The names in a breakdown.
BreakdownNames == TierNames \cup {"default"}

\* All the tokens of the breakdown.
BreakdownTotal == SumOf(SetToSeq(DOMAIN tierBreakdown), tierBreakdown)

\* The result weighs what the breakdown and the tier in hand have together.
SumInv ==
    /\ step \in {"tiers", "fill", "sort"} \/ (step = "done" /\ config.tokenBudget > 0) =>
          SumTokens(result) = BreakdownTotal + tierUsed
    /\ step = "tiers" =>
          \A u \in 1..Len(Tiers) : u >= t => tierBreakdown[Tiers[u].name] = 0

\* The names of the breakdown are finitely many, and so can be added up.
LEMMA NamesListed ==
    /\ SetToSeq(BreakdownNames) \in Seq(BreakdownNames)
    /\ IsInjective(SetToSeq(BreakdownNames))
    /\ ToSet(SetToSeq(BreakdownNames)) = BreakdownNames
<1> DEFINE names == [u \in 1..Len(Tiers) |-> Tiers[u].name]
<1>1. names \in Seq(TierNames) /\ DOMAIN names = 1..Len(Tiers)
  BY TiersAre
<1>2. ToSet(names) = TierNames
  <2>1. ToSet(names) = {names[u] : u \in 1..Len(Tiers)}
    BY <1>1 DEF ToSet
  <2> QED BY <2>1, TiersAre DEF TierNames
<1> HIDE DEF names
<1>3. IsFiniteSet(TierNames)
  BY <1>1, <1>2, ElementsFinite
<1>4. IsFiniteSet(BreakdownNames)
  BY <1>3, FS_AddElement DEF BreakdownNames
<1> QED BY <1>4, SetListed

\* One name with other tokens changes the total by the difference.
LEMMA TotalReweighed ==
    ASSUME NEW w \in [BreakdownNames -> Nat], NEW e \in BreakdownNames, NEW n \in Nat
    PROVE  SumOf(SetToSeq(DOMAIN [w EXCEPT ![e] = n]), [w EXCEPT ![e] = n]) + w[e]
              = SumOf(SetToSeq(DOMAIN w), w) + n
<1> DEFINE s == SetToSeq(BreakdownNames)
<1>1. s \in Seq(BreakdownNames) /\ IsInjective(s) /\ e \in ToSet(s)
  BY NamesListed
<1>2. DOMAIN w = BreakdownNames /\ DOMAIN [w EXCEPT ![e] = n] = BreakdownNames
  OBVIOUS
<1> DEFINE v == [w EXCEPT ![e] = n]
<1>3. v \in [BreakdownNames -> Nat] /\ v[e] = n /\ \A x \in BreakdownNames : x # e => v[x] = w[x]
  OBVIOUS
<1> HIDE DEF s, v
<1>4. SumOf(s, v) + w[e] = SumOf(s, w) + v[e]
  BY <1>1, <1>3, SumReweighed
<1> QED BY <1>2, <1>3, <1>4 DEF s, v

\* The total is a number, and of a breakdown with no tokens it is zero.
LEMMA TotalIs ==
    ASSUME NEW w \in [BreakdownNames -> Nat]
    PROVE  /\ SumOf(SetToSeq(DOMAIN w), w) \in Nat
           /\ (\A e \in BreakdownNames : w[e] = 0) => SumOf(SetToSeq(DOMAIN w), w) = 0
<1> DEFINE s == SetToSeq(BreakdownNames)
<1>1. s \in Seq(BreakdownNames) /\ DOMAIN w = BreakdownNames
  BY NamesListed
<1> HIDE DEF s
<1>2. SumOf(s, w) \in Nat
  BY <1>1, SumIsNat
<1>3. (\A e \in BreakdownNames : w[e] = 0) => SumOf(s, w) = 0
  BY <1>1, SumOfZeros
<1> QED BY <1>1, <1>2, <1>3 DEF s

\* Nothing is accounted for before the call.
LEMMA SumInit == SourcesInit => SumInv
  BY DEF SourcesInit, RetrievalInit, NotAsked, Init, SumInv

\* Both passes add to the breakdown what they add to the result.
LEMMA PassesAddUp ==
    ASSUME BuilderTypes, ListInv, ChosenInv, SumInv, TakeInTier \/ EndTier \/ Fill
    PROVE  SumInv'
<1>1. /\ result \in Seq(Chunks) /\ tierUsed \in Nat /\ config' = config
      /\ tierBreakdown \in [BreakdownNames -> Nat]
      /\ TokensOf \in [Chunks -> Nat] /\ TypeOK
      /\ t \in 1..(Len(Tiers) + 1) /\ Len(Tiers) \in Nat
  BY ChunksAssumption, TiersAre DEF BuilderTypes, TypeOK, BreakdownNames, TakeInTier, EndTier, Fill, input
<1>2. step \in {"tiers", "fill"} /\ step' = step
  BY DEF TakeInTier, EndTier, Fill
<1> DEFINE sum == SumTokens(result)
           sumNext == SumTokens(result')
           total == BreakdownTotal
           totalNext == SumOf(SetToSeq(DOMAIN tierBreakdown'), tierBreakdown')
<1>3. sum = total + tierUsed
  BY <1>2 DEF SumInv
<1>4. sum \in Nat /\ total \in Nat
  BY <1>1, SumIsNat, TotalIs DEF SumTokens, BreakdownTotal
<1>5. sumNext = SumTokens(result)' /\ totalNext = BreakdownTotal'
  BY DEF SumTokens, BreakdownTotal
<1>6. ASSUME NEW c \in Chunks, result' = Append(result, c)
      PROVE  sumNext = sum + TokensOf[c] /\ TokensOf[c] \in Nat
  BY <1>1, <1>6, SumAppend DEF SumTokens
<1>7. CASE TakeInTier
  <2> DEFINE c == list[i]
             d == TokensOf[c]
  <2>1. /\ step = "tiers" /\ i <= Len(list) /\ UNCHANGED <<step, t, tierBreakdown>>
        /\ \/ result' = Append(result, c) /\ tierUsed' = tierUsed + d
           \/ UNCHANGED <<result, tierUsed>>
    BY <1>7 DEF TakeInTier
  <2>2. c \in Chunks
    BY <1>1, <2>1, ChunkAt
  <2>3. totalNext = total
    BY <2>1 DEF BreakdownTotal
  <2>4. sumNext = total + tierUsed'
    <3>1. CASE result' = Append(result, c) /\ tierUsed' = tierUsed + d
      <4>1. sumNext = sum + d /\ d \in Nat
        BY <1>6, <2>2, <3>1
      <4> HIDE DEF sum, sumNext, total, totalNext, c, d
      <4> QED BY <1>1, <1>3, <1>4, <3>1, <4>1
    <3>2. CASE UNCHANGED <<result, tierUsed>>
      BY <1>3, <3>2
    <3> QED BY <2>1, <3>1, <3>2
  <2>5. \A u \in 1..Len(Tiers) : u >= t' => tierBreakdown'[Tiers[u].name] = 0
    BY <2>1 DEF SumInv
  <2> HIDE DEF sum, sumNext, total, totalNext, c, d
  <2> QED BY <1>5, <2>1, <2>3, <2>4, <2>5 DEF SumInv
<1>8. CASE EndTier
  <2>1. /\ step = "tiers" /\ t <= Len(Tiers) /\ t' = t + 1 /\ tierUsed' = 0 /\ result' = result
        /\ tierBreakdown' = [tierBreakdown EXCEPT ![Tiers[t].name] = tierUsed]
    BY <1>8 DEF EndTier
  <2>2. t \in 1..Len(Tiers) /\ Tiers[t].name \in BreakdownNames
    BY <1>1, <2>1, TiersAre DEF BreakdownNames
  <2>3. tierBreakdown[Tiers[t].name] = 0
    BY <1>1, <2>1, <2>2 DEF SumInv
  <2>4. totalNext + tierBreakdown[Tiers[t].name] = total + tierUsed
    BY <1>1, <2>1, <2>2, TotalReweighed DEF BreakdownTotal
  <2>5. totalNext \in Nat
    <3>1. tierBreakdown' \in [BreakdownNames -> Nat]
      BY <1>1, <2>1
    <3> QED BY <3>1, TotalIs
  <2>6. sumNext = totalNext + tierUsed'
    <3>1. sumNext = sum
      BY <2>1
    <3> HIDE DEF sum, sumNext, total, totalNext
    <3> QED BY <1>1, <1>3, <1>4, <2>1, <2>3, <2>4, <2>5, <3>1
  <2>7. ASSUME NEW u \in 1..Len(Tiers), u >= t' PROVE tierBreakdown'[Tiers[u].name] = 0
    <3>1. u # t /\ u >= t
      BY <1>1, <2>1, <2>7
    <3>2. Tiers[u].name # Tiers[t].name
      BY <2>2, <3>1, TiersAre, TiersAssumption
    <3>3. tierBreakdown[Tiers[u].name] = 0
      BY <2>1, <3>1 DEF SumInv
    <3>4. Tiers[u].name \in BreakdownNames
      BY TiersAre DEF BreakdownNames
    <3> QED BY <1>1, <2>1, <3>2, <3>3, <3>4
  <2> HIDE DEF sum, sumNext, total, totalNext
  <2> QED BY <1>5, <2>6, <2>7 DEF SumInv
<1>9. CASE Fill
  <2> DEFINE c == list[i]
             d == TokensOf[c]
             e == PriorityTier(c)
  <2>1. /\ step = "fill" /\ i <= Len(list) /\ UNCHANGED <<step, tierUsed>>
        /\ \/ result' = Append(result, c) /\ tierBreakdown' = AddFor(c)
           \/ UNCHANGED <<result, tierBreakdown>>
    BY <1>9 DEF Fill
  <2>2. c \in Chunks
    BY <1>1, <2>1, ChunkAt
  <2>3. e \in BreakdownNames
    BY TierIsKnown DEF BreakdownNames
  <2>4. sumNext = totalNext + tierUsed
    <3>1. CASE result' = Append(result, c) /\ tierBreakdown' = AddFor(c)
      <4>1. sumNext = sum + d /\ d \in Nat
        BY <1>6, <2>2, <3>1
      <4>2. tierBreakdown' = [tierBreakdown EXCEPT ![e] = tierBreakdown[e] + d]
        BY <3>1 DEF AddFor
      <4>3. tierBreakdown[e] \in Nat /\ tierBreakdown[e] + d \in Nat
        <5> HIDE DEF e, d
        <5>1. tierBreakdown[e] \in Nat
          BY <1>1, <2>3
        <5> QED BY <4>1, <5>1
      <4>4. totalNext + tierBreakdown[e] = total + (tierBreakdown[e] + d)
        <5> HIDE DEF e, d
        <5> QED BY <1>1, <2>3, <4>2, <4>3, TotalReweighed DEF BreakdownTotal
      <4>5. totalNext \in Nat
        <5>1. tierBreakdown' \in [BreakdownNames -> Nat]
          <6> HIDE DEF e, d
          <6> QED BY <1>1, <2>3, <4>2, <4>3
        <5> QED BY <5>1, TotalIs
      <4> HIDE DEF sum, sumNext, total, totalNext, c, d, e
      <4> QED BY <1>1, <1>3, <1>4, <4>1, <4>3, <4>4, <4>5
    <3>2. CASE UNCHANGED <<result, tierBreakdown>>
      BY <1>3, <3>2 DEF BreakdownTotal
    <3> QED BY <2>1, <3>1, <3>2
  <2> HIDE DEF sum, sumNext, total, totalNext, c, d, e
  <2> QED BY <1>5, <2>1, <2>4 DEF SumInv
<1> QED BY <1>7, <1>8, <1>9

\* So does every step of the builder.
LEMMA SumStep == BuilderTypes /\ ListInv /\ ChosenInv /\ SumInv /\ BuilderActions => SumInv'
<1> SUFFICES ASSUME BuilderTypes, ListInv, ChosenInv, SumInv, BuilderActions PROVE SumInv'
  OBVIOUS
<1>1. /\ result \in Seq(Chunks) /\ TokensOf \in [Chunks -> Nat]
      /\ tierBreakdown \in [BreakdownNames -> Nat]
  BY ChunksAssumption DEF BuilderTypes, TypeOK, BreakdownNames
<1>2. ASSUME NEW a, NEW b, NEW w, BuildHybridContext(a, b, w)
      PROVE  SumInv'
  <2>1. step' = "score"
    BY <1>2 DEF BuildHybridContext
  <2> QED BY <2>1 DEF SumInv
<1>3. CASE scoreAllChunks
  <2>1. step' = "deduplicate"
    BY <1>3 DEF scoreAllChunks
  <2> QED BY <2>1 DEF SumInv
<1>4. CASE deduplicateByContent
  <2>1. /\ step = "deduplicate" /\ UNCHANGED <<config, t, tierUsed, tierBreakdown>>
        /\ \/ config.tokenBudget <= 0 /\ step' = "done"
           \/ step' = "tiers" /\ result' = result
    BY <1>4 DEF deduplicateByContent, input
  <2>2. result = <<>> /\ tierUsed = 0 /\ \A e \in BreakdownNames : tierBreakdown[e] = 0
    BY <2>1 DEF BuilderTypes, BuilderPlaces, BreakdownNames
  <2>3. SumTokens(<<>>) = 0
    BY <1>1, SumEmpty DEF SumTokens
  <2>4. BreakdownTotal = 0
    BY <1>1, <2>2, TotalIs DEF BreakdownTotal
  <2>5. BreakdownTotal' = BreakdownTotal
    BY <2>1 DEF BreakdownTotal
  <2>6. \A u \in 1..Len(Tiers) : tierBreakdown[Tiers[u].name] = 0
    BY <2>2, TiersAre DEF BreakdownNames
  <2>7. CASE step' = "tiers" /\ result' = result
    <3>1. SumTokens(result)' = 0
      BY <2>2, <2>3, <2>7
    <3> QED BY <2>1, <2>2, <2>4, <2>5, <2>6, <2>7, <3>1 DEF SumInv
  <2>8. CASE config.tokenBudget <= 0 /\ step' = "done"
    <3>1. config.tokenBudget \in Int
      <4>1. config \in [tokenBudget : Budgets \cup {0}, deduplicateByContent : BOOLEAN]
        BY DEF BuilderTypes, TypeOK
      <4>2. config.tokenBudget \in Budgets \/ config.tokenBudget = 0
        BY <4>1
      <4>3. config.tokenBudget \in Budgets => config.tokenBudget \in Int
        BY BudgetsAssumption
      <4> QED BY <4>2, <4>3
    <3>2. ~(config'.tokenBudget > 0)
      BY <2>1, <2>8, <3>1
    <3> QED BY <2>8, <3>2 DEF SumInv
  <2> QED BY <2>1, <2>7, <2>8
<1>5. CASE EndTiers \/ EndFill
  <2>1. /\ step \in {"tiers", "fill"} /\ step' \in {"fill", "sort"}
        /\ UNCHANGED <<result, tierUsed, tierBreakdown>>
    BY <1>5 DEF EndTiers, EndFill, loop
  <2>2. BreakdownTotal' = BreakdownTotal /\ SumTokens(result)' = SumTokens(result)
    BY <2>1 DEF BreakdownTotal
  <2> QED BY <2>1, <2>2 DEF SumInv
<1>6. CASE SortResult
  <2>1. /\ step = "sort" /\ step' = "done" /\ UNCHANGED <<tierUsed, tierBreakdown>>
        /\ result' \in Descending(result, [c \in ToSet(result) |-> CombinedScore(c)])
    BY <1>6 DEF SortResult
  <2>2. IsInjective(result)
    BY DEF ChosenInv
  <2>3. result' \in Seq(Chunks) /\ ToSet(result') = ToSet(result) /\ IsInjective(result')
    BY <1>1, <2>1, <2>2, DescendingIs
  <2>4. SumOf(result', TokensOf) = SumOf(result, TokensOf)
    BY <1>1, <2>2, <2>3, SumOfSet
  <2>5. BreakdownTotal' = BreakdownTotal /\ SumTokens(result)' = SumTokens(result)
    BY <2>1, <2>4 DEF BreakdownTotal, SumTokens
  <2> QED BY <2>1, <2>5 DEF SumInv
<1>7. CASE UNCHANGED vars
  <2>1. UNCHANGED <<config, step, t, result, tierUsed, tierBreakdown>>
    BY <1>7 DEF vars, input, loop
  <2>2. BreakdownTotal' = BreakdownTotal /\ SumTokens(result)' = SumTokens(result)
    BY <2>1 DEF BreakdownTotal
  <2> QED BY <2>1, <2>2 DEF SumInv
<1> QED BY <1>2, <1>3, <1>4, <1>5, <1>6, <1>7, PassesAddUp DEF BuilderActions

\* The tokens the breakdown gives each tier add up to those of the chunks returned,
\* whichever pass took them (fitToTokenBudget).
THEOREM BreakdownStaysExact == SourcesSpec => []BreakdownAddsUp
<1> DEFINE IInv == FetchInv /\ BuilderTypes /\ ListInv /\ ChosenInv /\ SumInv
<1>1. SourcesInit => IInv
  BY FetchInit, BuilderInit, ListInit, ChosenInit, SumInit
<1>2. IInv /\ [SourcesNext]_<<retrievalVars, vars, toolVars>> => IInv'
  BY FetchStep, BuilderSteps, BuilderTypesStep, ListStep, ChosenStep, SumStep
<1>3. IInv => BreakdownAddsUp
  <2> SUFFICES ASSUME BuilderTypes, SumInv, step = "done" /\ config.tokenBudget > 0
               PROVE  SumTokens(result) = BreakdownTotal
    BY DEF BreakdownAddsUp, BreakdownTotal
  <2>1. SumTokens(result) = BreakdownTotal + tierUsed /\ tierUsed = 0
    BY DEF SumInv, BuilderTypes, BuilderPlaces
  <2>2. BreakdownTotal \in Nat
    BY TotalIs DEF BuilderTypes, TypeOK, BreakdownTotal, BreakdownNames
  <2> QED BY <2>1, <2>2
<1> HIDE DEF IInv
<1> QED BY <1>1, <1>2, <1>3, PTL DEF SourcesSpec

-----------------------------------------------------------------------------
(* DocumentRetrieval: from the start.  The prompt is a beginning of the       *)
(* ranking, which is sorted as the library is, and of a file the ranking has  *)
(* a beginning: so what the prompt has of a file cannot have a gap.           *)

\* With whole documents, what is ranked is what was fetched, sorted by document.
SortedInv ==
    (at \in {"result", "format"} \/ answer = "injected") /\ request.strategy = "full" =>
        ranked = ByDocument(fetched)

\* Before the call nothing is ranked.
LEMMA SortedInit == SourcesInit => SortedInv
<1> SUFFICES ASSUME SourcesInit PROVE SortedInv
  OBVIOUS
<1>1. RetrievalIdle /\ at \in {"asked", "done"}
  BY DEF SourcesInit, RetrievalInit, NotAsked
<1> QED BY <1>1 DEF RetrievalIdle, SortedInv

\* Every step after the sort leaves the ranking as it is.
LEMMA SortedStep ==
    FetchInv /\ PagesInv /\ SortedInv /\ [SourcesNext]_<<retrievalVars, vars, toolVars>> => SortedInv'
<1> SUFFICES ASSUME FetchInv, PagesInv, SortedInv, RetrievalActions PROVE SortedInv'
  BY RetrievalSteps
<1>1. CASE at' \notin {"result", "format"} /\ answer' # "injected"
  BY <1>1 DEF SortedInv
<1>2. CASE \/ buildSystemPromptWithContext \/ RetrieveFullDocuments \/ fetchChunksForFile
           \/ fetchAllChunksForTenant \/ Build
  <2>1. /\ at \in {"asked", "files", "page", "tenant", "building"}
        /\ at' \in {"done", "search", "files", "page", "tenant", "combine", "building"}
        /\ answer' \in {answer, "own prompt", "no context", "error", "built"}
    <3>1. CASE buildSystemPromptWithContext
      BY <3>1 DEF buildSystemPromptWithContext, End
    <3>2. CASE RetrieveFullDocuments
      BY <3>2 DEF RetrieveFullDocuments
    <3>3. CASE fetchChunksForFile
      <4>1. at' \in {"page", "combine"}
        BY <3>3 DEF fetchChunksForFile, FetchPage, FailedFile, NextFile
      <4> QED BY <3>3, <4>1 DEF fetchChunksForFile
    <3>4. CASE fetchAllChunksForTenant
      BY <3>4 DEF fetchAllChunksForTenant, Fail, End
    <3>5. CASE Build
      BY <3>5 DEF Build, End
    <3> QED BY <1>2, <3>1, <3>2, <3>3, <3>4, <3>5
  <2>2. answer = "none"
    BY <2>1 DEF PagesInv
  <2> QED BY <1>1, <2>1, <2>2
<1>3. CASE RetrieveVectorContext
  <2>1. /\ at = "search" /\ at' \in {"done", "files", "result"} /\ request' = request
        /\ answer' \in {answer, "error", "no context"}
    BY <1>3 DEF RetrieveVectorContext, Fail, End
  <2>2. request.strategy # "full" /\ answer = "none"
    BY <2>1 DEF PagesInv
  <2> QED BY <2>1, <2>2 DEF SortedInv
<1>4. CASE Combine
  <2>1. /\ at = "combine" /\ answer' = answer /\ request' = request /\ fetched' = fetched
        /\ \/ request.strategy = "full" => ranked' = ByDocument(fetched)
           \/ at' = "building"
    BY <1>4 DEF Combine, fetch
  <2>2. answer = "none"
    BY <2>1 DEF PagesInv
  <2>3. ByDocument(fetched)' = ByDocument(fetched)
    BY <2>1
  <2> QED BY <2>1, <2>2, <2>3 DEF SortedInv
<1>5. CASE UNCHANGED <<request, fetched, ranked>> /\ (at \in {"result", "format"} \/ (at' = at /\ answer' = answer))
  <2>1. ByDocument(fetched)' = ByDocument(fetched)
    BY <1>5
  <2> QED BY <1>5, <2>1 DEF SortedInv
<1>6. CASE FormatContextForInjection
  <2>1. UNCHANGED <<request, fetched, ranked>> /\ at \in {"result", "format"}
    BY <1>6 DEF FormatContextForInjection, StartFormat, FormatChunk, EndFormat, fetch
  <2> QED BY <1>5, <2>1
<1>7. CASE RetrievalStutters
  BY <1>5, <1>7 DEF RetrievalStutters
<1> QED BY <1>2, <1>3, <1>4, <1>6, <1>7 DEF RetrievalActions

\* Sorted by document, chunks stand as they do in the library.
LEMMA RankedInOrder ==
    ASSUME NEW s \in Seq(Chunks),
           NEW a \in 1..Len(ByDocument(s)), NEW b \in 1..Len(ByDocument(s)), a <= b
    PROVE  \E p \in 1..Len(Library), q \in 1..Len(Library) :
              p <= q /\ ByDocument(s)[a] = Library[p] /\ ByDocument(s)[b] = Library[q]
<1> DEFINE seqs == [n \in DOMAIN Library |-> KeepIn(s, {Library[n]})]
<1>1. \A n \in DOMAIN Library : /\ KeepIn(s, {Library[n]}) \in Seq(Chunks)
                                /\ ToSet(KeepIn(s, {Library[n]})) = ToSet(s) \cap {Library[n]}
  BY KeepIsSeq, KeepSet
<1>2. Len(Library) \in Nat /\ DOMAIN Library = 1..Len(Library)
  BY LibraryAssumption
<1>3. seqs \in Seq(Seq(Chunks)) /\ Len(seqs) = Len(Library)
  <2>1. seqs \in [1..Len(Library) -> Seq(Chunks)]
    BY <1>1, <1>2
  <2> QED BY <1>2, <2>1
<1>4. ByDocument(s) = FlattenSeq(seqs)
  BY DEF ByDocument
<1>5. OneEach(seqs, Library)
  <2> SUFFICES ASSUME NEW n \in 1..Len(seqs), NEW d \in 1..Len(seqs[n]) PROVE seqs[n][d] = Library[n]
    BY DEF OneEach
  <2> DEFINE r == seqs[n]
  <2>1. r \in Seq(Chunks) /\ ToSet(r) \subseteq {Library[n]}
    BY <1>1, <1>2, <1>3
  <2> HIDE DEF r
  <2>2. d \in DOMAIN r => r[d] \in ToSet(r)
    BY DEF ToSet
  <2>3. d \in DOMAIN r
    BY <2>1 DEF r
  <2> QED BY <2>1, <2>2, <2>3 DEF r
<1> HIDE DEF seqs
<1>6. InOrderOf(FlattenSeq(seqs), Library, Len(seqs))
  BY <1>3, <1>5, JoinedInOrder
<1>7. a \in 1..Len(FlattenSeq(seqs)) /\ b \in 1..Len(FlattenSeq(seqs)) /\ a <= b
  BY <1>4
<1> DEFINE r == FlattenSeq(seqs)
<1>8. /\ InOrderOf(r, Library, Len(Library)) /\ ByDocument(s) = r
      /\ a \in 1..Len(r) /\ b \in 1..Len(r) /\ a <= b
  BY <1>3, <1>4, <1>6, <1>7
<1> HIDE DEF r
<1>9. \E p \in 1..Len(Library), q \in 1..Len(Library) :
         p <= q /\ r[a] = Library[p] /\ r[b] = Library[q]
  BY <1>8 DEF InOrderOf
<1> QED BY <1>8, <1>9

\* A file's chunks are its own, each once, and stand as they do in the library.
LEMMA FileInOrder ==
    ASSUME NEW f \in Files
    PROVE  /\ ChunksOf[f] \in Seq(Chunks) /\ IsInjective(ChunksOf[f])
           /\ \A a \in 1..Len(ChunksOf[f]) : FileOf[ChunksOf[f][a]] = f
           /\ \A a \in 1..Len(ChunksOf[f]), b \in 1..Len(ChunksOf[f]) : a < b =>
                 \E p \in 1..Len(Library), q \in 1..Len(Library) :
                    p < q /\ Library[p] = ChunksOf[f][a] /\ Library[q] = ChunksOf[f][b]
<1> DEFINE own == {c \in Chunks : FileOf[c] = f}
           all == KeepIn(Library, own)
<1>1. ChunksOf[f] = all
  BY DEF ChunksOf
<1>2. all \in Seq(Chunks) /\ ToSet(all) \subseteq own /\ IsInjective(all)
  BY LibraryAssumption, KeepIsSeq, KeepSet, KeepOnce
<1>3. \A c \in own : FileOf[c] = f
  OBVIOUS
<1> HIDE DEF own
<1>4. ASSUME NEW a \in 1..Len(all), NEW b \in 1..Len(all), a < b
      PROVE  \E p \in 1..Len(Library), q \in 1..Len(Library) :
                p < q /\ Library[p] = all[a] /\ Library[q] = all[b]
  <2>1. Len(all) \in Nat
    BY <1>2
  <2>2. a \in Nat \ {0} /\ b \in Nat /\ b <= Len(all)
    BY <2>1
  <2> QED BY <1>4, <2>2, LibraryAssumption, KeepOrder
<1> HIDE DEF all
<1>5. \A a \in 1..Len(all) : FileOf[all[a]] = f
  <2> SUFFICES ASSUME NEW a \in 1..Len(all) PROVE FileOf[all[a]] = f
    OBVIOUS
  <2>1. a \in DOMAIN all
    BY <1>2
  <2>2. all[a] \in ToSet(all)
    BY <2>1 DEF ToSet
  <2> QED BY <1>2, <1>3, <2>2
<1> QED BY <1>1, <1>2, <1>4, <1>5

\* Of a file, a beginning was fetched, or nothing.
LEMMA FileFetched ==
    ASSUME FetchInv, FetchedFrom(Len(request.selected)), NEW f \in ToSet(request.selected)
    PROVE  \E m \in 0..Len(ChunksOf[f]) :
              \A c : c \in ToSet(fetched) /\ FileOf[c] = f <=> \E a \in 1..m : c = ChunksOf[f][a]
<1> DEFINE sel == request.selected
           n == Len(sel)
           seqs == [j \in 1..n |-> IF j \in skipped THEN <<>> ELSE BeginningIn(sel[j], fileBudget)]
<1>1. /\ sel \in Seq(Files) /\ n \in Nat /\ fileBudget \in Nat /\ page \in 1..MaxPages
  BY SelectedFiles, LimitsAssumption DEF FetchInv, RetrievalTypes
<1>2. fetched = FlattenSeq(seqs)
  BY DEF FetchedFrom, OfFirst
<1>3. f \in Files /\ \E j \in 1..n : sel[j] = f
  BY <1>1 DEF ToSet
<1>4. \A g \in Files : /\ BeginningIn(g, fileBudget) \in Seq(Chunks)
                       /\ \E m \in 0..Len(ChunksOf[g]) :
                             BeginningIn(g, fileBudget) = SubSeq(ChunksOf[g], 1, m)
  BY <1>1, BeginningHolds
<1>5. seqs \in Seq(Seq(Chunks)) /\ DOMAIN seqs = 1..n
  <2>1. <<>> \in Seq(Chunks)
    OBVIOUS
  <2>2. seqs \in [1..n -> Seq(Chunks)]
    BY <1>1, <1>4, <2>1
  <2> QED BY <1>1, <2>2
<1>6. \A j \in 1..n : seqs[j] = IF j \in skipped THEN <<>> ELSE BeginningIn(sel[j], fileBudget)
  OBVIOUS
<1> HIDE DEF seqs
<1>7. \A c : c \in ToSet(fetched) <=> \E j \in 1..n : c \in ToSet(seqs[j])
  <2>1. ToSet(fetched) = UNION {ToSet(r) : r \in ToSet(seqs)}
    BY <1>2, <1>5, FlattenElements
  <2>2. ToSet(seqs) = {seqs[j] : j \in 1..n}
    BY <1>5 DEF ToSet
  <2> QED BY <2>1, <2>2
<1>8. \A g \in Files : \A m \in 0..Len(ChunksOf[g]) :
         ToSet(SubSeq(ChunksOf[g], 1, m)) = {ChunksOf[g][a] : a \in 1..m}
  <2> SUFFICES ASSUME NEW g \in Files, NEW m \in 0..Len(ChunksOf[g])
               PROVE  ToSet(SubSeq(ChunksOf[g], 1, m)) = {ChunksOf[g][a] : a \in 1..m}
    OBVIOUS
  <2> DEFINE all == ChunksOf[g]
             r == SubSeq(all, 1, m)
  <2>1. all \in Seq(Chunks)
    BY FileInOrder
  <2> HIDE DEF all
  <2>2. DOMAIN r = 1..m /\ \A a \in 1..m : r[a] = all[a]
    BY <2>1 DEF all
  <2> HIDE DEF r
  <2>3. ToSet(r) = {all[a] : a \in 1..m}
    BY <2>2 DEF ToSet
  <2> QED BY <2>3 DEF r, all
<1>9. PICK m \in 0..Len(ChunksOf[f]) : BeginningIn(f, fileBudget) = SubSeq(ChunksOf[f], 1, m)
  BY <1>3, <1>4
<1>10. \A g \in Files : \A a \in 1..Len(ChunksOf[g]) : FileOf[ChunksOf[g][a]] = g
  BY FileInOrder
<1>11. \A x \in 0..Len(ChunksOf[f]) : \A a \in 1..x : a \in 1..Len(ChunksOf[f])
  <2>1. Len(ChunksOf[f]) \in Nat
    BY <1>3, FileInOrder
  <2> QED BY <2>1
<1>12. ASSUME NEW j \in 1..n, NEW c \in ToSet(seqs[j]), FileOf[c] = f
       PROVE  j \notin skipped /\ sel[j] = f
  <2>1. ToSet(<<>>) = {}
    BY DEF ToSet
  <2>2. j \notin skipped /\ c \in ToSet(BeginningIn(sel[j], fileBudget))
    BY <1>6, <1>12, <2>1
  <2>3. sel[j] \in Files
    BY <1>1
  <2>4. PICK x \in 0..Len(ChunksOf[sel[j]]) : BeginningIn(sel[j], fileBudget) = SubSeq(ChunksOf[sel[j]], 1, x)
    BY <1>4, <2>3
  <2>5. PICK a \in 1..x : c = ChunksOf[sel[j]][a]
    <3> DEFINE g == sel[j]
    <3>1. g \in Files /\ x \in 0..Len(ChunksOf[g]) /\ c \in ToSet(SubSeq(ChunksOf[g], 1, x))
      BY <2>2, <2>3, <2>4
    <3> HIDE DEF g
    <3>2. ToSet(SubSeq(ChunksOf[g], 1, x)) = {ChunksOf[g][a] : a \in 1..x}
      BY <1>8, <3>1
    <3>3. \E a \in 1..x : c = ChunksOf[g][a]
      BY <3>1, <3>2
    <3> QED BY <3>3 DEF g
  <2>6. a \in 1..Len(ChunksOf[sel[j]])
    <3>1. Len(ChunksOf[sel[j]]) \in Nat
      BY <2>3, FileInOrder
    <3> QED BY <3>1
  <2> QED BY <1>10, <1>12, <2>2, <2>3, <2>5, <2>6
<1>13. CASE \E j \in 1..n : j \notin skipped /\ sel[j] = f
  <2>1. ASSUME NEW c
        PROVE  c \in ToSet(fetched) /\ FileOf[c] = f <=> \E a \in 1..m : c = ChunksOf[f][a]
    <3>1. ASSUME c \in ToSet(fetched), FileOf[c] = f PROVE \E a \in 1..m : c = ChunksOf[f][a]
      <4>1. PICK j \in 1..n : c \in ToSet(seqs[j])
        BY <1>7, <3>1
      <4>2. j \notin skipped /\ sel[j] = f
        BY <1>12, <3>1, <4>1
      <4>3. c \in ToSet(SubSeq(ChunksOf[f], 1, m))
        BY <1>6, <1>9, <4>1, <4>2
      <4> QED BY <1>3, <1>8, <4>3
    <3>2. ASSUME NEW a \in 1..m, c = ChunksOf[f][a] PROVE c \in ToSet(fetched) /\ FileOf[c] = f
      <4>1. PICK j \in 1..n : j \notin skipped /\ sel[j] = f
        BY <1>13
      <4>2. seqs[j] = SubSeq(ChunksOf[f], 1, m)
        BY <1>6, <1>9, <4>1
      <4>3. c \in ToSet(SubSeq(ChunksOf[f], 1, m))
        <5>1. ToSet(SubSeq(ChunksOf[f], 1, m)) = {ChunksOf[f][x] : x \in 1..m}
          BY <1>3, <1>8
        <5> QED BY <3>2, <5>1
      <4>4. FileOf[c] = f
        BY <1>3, <1>10, <1>11, <3>2
      <4> QED BY <1>7, <4>2, <4>3, <4>4
    <3> QED BY <3>1, <3>2
  <2> QED BY <2>1
<1>14. CASE ~(\E j \in 1..n : j \notin skipped /\ sel[j] = f)
  <2>1. ASSUME NEW c PROVE ~(c \in ToSet(fetched) /\ FileOf[c] = f)
    BY <1>7, <1>12, <1>14
  <2>2. 0 \in 0..Len(ChunksOf[f]) /\ 1..0 = {}
    <3>1. Len(ChunksOf[f]) \in Nat
      BY <1>3, FileInOrder
    <3> QED BY <3>1
  <2> QED BY <2>1, <2>2
<1> QED BY <1>13, <1>14

\* What the prompt holds of a file is its beginning.
LEMMA NoGaps ==
    ASSUME FetchInv, PagesInv, SortedInv, answer = "injected", request.strategy = "full",
           NEW f \in ToSet(request.selected)
    PROVE  \E n \in 0..Len(ChunksOf[f]) :
              {c \in Injected : FileOf[c] = f} = ToSet(SubSeq(ChunksOf[f], 1, n))
<1> DEFINE whole == ChunksOf[f]
           D == {a \in 1..Len(whole) : whole[a] \in Injected}
           S == {0} \cup D
           n == Max(S)
<1>1. /\ request.selected \in Seq(Files) /\ fetched \in Seq(Chunks) /\ ranked \in Seq(Chunks)
      /\ taken \in 0..Len(ranked) /\ Len(ranked) \in Nat
  BY SelectedFiles DEF FetchInv, RetrievalTypes
<1>2. f \in Files /\ request.selected # <<>>
  BY <1>1 DEF ToSet
<1>3. /\ whole \in Seq(Chunks) /\ Len(whole) \in Nat /\ IsInjective(whole)
      /\ \A a \in 1..Len(whole) : FileOf[whole[a]] = f
  BY <1>2, FileInOrder
<1>4. PICK m \in 0..Len(whole) :
         \A c : c \in ToSet(fetched) /\ FileOf[c] = f <=> \E a \in 1..m : c = whole[a]
  <2>1. FetchedFrom(Len(request.selected))
    BY <1>2 DEF PagesInv
  <2> QED BY <2>1, FileFetched
<1>5. ranked = ByDocument(fetched) /\ ToSet(ranked) = ToSet(fetched)
  BY <1>1, SortedByDocument DEF SortedInv
<1>6. \A c : c \in Injected <=> \E x \in 1..taken : c = ranked[x]
  BY DEF Injected
<1>7. \A c \in Injected : c \in ToSet(fetched)
  <2> SUFFICES ASSUME NEW x \in 1..taken PROVE ranked[x] \in ToSet(ranked)
    BY <1>5, <1>6
  <2>1. x \in DOMAIN ranked
    BY <1>1
  <2> QED BY <2>1 DEF ToSet
<1> HIDE DEF whole
<1>8. n \in S /\ (\A x \in S : x <= n) /\ n \in 0..Len(whole)
  <2> DEFINE L == Len(whole)
  <2>1. L \in Nat /\ S \in SUBSET (0..L) /\ S # {}
    BY <1>3
  <2> HIDE DEF L, S
  <2>2. n \in S /\ (\A x \in S : x <= n) /\ n \in 0..L
    BY <2>1, BoundedMax
  <2> QED BY <2>2 DEF L
<1> HIDE DEF n
<1>9. ASSUME NEW c \in Injected, FileOf[c] = f PROVE \E a \in 1..n : c = whole[a]
  <2>1. PICK a \in 1..m : c = whole[a]
    BY <1>4, <1>7, <1>9
  <2>2. a \in 1..Len(whole)
    BY <1>3
  <2>3. a \in S
    BY <1>9, <2>1, <2>2
  <2>4. a \in 1..n
    BY <1>8, <2>2, <2>3
  <2> QED BY <2>1, <2>4
<1>10. ASSUME NEW a \in 1..n PROVE whole[a] \in Injected /\ FileOf[whole[a]] = f
  <2>1. a \in 1..Len(whole) /\ n \in 1..Len(whole) /\ a <= n
    BY <1>3, <1>8
  <2>2. whole[n] \in Injected
    <3>1. n # 0
      BY <2>1
    <3> QED BY <1>8, <3>1
  <2>3. n <= m
    <3>1. whole[n] \in ToSet(fetched) /\ FileOf[whole[n]] = f
      BY <1>3, <1>7, <2>1, <2>2
    <3>2. PICK b \in 1..m : whole[n] = whole[b]
      BY <1>4, <3>1
    <3>3. b \in 1..Len(whole)
      BY <1>3
    <3>4. b = n
      <4>1. DOMAIN whole = 1..Len(whole)
        BY <1>3
      <4> QED BY <1>3, <2>1, <3>2, <3>3, <4>1 DEF IsInjective
    <3> QED BY <3>4
  <2>4. PICK x \in 1..taken : whole[n] = ranked[x]
    BY <1>6, <2>2
  <2>5. CASE a = n
    BY <1>3, <2>1, <2>2, <2>5
  <2>6. CASE a # n
    <3>1. PICK y \in 1..Len(ranked) : whole[a] = ranked[y]
      <4>1. a \in 1..m
        BY <2>1, <2>3
      <4>2. whole[a] \in ToSet(ranked)
        BY <1>4, <1>5, <4>1
      <4> QED BY <1>1, <4>2 DEF ToSet
    <3>2. y <= taken
      <4> SUFFICES ASSUME y > taken PROVE FALSE
        BY <1>1
      <4>1. x \in 1..Len(ranked) /\ x <= y
        BY <1>1
      <4>2. PICK p \in 1..Len(Library), q \in 1..Len(Library) :
               p <= q /\ ranked[x] = Library[p] /\ ranked[y] = Library[q]
        BY <1>1, <1>5, <4>1, RankedInOrder
      <4>3. PICK r \in 1..Len(Library), z \in 1..Len(Library) :
               r < z /\ Library[r] = whole[a] /\ Library[z] = whole[n]
        BY <1>2, <2>6, <2>1, FileInOrder DEF whole
      <4>4. p = z /\ q = r
        <5>1. DOMAIN Library = 1..Len(Library) /\ IsInjective(Library)
          BY LibraryAssumption
        <5> QED BY <2>4, <3>1, <4>2, <4>3, <5>1 DEF IsInjective
      <4> QED BY <4>2, <4>3, <4>4
    <3>3. y \in 1..taken
      BY <1>1, <3>2
    <3> QED BY <1>3, <1>6, <2>1, <3>1, <3>3
  <2> QED BY <2>5, <2>6
<1>11. ToSet(SubSeq(whole, 1, n)) = {whole[a] : a \in 1..n}
  <2> DEFINE r == SubSeq(whole, 1, n)
  <2>1. DOMAIN r = 1..n /\ \A a \in 1..n : r[a] = whole[a]
    BY <1>3, <1>8
  <2> HIDE DEF r
  <2>2. ToSet(r) = {whole[a] : a \in 1..n}
    BY <2>1 DEF ToSet
  <2> QED BY <2>2 DEF r
<1>12. {c \in Injected : FileOf[c] = f} = ToSet(SubSeq(whole, 1, n))
  BY <1>9, <1>10, <1>11
<1> QED BY <1>8, <1>12 DEF whole

\* With whole documents a prompt has every selected file from its start, without a
\* gap, wherever the pages end and wherever the prompt is cut (FormatContextForInjection).
THEOREM AlwaysFromTheStart == SourcesSpec => []ReadsFromTheStart
<1>1. SourcesInit => FetchInv /\ PagesInv /\ SortedInv
  BY FetchInit, PagesInit, SortedInit
<1>2. FetchInv /\ PagesInv /\ SortedInv /\ [SourcesNext]_<<retrievalVars, vars, toolVars>>
         => (FetchInv /\ PagesInv /\ SortedInv)'
  BY FetchStep, PagesStep, SortedStep
<1>3. FetchInv /\ PagesInv /\ SortedInv => ReadsFromTheStart
  BY NoGaps DEF ReadsFromTheStart
<1> QED BY <1>1, <1>2, <1>3, PTL DEF SourcesSpec
=============================================================================
