-------------------------- MODULE DocumentRetrieval --------------------------
(***************************************************************************)
(* The document context of one execution: what the handlers decide, the    *)
(* vector search, the files fetched page by page, and how the two become   *)
(* a ranking, which is cut to the agent's limit and put into the prompt,   *)
(* or the input of the HybridContextBuilder, whose steps follow.           *)
(*                                                                         *)
(* Any request may fail.  The store of chunks pages truthfully, but it may *)
(* say that there is more when there is not.                               *)
(*                                                                         *)
(* A chunk is one identity.  The merge tells chunks apart by document and  *)
(* number, the builder by ID: it is assumed that these agree, that is that *)
(* the other service numbers the chunks of a document and repeats no ID.   *)
(***************************************************************************)
EXTENDS HybridContext

CONSTANTS Library,       \* all chunks, by document and number
          FileOf,        \* [Chunks -> Files]
          Files,
          Indexed,       \* chunks the vector search may find
          Selections,    \* sequences of files a request may name
          PageSize,      \* maxPageSize
          MaxPages,      \* the safety limit
          FileBudgets,   \* values of maxTokenBudget
          LengthOf,      \* [Chunks -> Nat], the characters of the content
          HeaderLength,  \* of the lines that begin the context
          SeparatorLength, \* of the line that names a document, all as long
          EndLength,     \* of the lines that end it
          MaxTokens      \* MaxContextTokens of the agent, or the default

\* EstimateTokenCount of so many characters.
Estimate(length) == length \div 4

ASSUME LibraryAssumption == /\ Library \in Seq(Chunks)
                            /\ ToSet(Library) = Chunks /\ IsInjective(Library)
                            /\ FileOf \in [Chunks -> Files]
                            /\ Indexed \subseteq Chunks
                            /\ Selections \subseteq Seq(Files) /\ <<>> \in Selections
ASSUME LimitsAssumption == /\ {PageSize, MaxPages, MaxTokens} \subseteq Nat \ {0}
                           /\ FileBudgets \subseteq Nat
ASSUME LengthsAssumption == /\ {HeaderLength, SeparatorLength, EndLength} \subseteq Nat
                            /\ LengthOf \in [Chunks -> Nat]
                            /\ \A c \in Chunks : TokensOf[c] = Estimate(LengthOf[c])

VARIABLES request,     \* who asks, for what
          fileBudget,  \* maxTokenBudget of a file
          at,          \* where the retrieval stands
          hits,        \* Chunks of the vector search, in the order of rank
          file, page,  \* what is fetched next: a position in the selection, a page
          ofFile,      \* allChunks of fetchChunksForFile
          fileTokens,  \* currentTokens there
          fetched,     \* allChunks of RetrieveFullDocuments
          skipped,     \* positions of files whose fetch failed
          ranked,      \* Chunks of the result
          taken,       \* how many of them are in the prompt
          used,        \* currentTokens of FormatContextForInjection
          written,     \* characters of the prompt so far
          truncated,
          answer       \* what the caller got

fetch         == <<fileBudget, file, page, ofFile, fileTokens, fetched, skipped>>
injection     == <<taken, used, written, truncated>>
retrievalVars == <<request, at, hits, fetch, ranked, injection, answer>>

Strategies == {"vector", "full", "hybrid", "mcp", "none"}

\* ExecuteAgent and ExecuteInternalAgent build a prompt; RetrieveHybridContextWithConfig
\* is called as a service.
RequestType == [caller : {"ExecuteAgent", "ExecuteInternalAgent", "service"},
                knowledge : BOOLEAN,                     \* enabled, and not disabled here
                notebooks : {"request", "agent", "none"}, \* where notebook ids come from
                strategy : Strategies,
                selected : Selections]                   \* SelectedDocuments or FileIDs

\* A service call has none of the agent's settings.
Requests == {q \in RequestType : q.caller = "service" =>
                 q.knowledge /\ q.notebooks = "request" /\ q.strategy \in {"hybrid", "mcp"}}

RetrievalIdle == /\ hits = <<>>
                 /\ file = 1 /\ page = 1
                 /\ ofFile = <<>> /\ fileTokens = 0
                 /\ fetched = <<>> /\ skipped = {}
                 /\ ranked = <<>>
                 /\ taken = 0 /\ used = 0 /\ written = 0 /\ truncated = FALSE
                 /\ answer = "none"

RetrievalInit == /\ request \in Requests
                 /\ request.caller = "service" => request.strategy = "hybrid"
                 /\ at = "asked"
                 /\ fileBudget \in FileBudgets
                 /\ RetrievalIdle
                 /\ Init

-----------------------------------------------------------------------------
(* What the handlers decide *)

End(a) == at' = "done" /\ answer' = a

\* An internal agent without notebooks in the request has its own prompt; else the
\* switches and the strategy decide, and a strategy not implemented is a search.
buildSystemPromptWithContext ==
    /\ at = "asked"
    /\ CASE request.caller = "ExecuteInternalAgent" /\ request.notebooks # "request" ->
               End("own prompt")
         [] ~request.knowledge \/ request.notebooks = "none" \/ request.strategy = "none" ->
               End("no context")
         [] request.strategy = "full" -> at' = "files" /\ UNCHANGED answer
         [] OTHER -> at' = "search" /\ UNCHANGED answer
    /\ UNCHANGED <<vars, request, hits, fetch, ranked, injection>>

\* An error ends the retrieval; a handler goes on without context.
Fail == End(IF request.caller = "service" THEN "error" ELSE "no context")

-----------------------------------------------------------------------------
(* The vector search *)

\* Selected documents and notebooks are not part of the request that is sent.
RetrieveVectorContext ==
    /\ at = "search"
    /\ \/ /\ \E found \in SUBSET Indexed :
                hits' \in Descending(SetToSeq(found), [c \in found |-> Score[c]["vector"]])
          /\ IF request.strategy = "hybrid"
               THEN at' = "files" /\ UNCHANGED ranked
               ELSE at' = "result" /\ ranked' = hits'
          /\ UNCHANGED answer
       \/ Fail /\ UNCHANGED <<hits, ranked>>
    /\ UNCHANGED <<vars, request, fetch, injection>>

-----------------------------------------------------------------------------
(* The files *)

ChunksOf == [f \in Files |-> KeepIn(Library, {c \in Chunks : FileOf[c] = f})]

PageOf(f) == SubSeq(ChunksOf[f], (page - 1) * PageSize + 1,
                    Min({page * PageSize, Len(ChunksOf[f])}))

MoreAfter(f) == page * PageSize < Len(ChunksOf[f])

\* The loop over a page stops at the first chunk over the budget.
KeptOf(chunks) ==
    LET fits(n) == fileTokens + SumTokens(SubSeq(chunks, 1, n)) <= fileBudget
    IN  SubSeq(chunks, 1, Max({n \in 0..Len(chunks) : \A k \in 0..n : fits(k)}))

\* No page follows (with a bug: the budget ends the page only).
EndOfPages(got, more) == ~more \/ got = <<>> \/ page = MaxPages
EndOfFile(got, more) == \/ Len(KeptOf(got)) < Len(got)
                        \/ ~more \/ got = <<>> \/ page = MaxPages

\* On to the next file, with the chunks of this one (with a bug: not with no chunks).
SameFile(chunks) ==
    /\ fetched' = fetched \o chunks
    /\ file' = IF chunks = <<>> THEN file ELSE file + 1
    /\ page' = 1 /\ ofFile' = <<>> /\ fileTokens' = 0
    /\ at' = IF file' > Len(request.selected) THEN "combine" ELSE "page"
NextFile(chunks) ==
    /\ fetched' = fetched \o chunks
    /\ file' = file + 1
    /\ page' = 1 /\ ofFile' = <<>> /\ fileTokens' = 0
    /\ at' = IF file = Len(request.selected) THEN "combine" ELSE "page"

\* What is left of a file whose next page failed (with a bug: the pages before it).
PagesSoFar == ofFile
OfFailedFile == <<>>

FailedFile == NextFile(OfFailedFile) /\ skipped' = skipped \cup {file}

FetchPage(f) ==
    LET got == PageOf(f) IN
    \E more \in {MoreAfter(f), TRUE} :
        /\ IF EndOfFile(got, more)
             THEN NextFile(ofFile \o KeptOf(got))
             ELSE /\ ofFile' = ofFile \o KeptOf(got)
                  /\ fileTokens' = fileTokens + SumTokens(KeptOf(got))
                  /\ page' = page + 1
                  /\ UNCHANGED <<at, fetched, file>>
        /\ UNCHANGED skipped

fetchChunksForFile ==
    /\ at = "page"
    /\ FetchPage(request.selected[file]) \/ FailedFile
    /\ UNCHANGED <<vars, request, hits, fileBudget, ranked, injection, answer>>

\* Without a selection, one page of whatever the tenant has.
fetchAllChunksForTenant ==
    /\ at = "tenant"
    /\ \/ /\ \E found \in SUBSET Chunks : fetched' = SetToSeq(found)
          /\ at' = "combine"
          /\ UNCHANGED answer
       \/ Fail /\ UNCHANGED fetched
    /\ UNCHANGED <<vars, request, hits, fileBudget, file, page, ofFile, fileTokens,
                   skipped, ranked, injection>>

RetrieveFullDocuments ==
    /\ at = "files"
    /\ at' = IF request.selected = <<>> THEN "tenant" ELSE "page"
    /\ UNCHANGED <<vars, request, hits, fetch, ranked, injection, answer>>

-----------------------------------------------------------------------------
(* The result *)

ByDocument(s) ==
    FlattenSeq([k \in DOMAIN Library |-> KeepIn(s, {Library[k]})])

Times(c) == Len(KeepIn(fetched, {c}))

\* A chunk's key is its document and number; its score grows with each time it comes.
MergedScore(c) == (IF c \in ToSet(hits) THEN Score[c]["vector"] ELSE 0)
                  + Times(c) * Score[c]["full_doc"]

\* The chunks that are ranked (with a bug: those of the search).
Searched == ToSet(hits)
Merged == ToSet(hits) \cup ToSet(fetched)

mergeAndRankChunks == Descending(SetToSeq(Merged), [c \in Merged |-> MergedScore(c)])

\* The full documents alone, the two merged, or the builder called with both.
Combine ==
    /\ at = "combine"
    /\ IF request.caller # "service"
         THEN /\ IF request.strategy = "full"
                   THEN ranked' = ByDocument(fetched)
                   ELSE ranked' \in mergeAndRankChunks
              /\ at' = "result"
              /\ UNCHANGED vars
         ELSE /\ BuildHybridContext(ToSet(hits), ToSet(fetched), {c \in Chunks : Times(c) > 1})
              /\ at' = "building"
              /\ UNCHANGED ranked
    /\ UNCHANGED <<request, hits, fetch, injection, answer>>

Build == /\ at = "building"
         /\ \/ Next /\ UNCHANGED <<at, answer>>
            \/ step = "done" /\ End("built") /\ UNCHANGED vars
         /\ UNCHANGED <<request, hits, fetch, ranked, injection>>

-----------------------------------------------------------------------------
(* FormatContextForInjection *)

StartFormat ==
    /\ at = "result"
    /\ IF ranked = <<>>
         THEN End("no context") /\ UNCHANGED <<used, written>>
         ELSE /\ at' = "format"
              /\ used' = Estimate(HeaderLength) /\ written' = HeaderLength
              /\ UNCHANGED answer
    /\ UNCHANGED <<vars, request, hits, fetch, ranked, taken, truncated>>

\* The last line of the prompt, which no limit is asked about.
EndPrompt == End("injected") /\ written' = written + EndLength

\* The limit counts the content of the chunks (with a bug: of those before this one).
RoomBefore(c) == used < MaxTokens
FitsPrompt(c) == used + TokensOf[c] <= MaxTokens

\* Before the first chunk of a document, and when the ranking comes back to it, a line
\* that is not counted.
Separator(c) == IF taken = 0 THEN SeparatorLength
                ELSE IF FileOf[c] # FileOf[ranked[taken]] THEN SeparatorLength + 1 ELSE 0

\* One turn of the loop, which ends at the first chunk that does not fit.
FormatChunk ==
    /\ at = "format"
    /\ taken < Len(ranked)
    /\ LET c == ranked[taken + 1] IN
       IF FitsPrompt(c)
         THEN /\ taken' = taken + 1
              /\ used' = used + TokensOf[c]
              /\ written' = written + Separator(c) + LengthOf[c] + 1
              /\ UNCHANGED <<at, answer, truncated>>
         ELSE truncated' = TRUE /\ EndPrompt /\ UNCHANGED <<taken, used>>
    /\ UNCHANGED <<vars, request, hits, fetch, ranked>>

EndFormat == /\ at = "format"
             /\ taken = Len(ranked)
             /\ EndPrompt
             /\ UNCHANGED <<vars, request, hits, fetch, ranked, taken, used, truncated>>

FormatContextForInjection == StartFormat \/ FormatChunk \/ EndFormat

-----------------------------------------------------------------------------
RetrievalNext == \/ buildSystemPromptWithContext \/ RetrieveVectorContext
                 \/ RetrieveFullDocuments \/ fetchChunksForFile \/ fetchAllChunksForTenant
                 \/ Combine \/ Build \/ FormatContextForInjection

-----------------------------------------------------------------------------
(* Properties *)

\* Type invariant of the retrieval and of the builder.
RetrievalTypeOK ==
    /\ TypeOK
    /\ request \in Requests /\ fileBudget \in FileBudgets
    /\ at \in {"asked", "search", "files", "page", "tenant", "combine", "building",
               "result", "format", "done"}
    /\ hits \in Seq(Chunks)
    /\ file \in 1..(Len(request.selected) + 1)
    /\ page \in 1..MaxPages
    /\ {ofFile, fetched, ranked} \subseteq Seq(Chunks)
    /\ fileTokens = SumTokens(ofFile) /\ fileTokens <= fileBudget
    /\ skipped \subseteq DOMAIN request.selected
    /\ taken \in 0..Len(ranked)
    /\ used \in Nat /\ written \in Nat
    /\ truncated \in BOOLEAN
    /\ answer \in {"none", "own prompt", "no context", "injected", "built", "error"}

\* The longest beginning of a file that the budget and the number of pages allow.
Beginning(f) ==
    LET whole == ChunksOf[f]
        allowed(n) == n <= MaxPages * PageSize /\ SumTokens(SubSeq(whole, 1, n)) <= fileBudget
    IN  SubSeq(whole, 1, Max({n \in 0..Len(whole) : allowed(n)}))

\* Whatever pages fail and whatever the store says of more: a file is there from its
\* beginning for as long as the budget lasts, nothing lost or repeated where one page
\* meets the next, or not at all; and no file depends on another.
FilesAreIndependent ==
    at \in {"combine", "building", "result", "format"} /\ request.selected # <<>>
    /\ (request.strategy = "full" \/ request.strategy = "hybrid") =>
        fetched = FlattenSeq([k \in DOMAIN request.selected |->
                      IF k \in skipped THEN <<>> ELSE Beginning(request.selected[k])])

Injected == {ranked[k] : k \in 1..taken}

\* A prompt that is not said to be truncated holds every chunk that was retrieved,
\* from the search and from the files.
UncutMeansAll ==
    answer = "injected" /\ ~truncated => ToSet(hits) \cup ToSet(fetched) \subseteq Injected

\* Where the document of the prompt's chunks changes.
Switches == {k \in 1..taken : k = 1 \/ FileOf[ranked[k]] # FileOf[ranked[k - 1]]}

\* The limit is on the content of the chunks.  The prompt with its lines may be longer,
\* and by no more than these: a line for each change of document, a line end for each
\* chunk, the end, and what the estimates of the pieces round away.
OverByLinesOnly ==
    answer = "injected" /\ taken > 0 =>
        written <= 4 * MaxTokens + 3 * (taken + 1)
                   + taken + Cardinality(Switches) * (SeparatorLength + 1) + EndLength

\* With whole documents, what the prompt holds of a selected one is its beginning,
\* without a gap, after the pages, the sort and the cut.
ReadsFromTheStart ==
    answer = "injected" /\ request.strategy = "full" =>
        \A f \in ToSet(request.selected) :
            \E n \in 0..Len(ChunksOf[f]) :
                {c \in Injected : FileOf[c] = f} = ToSet(SubSeq(ChunksOf[f], 1, n))
=============================================================================
