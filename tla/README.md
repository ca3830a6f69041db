# A TLA+ verification of the agent builder

The agent builder is a Go service (gin, gorm on PostgreSQL, go-redis) that keeps
a catalogue of LLM agents and executes them: it puts a prompt together from the
session's memory and from documents, sends it to an LLM router, keeps a record of
the execution and stores the turn in the session's memory. This directory holds
TLA+ models of the parts of the service in which something can go wrong that a
unit test would hardly reach, the TLC configurations that check them, and proofs
that TLAPS checks.

Paths below are relative to the repository. `PROJECT.json` maps every definition
to the lines it stands for and lists the runs, the mutants (for each property a
change of the model, the way a plausible bug would change the code, under which
TLC finds the property violated), the findings and the hazards.

## 1. Inventory

Requests are served concurrently, one goroutine each. No handler opens a database
transaction, no Redis operation uses WATCH, MULTI or a lock, and the one mutex of
the service is in the in-process part of the cache. So every SQL statement, every
Redis command and every HTTP call is a point where any other request may run, and
where the process may die.

| Part | Code | State | Operations | What is hard | What makes it correct |
|---|---|---|---|---|---|
| Execution tracking | `services/impl/execution_service_impl.go`, `handlers/agent_handlers.go` (ExecuteAgent) | rows of `ab_agent_executions` | StartExecution, CompleteExecution, CancelExecution, reads | a row is written by a handler, by cancellations and by a delete of its agent, statement by statement; the UPDATE after a success is always refused, and errors of CompleteExecution are dropped | a row holds no outcome the client was not told; an outcome is final; a row is left open only for a reason; no row without its agent |
| Agent catalogue | `services/impl/agent_service_impl.go` | rows of `agent_builder.agents` | create, read, update, delete, publish, unpublish, duplicate | DeleteAgent and UpdateAgent are three statements each, duplication two | a delete leaves nothing behind and does not fail for want of an order; no update undoes another; who is told 200 was served |
| ExecuteAgent handler | `handlers/agent_handlers.go` | locals only | the sequence agent, notebooks, documents, memory, row, router, row, memory | each step may fail, some are ignored | as for the row; failures of what is supplementary do not end the request |
| Router client | `services/impl/router_service_impl.go` | `modelLimitsCache`, shared | SendRequest: cap, attempts, sleeps | one request object for all attempts; a map without a lock; sleeps that ignore the context | few requests, none without cause; safe caps; every call returns |
| Short-term memory | `services/memory/short_term.go` | a JSON document per session in Redis | AddMessage, TrimToTokenLimit, GetConversation, ClearConversation | GET, change, SET without a transaction; trimming while formatting; expiry | the running total is right; the limits hold; order; the longest recent run that fits |
| Memory service | `services/memory/memory_service.go` | none of its own | AddMemory, GetFormattedMemory, ClearSession, statistics | starts goroutines; three reads of one document in one call | memory never fails a request |
| Consolidation | `services/memory/consolidation.go` | the stamp of the last consolidation in Redis | ShouldConsolidate, ConsolidateSession | goroutines that outlive the request; the stamp is written one router call after it was read | one consolidation per interval; a stamp stands for a summary; a summary for a piece of the conversation |
| Long-term memory | `services/memory/long_term.go` | vectors in DeepLake | StoreMemory, StoreSummary, SearchMemory | lost answers; a token count nobody fills in | summaries are stored once; what is found keeps to its share of the prompt |
| Working memory | `services/memory/working_memory.go` | a JSON document per session in Redis | set, load, unload, staleness | GET, change, TTL, SET; its writers have no caller in the handlers | total, chunks and loaded documents belong together; chunks are of one retrieval |
| Hybrid context builder | `services/impl/hybrid_context.go` | none | BuildHybridContext | two passes over two budgets; maps and an unstable sort | within the budget, nothing twice, the better copy, nothing left out that fits |
| Multi-pass processing | `services/impl/multipass_service_impl.go` | none | ExecuteMultiPass | overlap and size limits interact; a pass may fail | every chunk in a segment, each segment answered once |
| Document context | `services/impl/document_context_impl.go` | none | vector, full and hybrid retrieval, paged; injection into the prompt | a page or a file may fail, errors of a file are skipped, two cuts by tokens one after the other, the second of which does not count all it writes | a file is there from its start or not at all; an uncut prompt holds all that was found; a prompt is over its limit only by its lines; paging ends |
| MCP context | `services/impl/mcp_context_impl.go` | none | RetrieveMCPContext | two loops of tool calls over one budget | within the budget; a document summarised once |
| Context cache | `services/impl/cache_service_impl.go` | Redis keys, an in-process map | get, set, invalidate by pattern; the caching wrapper of retrieval | a retrieval that was under way sets a stale value after an invalidation; digests that leave fields out, hashed keys that no pattern matches | what is served was retrieved for a request like the caller's, and is not older than the last invalidation |
| Validation, authentication, notebooks, router proxy, configuration | `services/impl/validation.go`, `auth/`, `services/impl/notebook_service_impl.go`, `handlers/router_proxy.go`, `config/` | none | checks and pass-through | nothing shared | left out |

How they interact: `cmd/main.go` builds the services once and hands them to the
handlers. ExecuteAgent calls the agent service (one SELECT), the document context
service and the cache, the memory service (which calls the three memories and, by
AddMemory, the consolidation in a goroutine), the execution service and the router
client. The execution table and the agent table are tied by a foreign key, the
conversation buffer and the stamp only by the code. `MultiPassService`, the
`CachedContextService` wrapper, `HybridContextBuilder` with its configuration and
`AgentValidator` are complete but constructed by nothing in `main`.

## 2. The modules

| Module | Models | Kind |
|---|---|---|
| `ExecutionRecord` | what the execution table promises | abstract specification |
| `Execution` | ExecuteAgent handlers, cancellations, deletions, crashes over the two tables | component |
| `RouterClient` | SendRequest calls over one client | component |
| `RouterClientProofs` | `RouterClient` | proofs |
| `SlidingWindow` | what a conversation buffer promises | abstract specification |
| `ShortTermMemory` | callers of one session's buffer | component |
| `MemoryConsolidation` | AddMemory: the buffer composed with the stamp, the goroutines and the summaries | composition, EXTENDS `ShortTermMemory` |
| `MemoryConsolidationProofs` | `ShortTermMemory` and `MemoryConsolidation` | proofs |
| `WorkingMemory` | callers of one session's working memory, and the split of a prompt's budget | component |
| `WorkingMemoryProofs` | `WorkingMemory` | proofs |
| `AgentCatalog` | UpdateAgent, publishing and duplication beside everything of `Execution` | composition, EXTENDS `Execution` |
| `AgentCatalogProofs` | `Execution` and `AgentCatalog` | proofs |
| `ContextCache` | callers and invalidations of both tiers of the cache | component |
| `ContextCacheProofs` | `ContextCache` | proofs |
| `BudgetedSelection` | what a context builder promises | abstract specification |
| `HybridContext` | one BuildHybridContext call | component |
| `DocumentRetrieval` | one call for document context, from the handler's decision to the prompt | composition, EXTENDS `HybridContext` |
| `MCPContext` | one RetrieveMCPContext call | component |
| `ContextSources` | a call to either service that has document context | composition of the two |
| `ContextSourcesProofs` | `HybridContext`, `DocumentRetrieval`, `MCPContext` and `ContextSources` | proofs |
| `MultiPass` | one ExecuteMultiPass call | component |
| `MultiPassProofs` | `MultiPass` | proofs |
| `Sums` | the total of a sequence, and what a loop that filters one leaves | operators |
| `SumsProofs` | what holds of those, of ends of bounded sets, and of sorting and joining | lemmas |
| `MC*` | constants for TLC | model checking |

Five modules add up tokens and two drop elements from a list; `Sums` has the two
folds they share, `SumOf` for a loop that adds and `KeepIn` for one that filters.

### Execution

One action per SQL statement or outside call. A request makes at most one row, so
rows are named by their request: `status[r]` is the row's status, `"none"` before
the INSERT and `"gone"` after a DELETE. `pc[r]` says where the handler stands,
`tracked[r]` is `execution != nil`, `outcome[r]` is what SendRequest returned,
`answer[r]` the HTTP status. `lost[r]` is a history variable: an INSERT was
committed and its answer lost, or the database failed under CompleteExecution, whose
error is dropped. (A client that goes away is no such failure: both statements run
without the request's context.) `dpc` and `victim` are DeleteAgent's calls. `cascade` is the foreign key:
migration 007 cascades, the one AutoMigrate creates from `models/execution.go:152`
does not, and which of them a database has depends on how it was set up, so both
are initial states. `Crash` stops every handler where it stands; rows stay, for
nothing at the next start looks at them.

The UPDATE of CompleteExecution names columns, `SetClause`, and the database takes it
only if the table has them, `Accepted`. After a failure it has. After a success it
never has: `router_provider`, `router_model` and `routing_strategy`, which the handler
always supplies, are columns of no `ab_agent_executions` that AutoMigrate makes
(migration 002 adds them to another table). The row of a run that succeeded therefore
stays queued, or cancelled, and a cancellation may still come long after the answer.
The properties say this: `AnswerAgreesWithRow` has `failed` for a 500 and a pending row
for a 200, `TrackedSettles` asks for a settled row after a failure and for an answer in
any case, and `SuccessIsRecorded`, what the handler's comment says, is violated.

CompleteExecution writes the row whatever its status is and CancelExecution, which has
no route in `main` and is any caller of the service here, only from queued or running.
That is why a cancelled execution may still end failed, which `ExecutionRecord` allows,
and why an outcome cannot be replaced, which it requires: `RecordSpec` is the
refinement, with the handler's hold on its row as the abstract `writer`.

### AgentCatalog

`rows[a]` is the agent's row, a function of columns; the value of a column is the
request that wrote it. UpdateAgent is three statements: `FindForUpdate` (SELECT, the
row goes to `found[e]`), `ApplyUpdate` (UPDATE with only the named columns in its
SET clause; gorm does not ask how many rows it met) and `Reload` (the SELECT whose
row is the answer). Each may fail, and the UPDATE may be applied and its answer lost.
PublishAgent and UnpublishAgent are one UPDATE each and do look at the number of
rows. DuplicateAgent selects its source and inserts under a new id, whether the
source is still there or not. Everything of `Execution` runs in between, its delete
as well; `matched` is a history variable. Who may see and change which agent is a
clause of the same statement, which then meets no row, and is left out. Creation is
the initial state.

### RouterClient

`limits` is the shared map of model limits, zero for no entry. A call is
`"looking"`, `"storing"` or `"relooking"` while it is at the map; two calls at the
map, one of them storing, is the data race the Go runtime may answer by ending the
process, `MapRace`. An attempt chooses an outcome (not sent, broken on the way, no
body left, ok, busy, refused); `body` is drained by the first attempt that leaves.
The client may go away at any time, `Cancel`, after which Do returns at once while
the sleeps go on. `sent` counts requests that reached the router, up to one more
than there can be.

### ShortTermMemory and MemoryConsolidation

`conv` is the stored document, a sequence of messages and a running total. Each
caller has a copy from its last GET, so GET and SET are two actions and any other
caller may run in between. A failed command, and a SET that is applied although
its answer is lost, are alternatives of each action. `written` and `base` are
history variables: messages whose SET was applied, and how many of them a clear,
an expiry or a trim gave up; the window the buffer should show is computed from
them. Message texts, identifiers and timestamps are left out; a message is its
number of tokens. `ClearsMidCall` says whether the key may go away between a GET
and its SET.

`MemoryConsolidation` adds the stamp, a clock, and one goroutine per message that
found a consolidation due. A goroutine reads the buffer, asks the router, stores
the summary, takes the time and SETs the stamp, each its own action, each allowed
to fail; a goroutine that dies with the process is one that fails where it stands.
The time is taken before the SET, so the stamp may go back. Long-term memory is
enabled, as in the default configuration, the only one `main` uses.

### WorkingMemory

`memory` is the document under the session's key, `life` what is left of its TTL; a
missing key reads as `EmptyMemory`. An operation is `Begin` (GET and the changed
copy), for all but SetDocumentContext `ReadTTL` (the TTL command of saveMemory), and
`Store` (SET), with any other caller, an expiry or a clear in between. Redis answers
-2 for a key that is gone and the client zero if the command fails; saveMemory takes
both for "no lifetime" and gives a whole one. `GetFormattedMemory` is the split of
the budget: the chunks go in all or none by the stored total, the entries of the
long-term memory up to their share by a TokenCount that SearchMemory never sets. A
limit of no loaded documents would make LoadDocument cut an empty slice;
`LimitsAssumption` excludes it, the default is ten.

### ContextCache

`mode` is decided at start-up: no cache, the map, or Redis with the map behind it.
GetCachedContext is a GET, for data that is no result a DEL, on an error
`ReadMemory` and `CheckMemory`: the lock of the map is given up before the entry is
looked at, and taken again to remove it. `Store` is the SET and, if it fails, the
entry in the map, although a failed SET may have been applied. `InvalidateCache` is
a SCAN in batches with a DEL each, whose errors are dropped, and then the map. SCAN
promises to return every key that is there from its beginning to its end, and may
return others; `unseen` holds that promise. An entry is the request it was retrieved
for and the time it was stored. `Garbage` is what an older release may have left. A
request has the fields of the three kinds (`RequestType`), a key those that its digest
is made of (`KeyOf`), the hash itself taken for injective: the tenant, the query with
its files and notebooks, the score or the weights to two places, and the limit, offset
and chunk types unless it is hybrid. No digest has the dataset of a search or the
caller's token. A pattern made of an agent's id matches no key, for keys are digests.
The clock has ticks, and a key in Redis goes with the tick that ends its lifetime.

### HybridContext

One call, step by step: score, sort, drop copies, then two loops over the slice,
one chunk a step. A chunk is its key; its score is a number that depends on where
it was found, which stands for the weights, the position, header and summary
boosts. The slice is filled from a Go map and sorted by an unstable sort: any
order among equal scores. `again` holds the chunks that come twice in the full
documents, as when a file is selected twice: the code then marks them as found by
both searches, but with no score of the vector search, so they are a source of their
own here, `"twice"`. The refinement `SelectionSpec` maps `room` to what is left of the
budget after the tier under way. Assumed of a configuration: tiers have distinct
names (two of one name would have their chunks added twice) and thresholds.

### DocumentRetrieval, MCPContext and ContextSources

`request` is who asks and how: the two handlers, each with the switches, notebooks,
strategy and selected documents it may have, or a caller of
RetrieveHybridContextWithConfig. `buildSystemPromptWithContext` is their decision; a
strategy the switch does not know, "mcp" among them, is a vector search. One action
each: the search, a page of a file (`fetchChunksForFile`), the tenant's page, the
merge or the call of the builder (`Combine`, then `HybridContext`'s own steps), and a
turn of the loop that writes the prompt. A chunk has a length in characters and a
quarter of that in tokens (`Estimate`); `used` is what the loop counts, the first lines
and the content of chunks, and `written` is how long the prompt really is, with the
lines that name documents, line ends and the last line. A failed page fails its file,
which is skipped; a failed search fails the retrieval, and a handler goes on without context.
`skipped` is a history variable. The budget of a file, 50,000 tokens in the code, is
chosen once, so that both a cut and a whole file happen. Assumed of the services:
they number the chunks of a document, alike in a search and in a file, and repeat no ID,
so the merge, which knows a chunk by document and number, and the builder, which knows
it by its ID, mean the same chunk; every chunk names its document, by a name of one
length; pages are truthful, though the store may claim there is more when there is not.
The sort of whole documents is by document and number, as the library is.

`MCPContext` is RetrieveMCPContext: the search, its chunks one by one, the record of
the step (which dereferences a nil result if the search failed: `"panicked"`), and one
turn per chunk of the loop that asks for summaries. `ContextSources` lets the caller
turn to either service.

### MultiPass

A segment is an interval of chunks, for an overlap is a suffix of the current
segment and the next chunk follows it. `AddChunk` is a turn of the loop of
segmentDocuments whose chunk fits. One that does not fit ends the segment
(`EndSegment`), getOverlapChunks goes back over it one chunk at a time (a step each,
`back` and `tokens` its locals), and `StartSegment` adds the chunk to what it went over.
`EndSegments` is the end of the loop and the cut to MaxPasses, `Pass` one request and
`aggregateResults` the last one. MaxPasses = 0 panics at `results[0]`: the validator
that refuses it is called by nothing, so the model has the panic as an outcome.

## 3. The runs

A run takes from a second to three minutes with two workers. Deadlock is checked
only in `context_cache`, whose callers never stop; elsewhere requests are finite in
number and a run ends when all are served.

| Run | Bounds | What it shows |
|---|---|---|
| `execution` | one agent, one request to execute it, one to delete it, editors of two different columns, one duplication, both foreign keys, any number of cancels, publishings and crashes | no orphan rows; after a 500 a tracked row is failed, after a 200 it is pending; a failed run leaves no queued row, final outcomes, refinement of `ExecutionRecord`; no edit undoes another, who is told 200 had its update stored; and, under fairness, every handler answers, with the row of a failed run settled |
| `execution_delete` | two agents, two requests and one delete | violated: the row inserted between the two DELETEs makes the second fail |
| `execution_success` | two agents, two requests and one delete | violated: a run is answered 200, nothing fails, and its row is still queued |
| `short_term_race` | two callers, four messages of 0 to 3 tokens, limits of 4 tokens and 2 entries, two formatted reads, expiry at any time | the total is exact, the limits hold, order is kept, whoever writes last and from whatever copy |
| `short_term_lost` | two callers, two messages that fit | violated: the second SET drops the first message |
| `consolidation` | one caller, messages of 0, 1 and 3 tokens, limits of 3 tokens and 2 entries, one read, three ticks with an interval of one | summaries are of pieces of the conversation, a stamp stands for a stored summary, the buffer is a `SlidingWindow` |
| `working_memory` | two callers, six operations, three documents of one chunk each, two loaded at most, 3 tokens, a retrieval that fits and one that does not, a lifetime of two ticks | the stored memory is whole and of one retrieval, whatever copy it comes from; its part of a prompt fits |
| `context_cache` | two callers, six requests on four keys: two searches that differ in the dataset and the third place of the score share one, two hybrid requests that differ in limit, token and the third place of the weights another; two of the requests, of two tenants, with one invalidation, garbage in Redis, a lifetime of one tick and two ticks | callers are served what was retrieved for a request that agrees with theirs in every field of the digest, nothing invalidated is left in either tier, and callers are served in time |
| `router_client` | three calls on a listed model, one the router does not list and one nobody knows, one retry | at most MaxRetries + 1 requests, safe caps, no needless resend, and every call returns |
| `router_body` | two calls, three retries | violated: an attempt fails for its body was used by an earlier one |
| `retrieval` | every request of the handlers and of the service, selections of none, one and two files, one twice; a file of five chunks over pages of two, of which two are read, and one of one chunk; chunks of 7 to 15 characters, budgets of 3 and 9 tokens for a file, 11 for the prompt, of which its first lines take 6, 0 to 6 for the builder with three tiers; any result of the search; limits of 0, 4 and 8 for the tools, two summaries | files are whole beginnings or absent, independent of each other; an uncut prompt holds all that was found; a prompt is over its limit only by the lines that are not counted; it reads from the start; the builder refines `BudgetedSelection`, accounts for each token and keeps the better copy; tools keep their limit; under fairness fetching ends |
| `multipass` | documents of up to five chunks of 0, 1, 2 or 4 tokens, segments of 3, overlaps of 0, 1, 2, 4, limits of 0, 1, 2, 5 passes | segments cover the document, are full, repeat as much as asked and no chunk more, are answered once |

Why the bounds are enough. Every race here is between two actors on one piece of
state: a request and a delete for a row, two editors or an editor and a publishing
for an agent, two callers for a buffer or a memory, a caller and an invalidation for
an entry, two goroutines for the stamp; a third adds interleavings of the same pairs,
and the third call and third goroutine are there to show it. Requests of one agent
touch each other only through its deletion, so the catalogue runs with one, and
`execution_delete` with two; the theorems hold for any number. Messages, chunks and
entries take each value on both sides of each limit: none, one, exactly the limit,
over it. Budgets take a value that the tiers exceed together, one they leave room in,
and none; the smaller file budget stops in a page where a later chunk would fit
again, the larger one lets the safety limit stop first. Retries are equal calls of
one action, one of them reaches the last attempt. The clocks run one tick past the
interval and the lifetime.

Bounds in the models: `MaxReads` (formatted reads), `MaxOps` (operations on the
working memory), `MaxTime` (the clocks), each message added once, and the counter
`sent` of the router client. `MCBound` keeps the two halves of `context_cache` apart:
a state has either all requests, or an invalidation, a tick or garbage, for the keys a
request shares and the time an entry is stored have nothing to do with each other. `MaxPages` is the code's own safety limit, 100 there.

### Fairness

`AgentCatalog!FairCatalogSpec` is weak fairness of each ExecuteAgent handler: a
goroutine that can run does, and each call it makes returns, since the router's HTTP
client has a timeout and the retry loop a bound. Nothing is assumed of deletions,
cancellations or editors. `TrackedSettles` asks for an answer of every handler that
tracks a row, unless the process dies, and after a 500 for a settled row, unless the
database failed; of the row after a 200 it asks nothing, for that one never settles. `RouterClient!FairSpec` is weak fairness of each
call while the process lives, for the same reasons; nothing is assumed of the client
that may go away. `ContextSources!SourcesSpec` is weak fairness of the loop that
fetches pages: each request for a page has a timeout; that it ends is up to the code.
The other modules state no liveness.

## 4. The proofs

Every invariant, every action property and every refinement that a passing run checks
is also a theorem: the run shows it on a small instance, the theorem for every value
of the constants.

| Theorem | States | For |
|---|---|---|
| `AgentCatalogProofs!TypeCorrect` | `TypeOK` of `Execution` | any agents, requests, deleters, either foreign key |
| `AgentCatalogProofs!NoOrphans` | `NoOrphanRows` | |
| `AgentCatalogProofs!RowsTellTheTruth` | `AnswerAgreesWithRow`: `failed` after a 500, pending after a 200 | |
| `AgentCatalogProofs!QueuedRowsHaveAReason` | `QueuedHasReason` | |
| `AgentCatalogProofs!Finality` | `OutcomesAreFinal` | |
| `AgentCatalogProofs!Refinement` | `RecordSpec` | |
| `AgentCatalogProofs!CatalogImplementsExecution` | `Execution!Spec`, so all of the above | any editors, copiers, columns |
| `AgentCatalogProofs!CatalogTypeCorrect` | `CatalogTypeOK` | |
| `AgentCatalogProofs!AnswersAreTrue` | `AnsweredUpdatesWereStored` | |
| `AgentCatalogProofs!UpdatesStay` | `NoUpdateUndone` | |
| `RouterClientProofs!RouterTypes` | `TypeOK` | any calls, models, limits, MaxRetries |
| `RouterClientProofs!FewRequests` | `RouterSeesFewRequests` | |
| `RouterClientProofs!SafeCaps` | `CapsAreSafe` | |
| `RouterClientProofs!NoNeedlessResend` | `ResendsOnlyAfterFailure` | |
| `MemoryConsolidationProofs!BufferIsTyped` | `TypeOK` of `ShortTermMemory` | any callers, messages, limits |
| `MemoryConsolidationProofs!TotalStaysExact` | `TotalIsExact` | |
| `MemoryConsolidationProofs!LimitsHold` | `WithinLimits` | |
| `MemoryConsolidationProofs!OrderIsKept` | `NoInvention` | |
| `MemoryConsolidationProofs!BufferIsWindow` | `WindowSpec` | one caller at a time |
| `MemoryConsolidationProofs!OneCallerLosesNothing` | `AddedMessagesStay` | one caller at a time |
| `MemoryConsolidationProofs!SessionIsBuffer` | `ShortTermMemory!Spec`, so all of the above | any interval, any clock |
| `MemoryConsolidationProofs!SessionIsTyped` | `SessionTypeOK` | |
| `MemoryConsolidationProofs!StampStaysBacked` | `StampIsBacked` | any number of goroutines |
| `MemoryConsolidationProofs!SourcesStayPieces` | `SourcesArePieces` | one caller at a time |
| `WorkingMemoryProofs!MemoryStaysWhole` | `MemoryIsWhole` | any callers, documents, chunks, limits |
| `WorkingMemoryProofs!RetrievalStaysOne` | `OneRetrieval` | |
| `WorkingMemoryProofs!PromptKeepsShare` | `WorkingWithinShare` | |
| `ContextCacheProofs!CacheTypes` | `TypeOK` | any callers, invalidators, requests, lifetimes |
| `ContextCacheProofs!ServesAlike` | `ServedAlike` | |
| `ContextCacheProofs!ServesWithinLifetime` | `WithinLifetime` | |
| `ContextCacheProofs!InvalidationLasts` | `InvalidatedStaysGone` | |
| `ContextSourcesProofs!RetrievalIsTyped` | `RetrievalTypeOK` | any library, tiers, budgets, scores |
| `ContextSourcesProofs!BestCopyIsKept` | `BestCopyStays` | |
| `ContextSourcesProofs!BuilderSelects` | `SelectionSpec` | |
| `ContextSourcesProofs!BreakdownStaysExact` | `BreakdownAddsUp` | |
| `ContextSourcesProofs!FilesStayIndependent` | `FilesAreIndependent` | any selection, page size, safety limit |
| `ContextSourcesProofs!UncutStaysAll` | `UncutMeansAll` | |
| `ContextSourcesProofs!OverOnlyByLines` | `OverByLinesOnly` | any lengths of chunks and lines |
| `ContextSourcesProofs!AlwaysFromTheStart` | `ReadsFromTheStart` | |
| `ContextSourcesProofs!ToolContextAlwaysFits` | `ToolContextFits` | any limits of tokens and summaries |
| `MultiPassProofs!SegmentsCover` | `Covers` | any documents, any configuration |
| `MultiPassProofs!SegmentsPacked` | `SegmentsArePacked` | |
| `MultiPassProofs!OverlapKept` | `OverlapIsKept` | |
| `MultiPassProofs!SegmentsAnswered` | `EverySegmentAnswered` | |
| `MultiPassProofs!MultiPassIsTyped` | `TypeOK` of `MultiPass` | |

Assumed are only the named assumptions on constants: an execute request has a target
agent, `"none"` is no agent; an edit names columns there are, and `status` is one;
token counts, limits, lifetimes, retries and budgets are numbers, and those that
count pages, loaded documents, summaries and ticks of a session are not zero; requests
of the cache are of `RequestType`, with scores and weights in thousandths and limits that
are numbers, and neither `Nothing` nor `Garbage` is an entry; documents are sequences of naturals; the library lists every
chunk once, "no documents selected" is among the selections, chunks of equal content
have equal tokens, a chunk has the tokens its length gives, and tiers differ in name and threshold. TLC evaluates each of them
in the run of its module.

Three theorems have a hypothesis, `OneCaller`: there are no two callers, and the key
does not go away between a GET and its SET. It is what the run `consolidation` has, and
the hypothesis is needed: `short_term_lost` refutes `AddedMessagesStay` for two. The
theorem and the violated run together say that the interleaving alone is what loses
messages.

### The arguments

*Execution*: agreement of rows and answers is not inductive, for it
speaks only of handlers that are over. `HandlerInv` says at each point of the
handler what its row may hold: none before the INSERT, no outcome before the
UPDATE, a tracked row that goes only by being deleted, and no row ever running or
completed. That the UPDATE after a success is refused is a fact about the two sets of
columns, `SetClause` and `TableColumns`; the lemma for `Settle` rests on it. With the types and
`NoOrphanRows`, which needs the foreign key in the guard of the INSERT and in that
of the DELETE, it is inductive; one lemma per handler shows it. Finality and the
refinement are action lemmas from it. *AgentCatalog*: every step is a step of
`Execution` or leaves its variables alone, so all its theorems carry over. An editor
that passed its UPDATE without meeting the row can only be told 200 if the row is
there again, and rows of agents never come back: the invariant relates an editor at
its second SELECT to `agents`. *RouterClient*: the bound on requests needs
that each attempt sends at most one, `sent <= attempt`, until the call is over;
the caps need that an entry of the cache is the router's limit of that very model,
whoever stored it; the resend property that a call still trying has seen only
failures it may retry.

*ContextCache*: what is served alike needs that both tiers hold
under a key only what was retrieved for that key (`FiledIn`), that a caller holds
an entry of its own key, and how far apart two requests of one key can be: numbers that
are equal to two places differ by less than ten thousandths (`SamePlaces`); the lifetime that an entry in Redis is alive at the current
tick (`Live`), while one from the map is checked in the step that serves it. The
invalidation is the long one: while the scan is on, what is left in Redis from before
it began is in `unseen`, unless a command failed; once it is over nothing older than
`began` is in Redis, nor in the map when that has been cleared too (`Swept`), and since
every store carries the time of the store, nothing older can come back.

*ShortTermMemory*: what is stored next is the copy of some caller, taken of a buffer
that may be long gone, so none of its invariants is inductive. `BufferInv` says of every
copy what it says of the buffer: the total is the sum of the entries, within both
limits. `OrderInv` does the same for the order, and adds that a message being added is
new and in the hands of one caller; without it two callers could write it twice. For one
caller, `WindowInv` says that the copy is the buffer until it is written, and that the
buffer is the longest run of recent messages since `base` that fits (`Holds`): that
dropping from the front, first down to the number of entries and then down to the
tokens, leaves the longest run at all is where the work is, and why a trim that stops
one too early, or goes on, breaks `WindowSpec`. *MemoryConsolidation*: every step is one
of the buffer or leaves it alone, so all of this carries over. The stamp is backed
because a goroutine past the store has its summary behind it (`StampInv`, in two parts:
the time it is about to take, and the time it took), whatever the others do. A source is
one piece of what was written, for it is read from a buffer that is one.
*WorkingMemory*: again every copy is as whole as the memory (`WorkingInv`), and of one
retrieval: `Retrieved` gives a list and a set of documents unloaded from it, and all
operations stay within that form, since unloading two documents is unloading a set and
`trimChunks` happens before either.

*MultiPass*: `IInv` says that the current segment starts no later than right after the
last finished one and goes on beyond it; no number of tokens appears in it, so
coverage does not depend on where segments end. `HeldInv` adds what segments hold:
the running total is that of the chunks from `first` to `next - 1`, and the current
segment is already related to the last one as finished segments are to each other
(`Follows`), which is what ending it needs. While getOverlapChunks goes back, `Loops`
takes its place: `tokens` are those of the chunks gone over (`TokensBack` for one turn),
and before the last of them there were too few; with the condition of the loop false,
that is what a segment repeats. `PassInv` counts the requests.

*MCPContext*: that two loops keep one limit needs where the loops are: a chunk is added
once because the loop does not return to it, a summary because its document has been
seen, and the last one while there are not enough (`ToolLoops`).
*DocumentRetrieval*: `FetchInv` has the types and where a retrieval can stand for whom
(`RetrievalPlaces`). `PagesInv` says that what is fetched is what the first files of
the selection add, the failed ones nothing, and that the current file has the chunks of
its first `page - 1` pages; a file ends where its budget does because a beginning that
does not fit cannot fit later. `PromptInv` says that all that was found is ranked, so an uncut prompt has written all
of it, and bounds `written` by `used` and the lines there may be so far (`Allowed`); one
turn adds a line if and only if it adds a change of document (`SwitchesGrow`), and up to
three characters that the estimate of its chunk rounds away.
`SortedInv` says that with whole documents the ranking is the sorted fetch: of a file
the ranking then has the beginning that was fetched, in order, and the prompt a
beginning of the ranking, so there is no gap.

*HybridContext*: `ListInv` says that the list has no chunk twice and only what was
found; after the removal of copies, the best of each content (`BestCopies`, along the
loop's own turns). The selection refines `BudgetedSelection` because of `ChosenInv`: a
chunk of the result was taken in an earlier tier, or in this one and earlier in the list
(`TakenBefore`), so this turn cannot take it again, for a chunk has one tier; and in the
second pass what has been passed over either is in the result or does not fit, which
stays so since the budget only shrinks. When the loop ends nothing that is left fits.
`SumInv` keeps the tokens of the result equal to the breakdown plus the tier in hand; it
needs that later tiers have nothing in the breakdown yet, and so that tiers have
different names.

### Induction

The library states induction for an operator, `\A n \in Nat : P(n)`, which cannot be
instantiated here. That `<` on the naturals is well-founded, and that a set then has a
minimal element, are first-order. `SumsProofs!SetInduction` and
`SumsProofs!SequenceSetInduction` are induction for a *set* of naturals or of sequences,
and any property in use can be made a set. On them rest the lemmas about the folds the
models are made of: the sum of a slice, of a concatenation, of a set listed in any
order; what filtering keeps, and that it keeps the order; what joining a sequence of
sequences contains. `Max` and `Min` of a bounded set, which the library chooses, exist
by the same argument. So sums over sequences are proved about for every length, and not
only checked up to a bound.

Two conventions follow. Operators inside an INSTANCE are copies of those of the module
around it; four lemmas (`SameSum`, `SameElements`, `SameOrders`, `SameInjective`) say
that they are equal. And an order among equals is an element of `SetToSeqs`, which has a
definition the prover can expand; `Permutations` of module TLC has none.

### What is only model-checked

The three liveness properties `TrackedSettles`, `EveryCallReturns` and `FetchingEnds`:
fairness and ENABLED are beyond the prover. The four violated runs are counterexamples
and nothing to prove. That the bounds of the clocks (`MaxTime`), of reads (`MaxReads`)
and of operations (`MaxOps`) do not matter is what the theorems say, since they hold for
each value of them.

## 5. Findings

The violated runs above, with the lines they quote, are in `PROJECT.json`:

- DeleteAgent can fail with the foreign key error its own comment says it avoids
  (`services/impl/agent_service_impl.go:231`).
- A run that succeeds is never recorded: the UPDATE names columns the table does not
  have, its error is dropped, and the row stays queued
  (`services/impl/execution_service_impl.go:78`).
- Concurrent AddMessage calls lose messages (`services/memory/short_term.go:73`).
- A retry on a new connection has no body
  (`services/impl/router_service_impl.go:102`).

In the models, but without a run of their own:

- A search is served from the cache what another one found in another dataset
  (`services/impl/cache_service_impl.go:439`). The digests leave out the caller's token,
  too, that of hybrid requests also limit, offset and chunk types, and scores and weights
  are rounded to two places.
- A multi-pass configuration without `max_passes` panics once there are segments
  (`services/impl/multipass_service_impl.go:110`): the validator is called by nothing,
  and the default in the tag is never applied to what is stored as JSON.
- A prompt may be longer than MaxContextTokens, by the lines around its chunks, which are
  not counted (`services/impl/document_context_impl.go:752`), one more each time the
  ranking goes from one document to another. `OverByLinesOnly` says how much that can be.
- The long-term part of a prompt is not held to its share, for no entry that
  SearchMemory returns has a TokenCount (`services/memory/memory_service.go:156`): the
  comment on line 122 says 15 percent.
- GetFormattedMemory drops the error of its second read and dereferences the missing
  result (`services/memory/memory_service.go:133`), although the handler's comment
  says that memory is supplementary.
- One session is consolidated several times in an interval
  (`services/memory/memory_service.go:194`): both messages of one execution find
  it due before the first summary is stored.
- The map of model limits is shared without a lock
  (`services/impl/router_service_impl.go:607`); `MapRace` ends the process.
- A retrieval under way when the cache is invalidated stores what it read before
  (`services/impl/cache_service_impl.go:212`), and it is then served for a lifetime.
  InvalidateAgentCache and InvalidateSessionCache match nothing, for keys are digests
  in which no agent's id appears (line 283).
- RetrieveMCPContext dereferences the result of a failed search
  (`services/impl/mcp_context_impl.go:448`). Calls for summaries are in neither
  ToolsUsed nor TotalToolCalls.
- The documents and notebooks a request names never reach the vector search
  (`services/impl/document_context_impl.go:55`), nor the notebooks the retrieval of
  whole documents.
- FullDocMaxChunks is without effect when files are named, for fetchChunksForFile
  ignores its limit (`services/impl/document_context_impl.go:283`). A file that fails
  is skipped, and one cut by its budget cut, without the prompt or the caller being
  told.
- An agent that asks for the strategy "mcp" gets a vector search, and
  ExecuteInternalAgent with notebooks but no tenant the agent's own prompt
  (`handlers/agent_handlers.go:550`).
- Two consolidations may SET their stamps in the other order than they took the time,
  so that the stamp goes back (`services/memory/consolidation.go:133`) and the next
  consolidation comes early.

Observed while modelling: no statement ever writes `running`, although comments and
CancelExecution's list name it, and none that the database takes writes `completed`
(`HandlerInv` says both); the share of the working memory is asked about the content of
chunks, not about the lines FormatForContext writes around them, and
`WorkingWithinShare` says no more than that; the comment "Exponential
backoff" stands over waits of 1, 2, 3 seconds (`RouterSeesFewRequests` fixes the wait
to the number of attempts); a message over ShortTermMaxTokens empties the buffer,
itself included, which `SlidingWindow` also demands; a document that is unloaded by
making room for another keeps its chunks; a segment of a multi-pass run may exceed
SegmentSize by its overlap (`SegmentsArePacked` says by how much); the usage of the
aggregation request is not in TotalTokens.

## 6. Not modelled, and the plan

Left out for good: the router proxy, authentication, notebooks, validation and
configuration (no state shared between requests, pure checks or pass-through),
GetNotebookDocuments, ListAvailableTools, GetDocumentContent and the other reads that
nothing in the service calls, the parsing of answers, column types and JSON
conversions, metrics, scripts and examples.

What is left to do:

1. ExecuteAgent over `Execution` and `ShortTermMemory` together: the turn a handler
   stores in memory related to the row it writes and the answer it gives, with the
   refinement of each part as the first theorem about it.
2. An abstract specification of the cache (an entry is served within its lifetime and
   not after an invalidation that saw it) for `ContextCache` to implement, in place of
   three separate properties.
3. Termination of the loops of `HybridContext`, `MultiPass` and `MCPContext` by a
   variant that every step lowers: an action property, and so within the prover's reach,
   where liveness is not.
