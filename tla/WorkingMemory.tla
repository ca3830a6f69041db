--------------------------- MODULE WorkingMemory ---------------------------
(***************************************************************************)
(* The documents a session works with: which are loaded, and the chunks    *)
(* retrieved for it, one JSON document under one Redis key.  Operations    *)
(* GET it, change their copy and SET it; all but SetDocumentContext ask    *)
(* for the key's remaining lifetime in between, to keep it.  Concurrent    *)
(* callers interleave at each of these.  GetFormattedMemory puts what it   *)
(* reads here, and what the long-term memory finds, into a prompt.         *)
(*                                                                         *)
(* A missing key reads as the empty memory.  A document and a chunk are    *)
(* their identity; the last query is left out, its update is not.          *)
(***************************************************************************)
EXTENDS Sums

CONSTANTS Documents, Chunks,
          DocumentOf,              \* [Chunks -> Documents]
          TokensOf,                \* [Chunks -> Nat], estimateTokenCount
          ContextLists,            \* arguments of SetDocumentContext
          Callers,
          WorkingMemoryMaxTokens,
          MaxLoadedDocuments,
          WorkingMemoryTTL,        \* in ticks
          MaxOps,                  \* bound: operations of all callers
          LongTermResults,         \* what SearchMemory may find: texts' tokens
          TokenBudget              \* the prompt's budget for memory

ASSUME ChunksAssumption == /\ DocumentOf \in [Chunks -> Documents]
                           /\ TokensOf \in [Chunks -> Nat]
                           /\ ContextLists \subseteq Seq(Chunks)

\* A limit of no documents would make LoadDocument cut a slice that is empty.
ASSUME LimitsAssumption == /\ WorkingMemoryMaxTokens \in Nat
                           /\ MaxLoadedDocuments \in Nat \ {0}
                           /\ WorkingMemoryTTL \in Nat \ {0}
                           /\ MaxOps \in Nat
                           /\ TokenBudget \in Nat
                           /\ LongTermResults \subseteq Seq(Nat)

VARIABLES memory,  \* the stored memory: loaded, chunks and totalTokens
          life,    \* the key's remaining lifetime, 0 if it is missing
          op,      \* [Callers -> what the caller is doing]
          copy,    \* [Callers -> the memory it is about to SET]
          ttl,     \* [Callers -> the lifetime it is about to SET]
          ops,     \* operations so far
          prompt   \* what GetFormattedMemory gave last: chunks, and entries' tokens

callVars == <<op, copy, ttl>>
vars == <<memory, life, callVars, ops, prompt>>

-----------------------------------------------------------------------------
(* The memory *)

EmptyMemory == [loaded |-> <<>>, chunks |-> <<>>, totalTokens |-> 0]

Tokens(s) == SumOf(s, TokensOf)

\* The first chunks that fit together (with a bug: and one more).
trimPast(s) ==
    SubSeq(s, 1, Min({Len(s), 1 + Max({k \in 0..Len(s) :
                        Tokens(SubSeq(s, 1, k)) <= WorkingMemoryMaxTokens})}))
trimChunks(s) ==
    SubSeq(s, 1, Max({k \in 0..Len(s) : Tokens(SubSeq(s, 1, k)) <= WorkingMemoryMaxTokens}))

\* The retrieved chunks are replaced (with a bug: added to those there are).
WithMoreContext(mem, s) ==
    LET kept == trimChunks(mem.chunks \o s) IN
    [mem EXCEPT !.chunks = kept, !.totalTokens = Tokens(kept)]
WithContext(mem, s) ==
    [mem EXCEPT !.chunks = trimChunks(s), !.totalTokens = Tokens(trimChunks(s))]

\* A document that is loaded stays where it is; a new one may cost the oldest its
\* place, but not its chunks (with a bug: one that is loaded is loaded again).
LoadedAgain(mem, d) ==
    [mem EXCEPT !.loaded = Append(IF Len(@) >= MaxLoadedDocuments THEN Tail(@) ELSE @, d)]
WithDocument(mem, d) ==
    IF d \in ToSet(mem.loaded) THEN mem
    ELSE [mem EXCEPT !.loaded =
             Append(IF Len(@) >= MaxLoadedDocuments THEN Tail(@) ELSE @, d)]

ChunksOutside(D) == {c \in Chunks : DocumentOf[c] \notin D}

\* A document goes, and its chunks go with it (with a bug: the total stays).
WithoutRecount(mem, d) ==
    [mem EXCEPT !.loaded = KeepIn(@, Documents \ {d}),
                !.chunks = KeepIn(@, ChunksOutside({d}))]
WithoutDocument(mem, d) ==
    LET kept == KeepIn(mem.chunks, ChunksOutside({d})) IN
    [loaded      |-> KeepIn(mem.loaded, Documents \ {d}),
     chunks      |-> kept,
     totalTokens |-> Tokens(kept)]

Init == /\ memory = EmptyMemory
        /\ life = 0
        /\ op = [c \in Callers |-> "idle"]
        /\ copy = [c \in Callers |-> EmptyMemory]
        /\ ttl = [c \in Callers |-> 0]
        /\ ops = 0
        /\ prompt = [chunks |-> <<>>, entries |-> <<>>]

-----------------------------------------------------------------------------
(* Operations *)

Turn(c, o, mem, t) == /\ op' = [op EXCEPT ![c] = o]
                      /\ copy' = [copy EXCEPT ![c] = mem]
                      /\ ttl' = [ttl EXCEPT ![c] = t]

\* GET, and the copy as it is to be stored.  If GET fails, so does the operation.
Begin(c, o, mem, t) == /\ op[c] = "idle"
                       /\ ops < MaxOps
                       /\ ops' = ops + 1
                       /\ Turn(c, o, mem, t) \/ UNCHANGED callVars
                       /\ UNCHANGED <<memory, life, prompt>>

SetDocumentContext(c) ==
    \E s \in ContextLists : Begin(c, "storing", WithContext(memory, s), WorkingMemoryTTL)

LoadDocument(c) == \E d \in Documents : Begin(c, "saving", WithDocument(memory, d), 0)

\* Nothing is stored if the document is not loaded, even if chunks of it are.
UnloadDocument(c) ==
    \E d \in ToSet(memory.loaded) : Begin(c, "saving", WithoutDocument(memory, d), 0)

UpdateLastQuery(c) == Begin(c, "saving", memory, 0)

\* What Redis says of the lifetime, -2 if the key is missing, and the client if
\* the question fails.
TTLAnswers == {IF life = 0 THEN -2 ELSE life, 0}

\* The remaining lifetime, or a whole one if there is none.
Kept(t) == IF t <= 0 THEN WorkingMemoryTTL ELSE t

\* TTL of saveMemory.
ReadTTL(c) == /\ op[c] = "saving"
              /\ \E t \in TTLAnswers : Turn(c, "storing", copy[c], Kept(t))
              /\ UNCHANGED <<memory, life, ops, prompt>>

\* SET, applied (its answer may be lost) or not.
Store(c) == /\ op[c] = "storing"
            /\ Turn(c, "idle", EmptyMemory, 0)
            /\ \/ memory' = copy[c] /\ life' = ttl[c]
               \/ UNCHANGED <<memory, life>>
            /\ UNCHANGED <<ops, prompt>>

\* DEL of ClearSession, after that of the conversation: whichever fails ends it.
ClearWorkingMemory == /\ life > 0
                      /\ life' = 0
                      /\ memory' = EmptyMemory
                      /\ UNCHANGED <<callVars, ops, prompt>>

Tick == /\ life > 0
        /\ life' = life - 1
        /\ memory' = IF life' = 0 THEN EmptyMemory ELSE memory
        /\ UNCHANGED <<callVars, ops, prompt>>

-----------------------------------------------------------------------------
(* GetFormattedMemory *)

WorkingBudget  == (TokenBudget * 35) \div 100
LongTermBudget == (TokenBudget * 15) \div 100

\* The chunks go into the prompt all or none, by the total the memory states (with
\* a bug: whatever it is).
AlwaysFormatted(mem) == mem.chunks
FormatForContext(mem) == IF mem.totalTokens <= WorkingBudget THEN mem.chunks ELSE <<>>

\* SearchMemory fills in no TokenCount, so an entry weighs nothing.
TokenCount == [entry \in Nat |-> 0]

WeightTo(s, k) == SumOf(SubSeq(s, 1, k), TokenCount)

\* The entries found, up to the first that goes over the budget.
IncludedEntries(s) ==
    SubSeq(s, 1, Max({k \in 0..Len(s) : \A j \in 0..k : WeightTo(s, j) <= LongTermBudget}))

\* A failed GET or search leaves its part out.
GetFormattedMemory ==
    /\ ops < MaxOps
    /\ ops' = ops + 1
    /\ \E chunks \in {<<>>, FormatForContext(memory)}, found \in LongTermResults \cup {<<>>} :
          prompt' = [chunks |-> chunks, entries |-> IncludedEntries(found)]
    /\ UNCHANGED <<memory, life, callVars>>

-----------------------------------------------------------------------------
Call(c) == \/ SetDocumentContext(c) \/ LoadDocument(c) \/ UnloadDocument(c)
           \/ UpdateLastQuery(c) \/ ReadTTL(c) \/ Store(c)

Next == \/ \E c \in Callers : Call(c)
        \/ ClearWorkingMemory
        \/ Tick
        \/ GetFormattedMemory

Spec == Init /\ [][Next]_vars

-----------------------------------------------------------------------------
(* Properties *)

Memories == [loaded : Seq(Documents), chunks : Seq(Chunks), totalTokens : Nat]

\* Type invariant, a part of the next property.
TypeOK ==
    /\ memory \in Memories
    /\ life \in 0..WorkingMemoryTTL
    /\ op \in [Callers -> {"idle", "saving", "storing"}]
    /\ copy \in [Callers -> Memories]
    /\ ttl \in [Callers -> 0..WorkingMemoryTTL]
    /\ ops \in 0..MaxOps
    /\ prompt \in [chunks : Seq(Chunks), entries : Seq(Nat)]

\* Whoever wrote last, and from however stale a copy, the memory is whole: a total
\* that is the tokens of its chunks, within the limit, and loaded documents within
\* theirs, none twice.
MemoryIsWhole ==
    /\ TypeOK
    /\ memory.totalTokens = Tokens(memory.chunks)
    /\ memory.totalTokens <= WorkingMemoryMaxTokens
    /\ Len(memory.loaded) <= MaxLoadedDocuments
    /\ IsInjective(memory.loaded)

\* The chunks stored are of one retrieval: those one SetDocumentContext was given, in
\* its order, less what it trimmed off the end and what unloading took out, never of
\* two retrievals that raced.
OneRetrieval ==
    \E s \in ContextLists \cup {<<>>}, D \in SUBSET Documents :
        memory.chunks = KeepIn(trimChunks(s), ChunksOutside(D))

\* A prompt has the chunks of the working memory only if they fit its share of the
\* budget, although that is decided by a total that is nowhere checked.  Their content
\* counts, as in the code, not the lines FormatForContext writes around it.
WorkingWithinShare == Tokens(prompt.chunks) <= WorkingBudget
=============================================================================
