--------------------------- MODULE HybridContext ---------------------------
(***************************************************************************)
(* The HybridContextBuilder: one call of BuildHybridContext, which scores  *)
(* the chunks of a vector search and of whole documents, drops copies of   *)
(* the same content, and fits what is left to a budget of tokens, first    *)
(* tier by tier, then with whatever still fits.                            *)
(*                                                                         *)
(* A chunk is its key.  Its score depends on where it was found only: the  *)
(* weights, the position, headers and summaries are in the number.  Maps   *)
(* are iterated and equal scores sorted in any order.                      *)
(***************************************************************************)
EXTENDS Sums

CONSTANTS Chunks,
          Content,      \* [Chunks -> content], equal for copies
          TokensOf,     \* [Chunks -> Nat], estimated from the content
          Score,        \* [Chunks -> [Sources -> Int]], the combined score
          Tiers,        \* PriorityTiers as configured: name, minScore, tokens
          Budgets       \* values of TokenBudget

\* How a chunk is found.  The Source of one the full documents have twice is 'both' in
\* the code, too, but it has no score of a search.
Sources == {"vector", "full_doc", "both", "twice"}

TierNames == {Tiers[t].name : t \in DOMAIN Tiers}

ASSUME ChunksAssumption ==
    /\ TokensOf \in [Chunks -> Nat]
    /\ Score \in [Chunks -> [Sources -> Int]]
    /\ \A c, d \in Chunks : Content[c] = Content[d] => TokensOf[c] = TokensOf[d]

\* The tokens of a tier are its percentage of the budget, or its MaxTokens if less.
ASSUME TiersAssumption ==
    /\ Tiers \in Seq([name : TierNames, minScore : Int, tokens : Nat])
    /\ \A u, v \in DOMAIN Tiers :
          u # v => Tiers[u].name # Tiers[v].name /\ Tiers[u].minScore # Tiers[v].minScore

ASSUME BudgetsAssumption == Budgets \subseteq Int

VARIABLES config,           \* tokenBudget and deduplicateByContent
          vectorChunks, fullDocChunks,
          again,            \* chunks that come twice in fullDocChunks
          step,             \* where the call stands
          source,           \* [Chunks -> where the chunk was found]
          list,             \* scored chunks in the order of the slice
          t, i,             \* the tier and the position the loops are at
          result,           \* chunks selected
          remaining,        \* remainingBudget
          tierUsed,         \* tierUsedTokens
          tierBreakdown     \* [tier names -> tokens selected]

input == <<config, vectorChunks, fullDocChunks, again>>
loop  == <<t, i, result, remaining, tierUsed, tierBreakdown>>
vars  == <<input, step, source, list, loop>>

\* Before the call, which brings the configuration and the chunks.
Init == /\ config = [tokenBudget |-> 0, deduplicateByContent |-> FALSE]
        /\ vectorChunks = {} /\ fullDocChunks = {} /\ again = {}
        /\ step = "waiting"
        /\ source = [c \in Chunks |-> "none"]
        /\ list = <<>>
        /\ t = 1 /\ i = 1
        /\ result = <<>>
        /\ remaining = 0
        /\ tierUsed = 0
        /\ tierBreakdown = [n \in TierNames \cup {"default"} |-> 0]

\* The call: what the search found, what the documents hold, what they hold twice.
BuildHybridContext(found, inDocuments, twice) ==
    /\ step = "waiting"
    /\ config' \in [tokenBudget : Budgets, deduplicateByContent : BOOLEAN]
    /\ vectorChunks' = found
    /\ fullDocChunks' = inDocuments
    /\ again' = twice
    /\ step' = "score"
    /\ UNCHANGED <<source, list, loop>>

-----------------------------------------------------------------------------
(* Scoring *)

\* A chunk met again among the full documents keeps what it was first found with.
SourceOf(c) ==
    IF c \in vectorChunks
      THEN IF c \in fullDocChunks THEN "both" ELSE "vector"
      ELSE IF c \in again THEN "twice"
           ELSE IF c \in fullDocChunks THEN "full_doc" ELSE "none"

CombinedScore(c) == Score[c][source[c]]

Orderings(s) == {[k \in DOMAIN s |-> s[p[k]]] : p \in SetToSeqs(DOMAIN s)}

\* The orders sort.Slice may give the slice s.
Descending(s, score) ==
    LET above == {p \in ToSet(s) \X ToSet(s) : score[p[1]] > score[p[2]]}
    IN  {o \in Orderings(s) : \A k \in DOMAIN o : \A j \in 1..(k - 1) : <<o[k], o[j]>> \notin above}

scoreAllChunks ==
    /\ step = "score"
    /\ source' = [c \in Chunks |-> SourceOf(c)]
    /\ LET found == {c \in Chunks : SourceOf(c) # "none"}
       IN  list' \in Descending(SetToSeq(found), [c \in found |-> Score[c][SourceOf(c)]])
    /\ step' = "deduplicate"
    /\ UNCHANGED <<input, loop>>

-----------------------------------------------------------------------------
(* Copies of one content *)

\* One turn of the loop: of two copies the better one is kept, in the place of the
\* first (with a bug: always the later one).
KeepLater(kept, c) ==
    LET copies == {k \in DOMAIN kept : Content[kept[k]] = Content[c]} IN
    IF copies = {} THEN Append(kept, c)
    ELSE [k \in DOMAIN kept |-> IF k \in copies THEN c ELSE kept[k]]
KeepBetter(kept, c) ==
    LET copies == {k \in DOMAIN kept : Content[kept[k]] = Content[c]} IN
    IF copies = {} THEN Append(kept, c)
    ELSE [k \in DOMAIN kept |->
            IF k \in copies /\ CombinedScore(c) > CombinedScore(kept[k]) THEN c ELSE kept[k]]

\* The list as the budget is fitted to, and what the loops start with.  Without a
\* budget everything is taken.
deduplicateByContent ==
    /\ step = "deduplicate"
    /\ list' = IF config.deduplicateByContent THEN FoldLeft(KeepBetter, <<>>, list) ELSE list
    /\ IF config.tokenBudget <= 0
         THEN /\ result' = list'
              /\ step' = "done"
              /\ UNCHANGED remaining
         ELSE /\ remaining' = config.tokenBudget
              /\ step' = "tiers"
              /\ UNCHANGED result
    /\ UNCHANGED <<input, source, t, i, tierUsed, tierBreakdown>>

-----------------------------------------------------------------------------
(* Tiers *)

\* The highest tier a chunk qualifies for, or the lowest there is.
PriorityTier(c) ==
    LET reached == {u \in DOMAIN Tiers : CombinedScore(c) >= Tiers[u].minScore}
        higher(u, v) == Tiers[u].minScore >= Tiers[v].minScore
    IN  IF Tiers = <<>> THEN "default"
        ELSE IF reached # {}
          THEN Tiers[CHOOSE u \in reached : \A v \in reached : higher(u, v)].name
          ELSE Tiers[CHOOSE u \in DOMAIN Tiers : \A v \in DOMAIN Tiers : higher(v, u)].name

\* The tokens this tier may use (with a bug: whatever the tiers before it used).
FullShare == Tiers[t].tokens
TierBudget == Min({Tiers[t].tokens, remaining})

\* First pass, one chunk of the slice.
TakeInTier ==
    /\ step = "tiers"
    /\ t <= Len(Tiers) /\ i <= Len(list)
    /\ IF /\ PriorityTier(list[i]) = Tiers[t].name
          /\ tierUsed + TokensOf[list[i]] <= TierBudget
         THEN /\ result' = Append(result, list[i])
              /\ tierUsed' = tierUsed + TokensOf[list[i]]
         ELSE UNCHANGED <<result, tierUsed>>
    /\ i' = i + 1
    /\ UNCHANGED <<input, step, source, list, t, remaining, tierBreakdown>>

EndTier ==
    /\ step = "tiers"
    /\ t <= Len(Tiers) /\ i > Len(list)
    /\ remaining' = remaining - tierUsed
    /\ tierBreakdown' = [tierBreakdown EXCEPT ![Tiers[t].name] = tierUsed]
    /\ t' = t + 1
    /\ i' = 1
    /\ tierUsed' = 0
    /\ UNCHANGED <<input, step, source, list, result>>

\* The second pass, if there is room for one.
EndTiers == /\ step = "tiers"
            /\ t > Len(Tiers)
            /\ step' = IF remaining > 0 THEN "fill" ELSE "sort"
            /\ UNCHANGED <<input, source, list, loop>>

\* Not taken yet (with a bug: or so already).
Listed(c) == c \in Chunks
Unused(c) == c \notin ToSet(result)

\* The breakdown with chunk c in it (with a bug: under its tier, but not added).
SetFor(c) == [tierBreakdown EXCEPT ![PriorityTier(c)] = TokensOf[c]]
AddFor(c) == [tierBreakdown EXCEPT ![PriorityTier(c)] = @ + TokensOf[c]]

\* Second pass, one chunk of the slice, of whatever tier.
Fill ==
    /\ step = "fill"
    /\ i <= Len(list)
    /\ IF Unused(list[i]) /\ TokensOf[list[i]] <= remaining
         THEN /\ result' = Append(result, list[i])
              /\ remaining' = remaining - TokensOf[list[i]]
              /\ tierBreakdown' = AddFor(list[i])
         ELSE UNCHANGED <<result, remaining, tierBreakdown>>
    /\ i' = i + 1
    /\ UNCHANGED <<input, step, source, list, t, tierUsed>>

EndFill == /\ step = "fill"
           /\ i > Len(list)
           /\ step' = "sort"
           /\ UNCHANGED <<input, source, list, loop>>

SortResult == /\ step = "sort"
              /\ result' \in Descending(result, [c \in ToSet(result) |-> CombinedScore(c)])
              /\ step' = "done"
              /\ UNCHANGED <<input, source, list, t, i, remaining, tierUsed, tierBreakdown>>

fitToTokenBudget == TakeInTier \/ EndTier \/ EndTiers \/ Fill \/ EndFill \/ SortResult

Next == scoreAllChunks \/ deduplicateByContent \/ fitToTokenBudget

-----------------------------------------------------------------------------
(* Properties *)

\* Type invariant.
TypeOK ==
    /\ config \in [tokenBudget : Budgets \cup {0}, deduplicateByContent : BOOLEAN]
    /\ vectorChunks \subseteq Chunks
    /\ fullDocChunks \subseteq Chunks
    /\ again \subseteq fullDocChunks
    /\ step \in {"waiting", "score", "deduplicate", "tiers", "fill", "sort", "done"}
    /\ source \in [Chunks -> Sources \cup {"none"}]
    /\ list \in Seq(Chunks)
    /\ t \in 1..(Len(Tiers) + 1)
    /\ i \in 1..(Len(list) + 1)
    /\ result \in Seq(Chunks)
    /\ remaining \in Nat
    /\ tierUsed \in Nat
    /\ tierBreakdown \in [TierNames \cup {"default"} -> Nat]

SumTokens(s) == SumOf(s, TokensOf)

\* The breakdown, written by both passes, accounts for every token selected.
BreakdownAddsUp ==
    step = "done" /\ config.tokenBudget > 0 =>
        SumTokens(result) = SumOf(SetToSeq(DOMAIN tierBreakdown), tierBreakdown)

\* If copies are dropped, the one that stays is never worse than one that went,
\* and no content appears twice.
BestCopyStays ==
    step \notin {"waiting", "score", "deduplicate"} /\ config.deduplicateByContent =>
        /\ \A c \in Chunks : source[c] # "none" =>
              \E d \in ToSet(list) : /\ Content[d] = Content[c]
                                     /\ CombinedScore(d) >= CombinedScore(c)
        /\ \A j, k \in DOMAIN list : j # k => Content[list[j]] # Content[list[k]]

\* The call is a selection within a budget: two passes run down two budgets, and no
\* chunk is taken twice, nothing over the budget, and nothing left out that still fits.
Stage == CASE step \in {"waiting", "score", "deduplicate"} -> "waiting"
           [] step \in {"tiers", "fill"}        -> "choosing"
           [] step \in {"sort", "done"}         -> "closed"

Selection == INSTANCE BudgetedSelection WITH
                 stage      <- Stage,
                 candidates <- IF Stage = "waiting" THEN {} ELSE ToSet(list),
                 chosen     <- ToSet(result),
                 room       <- remaining - tierUsed

SelectionSpec == Selection!Spec
=============================================================================
