-------------------------- MODULE ShortTermMemory --------------------------
(***************************************************************************)
(* The conversation buffer of one session, a JSON document under one Redis *)
(* key.  Every operation is a GET, a change of the copy and a SET, without *)
(* a lock or a transaction, so the calls of concurrent requests interleave *)
(* between the two; the key may also expire or be deleted in between.      *)
(*                                                                         *)
(* A missing key reads as the empty buffer.  Message texts are left out, a *)
(* message has a number of tokens; timestamps and identifiers too.         *)
(***************************************************************************)
EXTENDS Sums

CONSTANTS Messages,             \* messages to add, each once
          TokenCount,           \* [Messages -> Nat], estimateTokenCount of each
          Callers,              \* requests that use the session
          ShortTermMaxTokens, ShortTermMaxEntries,
          ShortTermBudget,      \* half of the prompt's budget for memory
          ClearsMidCall,        \* the key may go between a GET and its SET
          MaxReads              \* bound: GetFormattedMemory calls of all callers

ASSUME TokenCountAssumption == TokenCount \in [Messages -> Nat]
ASSUME LimitsAssumption == /\ ShortTermMaxTokens \in Nat
                           /\ ShortTermMaxEntries \in Nat
                           /\ ShortTermBudget \in Nat
                           /\ MaxReads \in Nat
ASSUME ClearsAssumption == ClearsMidCall \in BOOLEAN

VARIABLES conv,     \* the stored buffer: entries, oldest first, and totalTokens
          op,       \* [Callers -> what the caller is doing]
          copy,     \* [Callers -> the buffer its last GET returned]
          msg,      \* [Callers -> the message it is adding, "none" before the first]
          sent,     \* messages some caller took up
          reads,    \* GetFormattedMemory calls so far
          written,  \* messages whose SET was applied, in that order
          base      \* how many of those a clear, an expiry or a trim gave up

callVars == <<op, copy, msg>>
vars == <<conv, callVars, sent, reads, written, base>>

-----------------------------------------------------------------------------
(* The buffer *)

EmptyBuffer == [entries |-> <<>>, totalTokens |-> 0]

Tokens(s) == SumOf(s, TokenCount)

\* The buffer without its n oldest entries (with a bug: at the old total).
DropKeepingTotal(mem, n) ==
    [mem EXCEPT !.entries = SubSeq(@, n + 1, Len(@))]
DropOldest(mem, n) ==
    [entries     |-> SubSeq(mem.entries, n + 1, Len(mem.entries)),
     totalTokens |-> mem.totalTokens - Tokens(SubSeq(mem.entries, 1, n))]

\* Drop the oldest entries one by one while there are any and the total is over
\* the limit (with a bug: while it is not under it).
DropBelowTokens(mem, limit) ==
    LET n == Len(mem.entries)
        enough(k) == k = n \/ DropOldest(mem, k).totalTokens < limit
    IN  DropOldest(mem, Min({k \in 0..n : enough(k)}))
DropToTokens(mem, limit) ==
    LET n == Len(mem.entries)
        enough(k) == k = n \/ DropOldest(mem, k).totalTokens <= limit
    IN  DropOldest(mem, Min({k \in 0..n : enough(k)}))

\* Drop the oldest entries over the number allowed (with a bug: one more stays).
DropToEntriesPlusOne(mem) ==
    DropOldest(mem, IF Len(mem.entries) > ShortTermMaxEntries + 1
                    THEN Len(mem.entries) - ShortTermMaxEntries - 1 ELSE 0)
DropToEntries(mem) ==
    DropOldest(mem, IF Len(mem.entries) > ShortTermMaxEntries
                    THEN Len(mem.entries) - ShortTermMaxEntries ELSE 0)

trimMemory(mem) == DropToTokens(DropToEntries(mem), ShortTermMaxTokens)

\* The buffer with one more message (with a bug: at the wrong end).
Prepended(mem, m) ==
    trimMemory([entries     |-> <<m>> \o mem.entries,
                totalTokens |-> mem.totalTokens + TokenCount[m]])
Added(mem, m) ==
    trimMemory([entries     |-> Append(mem.entries, m),
                totalTokens |-> mem.totalTokens + TokenCount[m]])

Init == /\ conv = EmptyBuffer
        /\ op   = [c \in Callers |-> "idle"]
        /\ copy = [c \in Callers |-> EmptyBuffer]
        /\ msg  = [c \in Callers |-> "none"]
        /\ sent = {}
        /\ reads = 0
        /\ written = <<>>
        /\ base = 0

\* Caller c goes on to step o, with the copy b of the buffer.
Turn(c, o, b) == /\ op' = [op EXCEPT ![c] = o]
                 /\ copy' = [copy EXCEPT ![c] = b]

-----------------------------------------------------------------------------
(* AddMessage *)

\* GET; if it fails the message is reported as not stored and that is all.
ReadToAdd(c, m) == /\ op[c] = "idle"
                   /\ m \notin sent
                   /\ sent' = sent \cup {m}
                   /\ \/ Turn(c, "adding", conv) /\ msg' = [msg EXCEPT ![c] = m]
                      \/ UNCHANGED callVars
                   /\ UNCHANGED <<conv, reads, written, base>>

\* SET of the copy with the message: applied (its answer may be lost) or not.
StoreAdded(c) == /\ op[c] = "adding"
                 /\ Turn(c, "idle", EmptyBuffer)
                 /\ \/ /\ conv' = Added(copy[c], msg[c])
                       /\ written' = Append(written, msg[c])
                    \/ UNCHANGED <<conv, written>>
                 /\ UNCHANGED <<msg, sent, reads, base>>

-----------------------------------------------------------------------------
(* GetFormattedMemory, the part that reads this buffer.  A request looks at  *)
(* the total, has the buffer trimmed to its share of the prompt if it is     *)
(* over (by TrimToTokenLimit, which reads the buffer again), and reads the   *)
(* buffer once more.                                                         *)

Peek(c) == /\ op[c] = "idle"
           /\ reads < MaxReads
           /\ reads' = reads + 1
           /\ op' = [op EXCEPT ![c] =
                       IF conv.totalTokens > ShortTermBudget THEN "to_trim" ELSE "idle"]
           /\ UNCHANGED <<conv, copy, msg, sent, written, base>>

\* GET of TrimToTokenLimit.  If it fails, the buffer peeked at is formatted.
ReadToTrim(c) == /\ op[c] = "to_trim"
                 /\ \/ conv.totalTokens > ShortTermBudget /\ Turn(c, "trimming", conv)
                    \/ conv.totalTokens <= ShortTermBudget /\ Turn(c, "to_reread", EmptyBuffer)
                    \/ Turn(c, "idle", EmptyBuffer)
                 /\ UNCHANGED <<conv, msg, sent, reads, written, base>>

\* SET of TrimToTokenLimit: what it drops is gone from the session, not only
\* from this prompt.
StoreTrimmed(c) ==
    /\ op[c] = "trimming"
    /\ \/ /\ conv' = DropToTokens(copy[c], ShortTermBudget)
          /\ base' = Len(written) - Len(conv'.entries)
          /\ Turn(c, "to_reread", EmptyBuffer)
       \/ UNCHANGED <<conv, base>> /\ Turn(c, "idle", EmptyBuffer)
    /\ UNCHANGED <<msg, sent, reads, written>>

\* The last GET.  Its error is dropped and the missing result dereferenced.
Reread(c) == /\ op[c] = "to_reread"
             /\ \E o \in {"idle", "panicked"} : Turn(c, o, EmptyBuffer)
             /\ UNCHANGED <<conv, msg, sent, reads, written, base>>

-----------------------------------------------------------------------------
\* ClearConversation, or the key expires.
Clear == /\ ClearsMidCall \/ \A c \in Callers : op[c] \notin {"adding", "trimming"}
         /\ conv' = EmptyBuffer
         /\ base' = Len(written)
         /\ UNCHANGED <<callVars, sent, reads, written>>

AddMessage(c) == (\E m \in Messages : ReadToAdd(c, m)) \/ StoreAdded(c)

GetFormattedMemory(c) == Peek(c) \/ ReadToTrim(c) \/ StoreTrimmed(c) \/ Reread(c)

Next == \/ \E c \in Callers : AddMessage(c) \/ GetFormattedMemory(c)
        \/ Clear

Spec == Init /\ [][Next]_vars

-----------------------------------------------------------------------------
(* Properties *)

Buffers == [entries : Seq(Messages), totalTokens : Nat]

\* Type invariant.
TypeOK == /\ conv \in Buffers
          /\ op \in [Callers -> {"idle", "adding", "to_trim", "trimming", "to_reread", "panicked"}]
          /\ copy \in [Callers -> Buffers]
          /\ msg \in [Callers -> Messages \cup {"none"}]
          /\ sent \subseteq Messages
          /\ reads \in 0..MaxReads
          /\ written \in Seq(Messages)
          /\ base \in Nat

\* totalTokens, which every operation updates and none recomputes, is the sum of
\* the entries stored, after any mixture of stale copies, trims and expiries.
TotalIsExact == conv.totalTokens = Tokens(conv.entries)

\* The buffer keeps both limits, whoever wrote it last and from whatever copy.
WithinLimits == /\ Len(conv.entries) <= ShortTermMaxEntries
                /\ conv.totalTokens <= ShortTermMaxTokens

\* Callers that race may lose messages, but the buffer never shows one that no
\* SET stored, shows none twice, and keeps the order in which they were stored.
Position(m) == CHOOSE i \in DOMAIN written : written[i] = m

Ordered(s) == /\ ToSet(s) \subseteq ToSet(written)
              /\ \A i, j \in DOMAIN s : i < j => Position(s[i]) < Position(s[j])

NoInvention == Ordered(conv.entries)

\* With one caller at a time, and no expiry between its GET and its SET, the
\* buffer is the sliding window it is meant to be: every write leaves the longest
\* run of recent messages that fits.
FitsLimits(s) == Len(s) <= ShortTermMaxEntries /\ Tokens(s) <= ShortTermMaxTokens

Window == INSTANCE SlidingWindow WITH
              Fits    <- FitsLimits,
              history <- SubSeq(written, base + 1, Len(written)),
              window  <- conv.entries

WindowSpec == Window!Spec

\* "AddMessage adds a message to the conversation buffer": one whose SET was
\* applied is there as long as everything stored since the buffer was emptied
\* fits the limits.
AddedMessagesStay ==
    LET added == SubSeq(written, base + 1, Len(written)) IN
    FitsLimits(added) => ToSet(added) \subseteq ToSet(conv.entries)
=============================================================================
