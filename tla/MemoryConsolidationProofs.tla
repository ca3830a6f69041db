--------------------- MODULE MemoryConsolidationProofs ---------------------
(***************************************************************************)
(* The memory of a session, for any messages, callers and limits: first    *)
(* the conversation buffer of ShortTermMemory, then the consolidation that *)
(* reads it.                                                               *)
(***************************************************************************)
EXTENDS MemoryConsolidation, SumsProofs

-----------------------------------------------------------------------------
(* Buffers *)

\* A buffer whose total is that of its entries, and one within the limits.
Exact(mem) == mem \in Buffers /\ mem.totalTokens = Tokens(mem.entries)

\* A buffer is within its two limits.
Within(mem) == /\ Len(mem.entries) <= ShortTermMaxEntries
               /\ mem.totalTokens <= ShortTermMaxTokens

\* An empty buffer has no tokens and is within its limits.
LEMMA EmptyIsExact == Exact(EmptyBuffer) /\ Within(EmptyBuffer)
<1>1. Tokens(<<>>) = 0
  BY TokenCountAssumption, SumEmpty DEF Tokens
<1> QED BY <1>1, LimitsAssumption DEF Exact, Within, EmptyBuffer, Buffers

\* The total that goes with the entries dropped leaves that of the others.
LEMMA DropIsExact ==
    ASSUME NEW mem, Exact(mem), NEW k \in 0..Len(mem.entries)
    PROVE  /\ Exact(DropOldest(mem, k))
           /\ DropOldest(mem, k).entries = SubSeq(mem.entries, k + 1, Len(mem.entries))
           /\ Len(DropOldest(mem, k).entries) = Len(mem.entries) - k
           /\ DropOldest(mem, k).totalTokens <= mem.totalTokens
<1> DEFINE e == mem.entries
           front == SubSeq(e, 1, k)
           rest == SubSeq(e, k + 1, Len(e))
<1>1. /\ e \in Seq(Messages) /\ k \in 0..Len(e)
      /\ mem.totalTokens \in Nat /\ mem.totalTokens = Tokens(e)
  BY DEF Exact, Buffers
<1>2. front \in Seq(Messages) /\ rest \in Seq(Messages) /\ Len(rest) = Len(e) - k
  BY <1>1
<1>3. Tokens(front) \in Nat /\ Tokens(rest) \in Nat
  <2> HIDE DEF front, rest
  <2> QED BY <1>2, TokenCountAssumption, SumIsNat DEF Tokens
<1>4. Tokens(e) = Tokens(front) + Tokens(rest)
  <2> HIDE DEF e
  <2> QED BY <1>1, TokenCountAssumption, SumSplit DEF Tokens
<1>5. DropOldest(mem, k) = [entries |-> rest, totalTokens |-> mem.totalTokens - Tokens(front)]
  BY DEF DropOldest
<1>6. mem.totalTokens - Tokens(front) = Tokens(rest) /\ Tokens(rest) <= mem.totalTokens
  <2> HIDE DEF e, front, rest
  <2> QED BY <1>1, <1>3, <1>4
<1> HIDE DEF front, rest
<1>7. Exact(DropOldest(mem, k))
  BY <1>2, <1>3, <1>5, <1>6 DEF Exact, Buffers
<1> QED BY <1>2, <1>5, <1>6, <1>7 DEF rest

\* Dropping down to a limit drops as little as will do.
LEMMA DropToTokensDrops ==
    ASSUME NEW mem, Exact(mem), NEW limit \in Nat
    PROVE  \E k \in 0..Len(mem.entries) :
              /\ DropToTokens(mem, limit) = DropOldest(mem, k)
              /\ DropOldest(mem, k).totalTokens <= limit
              /\ \A j \in 0..(k - 1) : DropOldest(mem, j).totalTokens > limit
<1> DEFINE n == Len(mem.entries)
           enough(k) == k = n \/ DropOldest(mem, k).totalTokens <= limit
           S == {k \in 0..n : enough(k)}
           k0 == Min(S)
<1>1. n \in Nat
  BY DEF Exact, Buffers
<1>2. k0 \in S /\ \A k \in S : k0 <= k
  <2>1. n \in S /\ S \in SUBSET (0..n)
    BY <1>1
  <2> HIDE DEF S, n
  <2> QED BY <1>1, <2>1, BoundedMin
<1>3. DropToTokens(mem, limit) = DropOldest(mem, k0)
  BY DEF DropToTokens
<1> HIDE DEF k0
<1>4. \A k \in 0..n : DropOldest(mem, k).totalTokens \in Nat
  BY DropIsExact DEF Exact, Buffers
<1>5. DropOldest(mem, n).totalTokens = 0
  <2>1. n \in 0..Len(mem.entries)
    BY <1>1
  <2>2. Exact(DropOldest(mem, n)) /\ DropOldest(mem, n).entries = SubSeq(mem.entries, n + 1, n)
    BY <2>1, DropIsExact
  <2>3. SubSeq(mem.entries, n + 1, n) = <<>>
    BY <1>1
  <2>4. Tokens(<<>>) = 0
    BY TokenCountAssumption, SumEmpty DEF Tokens
  <2> QED BY <2>2, <2>3, <2>4 DEF Exact
<1>6. DropOldest(mem, k0).totalTokens <= limit
  BY <1>2, <1>5
<1>7. \A j \in 0..(k0 - 1) : DropOldest(mem, j).totalTokens > limit
  <2> SUFFICES ASSUME NEW j \in 0..(k0 - 1) PROVE DropOldest(mem, j).totalTokens > limit
    OBVIOUS
  <2>1. j \in 0..n /\ j \notin S
    BY <1>1, <1>2
  <2>2. ~(DropOldest(mem, j).totalTokens <= limit)
    BY <2>1
  <2>3. DropOldest(mem, j).totalTokens \in Nat
    BY <1>4, <2>1
  <2> HIDE DEF S, n
  <2> QED BY <2>2, <2>3
<1>8. k0 \in 0..n
  BY <1>2
<1> QED BY <1>3, <1>6, <1>7, <1>8

\* Dropping the oldest messages for tokens leaves the total exact and within the limit.
LEMMA DropToTokensIsExact ==
    ASSUME NEW mem, Exact(mem), NEW limit \in Nat
    PROVE  /\ Exact(DropToTokens(mem, limit))
           /\ DropToTokens(mem, limit).totalTokens <= limit
           /\ DropToTokens(mem, limit).totalTokens <= mem.totalTokens
           /\ Len(DropToTokens(mem, limit).entries) <= Len(mem.entries)
<1>1. PICK k \in 0..Len(mem.entries) :
              /\ DropToTokens(mem, limit) = DropOldest(mem, k)
              /\ DropOldest(mem, k).totalTokens <= limit
  BY DropToTokensDrops
<1>2. Len(mem.entries) \in Nat
  BY DEF Exact, Buffers
<1> QED BY <1>1, <1>2, DropIsExact

\* What AddMessage stores: the copy with the message, less its oldest entries.
LEMMA AddedIsExact ==
    ASSUME NEW mem, Exact(mem), NEW m \in Messages
    PROVE  /\ Exact(Added(mem, m)) /\ Within(Added(mem, m))
           /\ \E k \in 0..(Len(mem.entries) + 1) :
                 Added(mem, m).entries
                    = SubSeq(Append(mem.entries, m), k + 1, Len(mem.entries) + 1)
<1> DEFINE e == Append(mem.entries, m)
           n == Len(mem.entries) + 1
           longer == [entries |-> e, totalTokens |-> mem.totalTokens + TokenCount[m]]
           over == IF n > ShortTermMaxEntries THEN n - ShortTermMaxEntries ELSE 0
           shorter == DropOldest(longer, over)
           added == DropToTokens(shorter, ShortTermMaxTokens)
<1>1. mem.entries \in Seq(Messages) /\ mem.totalTokens \in Nat /\ mem.totalTokens = Tokens(mem.entries)
  BY DEF Exact, Buffers
<1>2. e \in Seq(Messages) /\ Len(e) = n /\ n \in Nat /\ TokenCount[m] \in Nat
  BY <1>1, TokenCountAssumption
<1>3. Exact(longer)
  <2>1. Tokens(e) = Tokens(mem.entries) + TokenCount[m]
    BY <1>1, TokenCountAssumption, SumAppend DEF Tokens
  <2> HIDE DEF e
  <2> QED BY <1>1, <1>2, <2>1 DEF Exact, Buffers
<1>4. over \in 0..n /\ n - over <= ShortTermMaxEntries
  BY <1>2, LimitsAssumption
<1>5. longer.entries = e
  OBVIOUS
<1>6. Added(mem, m) = added
  <2>1. Added(mem, m) = trimMemory(longer)
    BY DEF Added
  <2>2. DropToEntries(longer) = shorter
    BY <1>2 DEF DropToEntries
  <2> QED BY <2>1, <2>2 DEF trimMemory
<1> HIDE DEF e, n, longer, over
<1>7. Exact(shorter) /\ shorter.entries = SubSeq(e, over + 1, n) /\ Len(shorter.entries) = n - over
  BY <1>2, <1>3, <1>4, <1>5, DropIsExact
<1> HIDE DEF shorter
<1>8. PICK k \in 0..(n - over) :
              added = DropOldest(shorter, k) /\ added.totalTokens <= ShortTermMaxTokens
  <2>1. PICK k \in 0..Len(shorter.entries) :
               /\ added = DropOldest(shorter, k)
               /\ DropOldest(shorter, k).totalTokens <= ShortTermMaxTokens
    BY <1>7, LimitsAssumption, DropToTokensDrops
  <2> QED BY <1>7, <2>1
<1> HIDE DEF added
<1>9. /\ Exact(added) /\ added.entries = SubSeq(SubSeq(e, over + 1, n), k + 1, n - over)
      /\ Len(added.entries) = (n - over) - k
  BY <1>7, <1>8, DropIsExact
<1>10. Within(added)
  BY <1>2, <1>4, <1>8, <1>9, LimitsAssumption DEF Within
<1>11. SubSeq(SubSeq(e, over + 1, n), k + 1, n - over) = SubSeq(e, (over + k) + 1, n)
  BY <1>2, <1>4, <1>8
<1>12. over + k \in 0..n
  BY <1>2, <1>4, <1>8
<1> QED BY <1>6, <1>9, <1>10, <1>11, <1>12 DEF e, n

-----------------------------------------------------------------------------
(* The limits and the totals of ShortTermMemory *)

\* Every copy is a buffer that was stored, and what is added is a message.  A buffer
\* is never longer than what was written.
States == {"idle", "adding", "to_trim", "trimming", "to_reread", "panicked"}

\* A buffer has no more messages than were written.
Short(mem, w) == Len(mem.entries) <= Len(w)

\* The inductive invariant: every buffer, stored or in the hands of a caller, is exact
\* and within the limits.
BufferInv == /\ TypeOK
             /\ Exact(conv) /\ Within(conv) /\ Short(conv, written)
             /\ \A c \in Callers : /\ Exact(copy[c]) /\ Within(copy[c])
                                   /\ Short(copy[c], written)
                                   /\ op[c] = "adding" => msg[c] \in Messages

\* At first every buffer is empty.
LEMMA BufferInit == Init => BufferInv
<1> SUFFICES ASSUME Init PROVE BufferInv
  OBVIOUS
<1>1. Short(EmptyBuffer, <<>>)
  BY DEF Short, EmptyBuffer
<1> QED BY <1>1, EmptyIsExact, LimitsAssumption DEF Init, BufferInv, TypeOK, Exact

\* A message added and the buffer trimmed by both limits leave it exact and within them.
LEMMA TrimmedIsExact ==
    ASSUME NEW mem, Exact(mem), Within(mem)
    PROVE  LET b == DropToTokens(mem, ShortTermBudget) IN
           /\ Exact(b) /\ Within(b)
           /\ \A w \in Seq(Messages) : Short(mem, w) => Short(b, w)
<1> DEFINE b == DropToTokens(mem, ShortTermBudget)
<1>1. Exact(b) /\ b.totalTokens <= mem.totalTokens /\ Len(b.entries) <= Len(mem.entries)
  BY LimitsAssumption, DropToTokensIsExact
<1>2. /\ b.totalTokens \in Nat /\ mem.totalTokens \in Nat
      /\ Len(b.entries) \in Nat /\ Len(mem.entries) \in Nat
  <2> HIDE DEF b
  <2> QED BY <1>1 DEF Exact, Buffers
<1> HIDE DEF b
<1>3. Within(b)
  BY <1>1, <1>2, LimitsAssumption DEF Within
<1>4. \A w \in Seq(Messages) : Short(mem, w) => Short(b, w)
  BY <1>1, <1>2 DEF Short
<1> QED BY <1>1, <1>3, <1>4 DEF b

\* A write of what was read before leaves buffers short.
LEMMA AddedIsShort ==
    ASSUME NEW w \in Seq(Messages), NEW m \in Messages
    PROVE  /\ \A mem : Exact(mem) /\ Short(mem, w) => Short(mem, Append(w, m))
           /\ \A mem : Exact(mem) /\ Short(mem, w) => Short(Added(mem, m), Append(w, m))
<1>1. Len(Append(w, m)) = Len(w) + 1 /\ Len(w) \in Nat
  OBVIOUS
<1>2. ASSUME NEW mem, Exact(mem), Short(mem, w)
      PROVE  Short(mem, Append(w, m)) /\ Short(Added(mem, m), Append(w, m))
  <2>1. mem.entries \in Seq(Messages) /\ Len(mem.entries) \in Nat
    BY <1>2 DEF Exact, Buffers
  <2>2. PICK k \in 0..(Len(mem.entries) + 1) :
             Added(mem, m).entries = SubSeq(Append(mem.entries, m), k + 1, Len(mem.entries) + 1)
    BY <1>2, AddedIsExact
  <2>3. Len(Added(mem, m).entries) <= Len(mem.entries) + 1
    BY <2>1, <2>2
  <2>4. Len(Added(mem, m).entries) \in Nat
    BY <1>2, AddedIsExact DEF Exact, Buffers
  <2> QED BY <1>1, <1>2, <2>1, <2>3, <2>4 DEF Short
<1> QED BY <1>2

\* A step of a caller to a buffer that is exact.
LEMMA TurnKeeps ==
    ASSUME BufferInv, NEW c \in Callers, NEW o \in States,
           NEW b, Exact(b), Within(b), Short(b, written), Turn(c, o, b)
    PROVE  /\ op' \in [Callers -> States]
           /\ copy' \in [Callers -> Buffers]
           /\ \A d \in Callers : /\ Exact(copy'[d]) /\ Within(copy'[d])
                                 /\ Short(copy'[d], written)
           /\ \A d \in Callers : op'[d] = "adding" =>
                                    IF d = c THEN o = "adding" ELSE op[d] = "adding"
  BY DEF BufferInv, TypeOK, Turn, Exact, States

\* The invariant of the next state, from the parts a step may change.
LEMMA BufferParts ==
    ASSUME op' \in [Callers -> States], copy' \in [Callers -> Buffers],
           msg' \in [Callers -> Messages \cup {"none"}], sent' \subseteq Messages,
           reads' \in 0..MaxReads, written' \in Seq(Messages), base' \in Nat,
           Exact(conv'), Within(conv'), Short(conv', written'),
           \A d \in Callers : /\ Exact(copy'[d]) /\ Within(copy'[d])
                              /\ Short(copy'[d], written')
                              /\ op'[d] = "adding" => msg'[d] \in Messages
    PROVE  BufferInv'
  BY DEF BufferInv, TypeOK, Exact, Within, Short, States

\* Every step keeps buffers, stored or in hand, exact and within the limits.
LEMMA BufferStep == BufferInv /\ [Next]_vars => BufferInv'
<1> SUFFICES ASSUME BufferInv, [Next]_vars PROVE BufferInv'
  OBVIOUS
<1>0. /\ op \in [Callers -> States] /\ copy \in [Callers -> Buffers]
      /\ msg \in [Callers -> Messages \cup {"none"}] /\ sent \subseteq Messages
      /\ reads \in 0..MaxReads /\ written \in Seq(Messages) /\ base \in Nat
      /\ Exact(conv) /\ Within(conv) /\ Short(conv, written)
      /\ \A d \in Callers : /\ Exact(copy[d]) /\ Within(copy[d]) /\ Short(copy[d], written)
                            /\ op[d] = "adding" => msg[d] \in Messages
      /\ Short(EmptyBuffer, written)
  BY DEF BufferInv, TypeOK, States, Short, EmptyBuffer
<1>1. ASSUME NEW c \in Callers, NEW m \in Messages, ReadToAdd(c, m) PROVE BufferInv'
  <2>1. UNCHANGED <<conv, reads, written, base>> /\ sent' = sent \cup {m}
    BY <1>1 DEF ReadToAdd
  <2>2. CASE UNCHANGED callVars
    BY <1>0, <2>1, <2>2, BufferParts DEF callVars
  <2>3. CASE Turn(c, "adding", conv) /\ msg' = [msg EXCEPT ![c] = m]
    <3>1. /\ op' \in [Callers -> States] /\ copy' \in [Callers -> Buffers]
          /\ \A d \in Callers : /\ Exact(copy'[d]) /\ Within(copy'[d])
                                /\ Short(copy'[d], written)
          /\ \A d \in Callers : op'[d] = "adding" => d = c \/ op[d] = "adding"
      BY <1>0, <2>3, TurnKeeps DEF States
    <3>2. /\ msg' \in [Callers -> Messages \cup {"none"}]
          /\ \A d \in Callers : op'[d] = "adding" => msg'[d] \in Messages
      BY <1>0, <2>3, <3>1
    <3> QED BY <1>0, <2>1, <3>1, <3>2, BufferParts
  <2> QED BY <1>1, <2>2, <2>3 DEF ReadToAdd
<1>2. ASSUME NEW c \in Callers, StoreAdded(c) PROVE BufferInv'
  <2>1. /\ UNCHANGED <<msg, sent, reads, base>> /\ op[c] = "adding"
        /\ Turn(c, "idle", EmptyBuffer)
        /\ \/ conv' = conv /\ written' = written
           \/ conv' = Added(copy[c], msg[c]) /\ written' = Append(written, msg[c])
    BY <1>2 DEF StoreAdded
  <2>2. /\ op' \in [Callers -> States] /\ copy' \in [Callers -> Buffers]
        /\ \A d \in Callers : /\ Exact(copy'[d]) /\ Within(copy'[d])
                              /\ Short(copy'[d], written)
        /\ \A d \in Callers : op'[d] = "adding" => op[d] = "adding"
    BY <1>0, <2>1, EmptyIsExact, TurnKeeps DEF States
  <2>3. CASE conv' = conv /\ written' = written
    BY <1>0, <2>1, <2>2, <2>3, BufferParts
  <2>4. CASE conv' = Added(copy[c], msg[c]) /\ written' = Append(written, msg[c])
    <3>1. msg[c] \in Messages /\ Exact(copy[c]) /\ Short(copy[c], written)
      BY <1>0, <2>1
    <3>2. Exact(conv') /\ Within(conv') /\ written' \in Seq(Messages)
      BY <1>0, <2>4, <3>1, AddedIsExact
    <3>3. Short(conv', written') /\ \A d \in Callers : Short(copy'[d], written')
      BY <1>0, <2>2, <2>4, <3>1, AddedIsShort
    <3> QED BY <1>0, <2>1, <2>2, <3>2, <3>3, BufferParts
  <2> QED BY <2>1, <2>3, <2>4
<1>3. ASSUME NEW c \in Callers, Peek(c) PROVE BufferInv'
  <2>1. op' \in [Callers -> States] /\ \A d \in Callers : op'[d] = "adding" => op[d] = "adding"
    BY <1>0, <1>3 DEF Peek, States
  <2>2. reads' \in 0..MaxReads /\ UNCHANGED <<conv, copy, msg, sent, written, base>>
    BY <1>0, <1>3, LimitsAssumption DEF Peek
  <2> QED BY <1>0, <2>1, <2>2, BufferParts
<1>4. ASSUME NEW c \in Callers, ReadToTrim(c) \/ Reread(c) PROVE BufferInv'
  <2>1. PICK o \in States \ {"adding"}, b \in {conv, EmptyBuffer} : Turn(c, o, b)
    BY <1>4 DEF ReadToTrim, Reread, States
  <2>2. UNCHANGED <<conv, msg, sent, reads, written, base>>
    BY <1>4 DEF ReadToTrim, Reread
  <2>3. /\ op' \in [Callers -> States] /\ copy' \in [Callers -> Buffers]
        /\ \A d \in Callers : /\ Exact(copy'[d]) /\ Within(copy'[d])
                              /\ Short(copy'[d], written)
        /\ \A d \in Callers : op'[d] = "adding" => op[d] = "adding"
    BY <1>0, <2>1, EmptyIsExact, TurnKeeps
  <2> QED BY <1>0, <2>2, <2>3, BufferParts
<1>5. ASSUME NEW c \in Callers, StoreTrimmed(c) PROVE BufferInv'
  <2>1. PICK o \in {"idle", "to_reread"} : Turn(c, o, EmptyBuffer)
    BY <1>5 DEF StoreTrimmed
  <2>2. UNCHANGED <<msg, sent, reads, written>>
    BY <1>5 DEF StoreTrimmed
  <2>3. /\ op' \in [Callers -> States] /\ copy' \in [Callers -> Buffers]
        /\ \A d \in Callers : /\ Exact(copy'[d]) /\ Within(copy'[d])
                              /\ Short(copy'[d], written)
        /\ \A d \in Callers : op'[d] = "adding" => op[d] = "adding"
    BY <1>0, <2>1, EmptyIsExact, TurnKeeps DEF States
  <2>4. CASE UNCHANGED <<conv, base>>
    BY <1>0, <2>2, <2>3, <2>4, BufferParts
  <2>5. CASE /\ conv' = DropToTokens(copy[c], ShortTermBudget)
             /\ base' = Len(written) - Len(conv'.entries)
    <3>1. Exact(conv') /\ Within(conv') /\ Short(conv', written)
      BY <1>0, <2>5, TrimmedIsExact
    <3>2. base' \in Nat
      BY <1>0, <2>5, <3>1 DEF Exact, Buffers, Short
    <3> QED BY <1>0, <2>2, <2>3, <3>1, <3>2, BufferParts
  <2> QED BY <1>5, <2>4, <2>5 DEF StoreTrimmed
<1>6. CASE Clear
  <2>1. Len(written) \in Nat
    BY <1>0
  <2> QED BY <1>0, <1>6, <2>1, EmptyIsExact, BufferParts DEF Clear, callVars
<1>7. CASE UNCHANGED vars
  BY <1>0, <1>7, BufferParts DEF vars, callVars
<1> QED BY <1>1, <1>2, <1>3, <1>4, <1>5, <1>6, <1>7
        DEF Next, AddMessage, GetFormattedMemory

\* The stored buffer, and every copy that a caller holds of it, keep to their type at
\* every step of any number of callers (GetConversation, AddMessage, TrimToTokenLimit).
THEOREM BufferIsTyped == Spec => []TypeOK
<1>1. BufferInv => TypeOK
  BY DEF BufferInv
<1> QED BY <1>1, BufferInit, BufferStep, PTL DEF Spec

\* totalTokens, which each write carries over from a copy that may be stale, never
\* drifts from the entries.
THEOREM TotalStaysExact == Spec => []TotalIsExact
<1>1. BufferInv => TotalIsExact
  BY DEF BufferInv, Exact, TotalIsExact
<1> QED BY <1>1, BufferInit, BufferStep, PTL DEF Spec

\* The buffer never has more entries or tokens than trimMemory lets it have.
THEOREM LimitsHold == Spec => []WithinLimits
<1>1. BufferInv => WithinLimits
  BY DEF BufferInv, Within, WithinLimits
<1> QED BY <1>1, BufferInit, BufferStep, PTL DEF Spec

-----------------------------------------------------------------------------
(* The order of the buffer *)

\* s is made of elements of w, in the order they have there.
Place(w, m) == CHOOSE i \in DOMAIN w : w[i] = m

\* The messages of s stand in the order in which they were written.
OrderedIn(s, w) ==
    /\ ToSet(s) \subseteq ToSet(w)
    /\ \A i, j \in DOMAIN s : i < j => Place(w, s[i]) < Place(w, s[j])

\* Nothing was written twice.
Once(w) == \A i, j \in DOMAIN w : w[i] = w[j] => i = j

\* An element has a place, the only one if no element comes twice.
LEMMA PlaceOf ==
    ASSUME NEW w, NEW m \in ToSet(w)
    PROVE  Place(w, m) \in DOMAIN w /\ w[Place(w, m)] = m
  BY DEF Place, ToSet

\* A message that is new goes to the end and leaves the others where they are.
LEMMA PlaceInLonger ==
    ASSUME NEW E, NEW w \in Seq(E), Once(w), NEW m \in E, m \notin ToSet(w)
    PROVE  /\ Once(Append(w, m))
           /\ ToSet(Append(w, m)) = ToSet(w) \cup {m}
           /\ Place(Append(w, m), m) = Len(w) + 1
           /\ \A x \in ToSet(w) : Place(Append(w, m), x) = Place(w, x)
<1> DEFINE v == Append(w, m)
<1>1. /\ v \in Seq(E) /\ Len(v) = Len(w) + 1 /\ Len(w) \in Nat
      /\ DOMAIN w = 1..Len(w) /\ DOMAIN v = 1..(Len(w) + 1)
      /\ v[Len(w) + 1] = m /\ \A i \in 1..Len(w) : v[i] = w[i]
  OBVIOUS
<1>2. \A i \in 1..Len(w) : w[i] # m
  BY <1>1 DEF ToSet
<1> HIDE DEF v
<1>3. Once(v)
  BY <1>1, <1>2 DEF Once
<1>4. ToSet(v) = ToSet(w) \cup {m}
  BY <1>1 DEF ToSet
<1>5. Place(v, m) = Len(w) + 1
  BY <1>1, <1>2, <1>4, PlaceOf
<1>6. ASSUME NEW x \in ToSet(w) PROVE Place(v, x) = Place(w, x)
  <2>1. Place(v, x) \in DOMAIN v /\ v[Place(v, x)] = x
    BY <1>4, PlaceOf
  <2>2. Place(w, x) \in DOMAIN w /\ w[Place(w, x)] = x
    BY PlaceOf
  <2> QED BY <1>1, <1>3, <2>1, <2>2 DEF Once
<1> QED BY <1>3, <1>4, <1>5, <1>6 DEF v

\* What is left of an ordered sequence is ordered.
LEMMA OrderedSlice ==
    ASSUME NEW E, NEW s \in Seq(E), NEW w, OrderedIn(s, w),
           NEW i \in Nat, NEW j \in 0..Len(s)
    PROVE  OrderedIn(SubSeq(s, i + 1, j), w)
<1> DEFINE r == SubSeq(s, i + 1, j)
<1>1. \A k \in DOMAIN r : r[k] = s[i + k] /\ i + k \in DOMAIN s /\ k \in Nat
  OBVIOUS
<1> HIDE DEF r
<1>2. \A k \in DOMAIN s : s[k] \in ToSet(w)
  BY DEF OrderedIn, ToSet
<1>3. \A k \in DOMAIN r : r[k] \in ToSet(w)
  BY <1>1, <1>2
<1>4. ToSet(r) \subseteq ToSet(w)
  <2>1. \A x \in ToSet(r) : \E k \in DOMAIN r : x = r[k]
    BY DEF ToSet
  <2> QED BY <1>3, <2>1
<1>5. ASSUME NEW k \in DOMAIN r, NEW l \in DOMAIN r, k < l
      PROVE  Place(w, r[k]) < Place(w, r[l])
  <2>1. i + k < i + l
    BY <1>1, <1>5
  <2> QED BY <1>1, <2>1 DEF OrderedIn
<1>6. OrderedIn(r, w)
  BY <1>4, <1>5 DEF OrderedIn
<1> QED BY <1>6 DEF r

\* A new message may be put behind an ordered sequence, and another may be written.
LEMMA OrderedLonger ==
    ASSUME NEW E, NEW w \in Seq(E), Once(w), NEW m \in E, m \notin ToSet(w),
           NEW s \in Seq(E), OrderedIn(s, w)
    PROVE  OrderedIn(s, Append(w, m)) /\ OrderedIn(Append(s, m), Append(w, m))
<1> DEFINE v == Append(w, m)
           r == Append(s, m)
<1>1. /\ ToSet(v) = ToSet(w) \cup {m} /\ Place(v, m) = Len(w) + 1
      /\ \A x \in ToSet(w) : Place(v, x) = Place(w, x)
  BY PlaceInLonger
<1>2. /\ DOMAIN s = 1..Len(s) /\ DOMAIN r = 1..(Len(s) + 1) /\ Len(s) \in Nat
      /\ r[Len(s) + 1] = m /\ \A i \in 1..Len(s) : r[i] = s[i]
  OBVIOUS
<1>3. \A i \in DOMAIN s : s[i] \in ToSet(w)
  BY DEF OrderedIn, ToSet
<1>4. \A x \in ToSet(w) : Place(w, x) <= Len(w) /\ Place(w, x) \in Nat
  BY PlaceOf
<1> HIDE DEF v, r
<1>5. OrderedIn(s, v)
  BY <1>1, <1>3 DEF OrderedIn
<1>6. \A i \in DOMAIN s : Place(v, s[i]) < Place(v, m)
  BY <1>1, <1>3, <1>4
<1>7. OrderedIn(r, v)
  <2>1. ToSet(r) \subseteq ToSet(v)
    <3>1. \A i \in DOMAIN r : r[i] \in ToSet(v)
      BY <1>1, <1>2, <1>3
    <3>2. \A x \in ToSet(r) : \E i \in DOMAIN r : x = r[i]
      BY DEF ToSet
    <3> QED BY <3>1, <3>2
  <2>2. ASSUME NEW i \in DOMAIN r, NEW j \in DOMAIN r, i < j
        PROVE  Place(v, r[i]) < Place(v, r[j])
    <3>1. i \in DOMAIN s /\ r[i] = s[i]
      BY <1>2, <2>2
    <3>2. CASE j \in DOMAIN s
      BY <1>2, <1>5, <2>2, <3>1, <3>2 DEF OrderedIn
    <3>3. CASE j \notin DOMAIN s
      BY <1>2, <1>6, <3>1, <3>3
    <3> QED BY <3>2, <3>3
  <2> QED BY <2>1, <2>2 DEF OrderedIn
<1> QED BY <1>5, <1>7 DEF v, r

\* Whatever is stored or was read is in the order it was written in.  A message
\* that is being added is new, and added by one caller.
OrderInv == /\ Once(written) /\ ToSet(written) \subseteq sent
            /\ OrderedIn(conv.entries, written)
            /\ \A c \in Callers : OrderedIn(copy[c].entries, written)
            /\ \A c \in Callers : op[c] = "adding" => msg[c] \in sent \ ToSet(written)
            /\ \A c, d \in Callers :
                  op[c] = "adding" /\ op[d] = "adding" /\ msg[c] = msg[d] => c = d

\* The empty buffer is in any order.
LEMMA EmptyIsOrdered == \A w : OrderedIn(EmptyBuffer.entries, w)
  BY DEF OrderedIn, EmptyBuffer, ToSet

\* At first nothing is stored.
LEMMA OrderInit == Init => OrderInv
<1> SUFFICES ASSUME Init PROVE OrderInv
  OBVIOUS
<1>1. Once(<<>>) /\ ToSet(<<>>) = {}
  BY DEF Once, ToSet
<1> QED BY <1>1, EmptyIsOrdered DEF Init, OrderInv

\* What a caller that adds a message stores is in order, and so is what the others
\* still hold.
LEMMA AddedIsOrdered ==
    ASSUME NEW w \in Seq(Messages), Once(w), NEW m \in Messages, m \notin ToSet(w),
           NEW mem, Exact(mem), OrderedIn(mem.entries, w)
    PROVE  /\ OrderedIn(mem.entries, Append(w, m))
           /\ OrderedIn(Added(mem, m).entries, Append(w, m))
<1> DEFINE e == mem.entries
           v == Append(w, m)
           r == Append(e, m)
<1>1. e \in Seq(Messages) /\ Len(e) \in Nat
  BY DEF Exact, Buffers
<1>2. OrderedIn(e, v) /\ OrderedIn(r, v)
  <2> HIDE DEF e
  <2>1. OrderedIn(e, w)
    BY DEF e
  <2> QED BY <1>1, <2>1, OrderedLonger
<1>3. PICK k \in 0..(Len(e) + 1) : Added(mem, m).entries = SubSeq(r, k + 1, Len(e) + 1)
  BY AddedIsExact
<1>4. r \in Seq(Messages) /\ Len(r) = Len(e) + 1
  BY <1>1
<1> HIDE DEF e, v, r
<1>5. k \in Nat /\ Len(e) + 1 \in 0..Len(r)
  BY <1>1, <1>4
<1>6. OrderedIn(SubSeq(r, k + 1, Len(e) + 1), v)
  BY <1>2, <1>4, <1>5, OrderedSlice
<1> QED BY <1>2, <1>3, <1>6 DEF e, v

\* A trim keeps the order.
LEMMA DropIsOrdered ==
    ASSUME NEW mem, Exact(mem), NEW w, OrderedIn(mem.entries, w), NEW limit \in Nat
    PROVE  OrderedIn(DropToTokens(mem, limit).entries, w)
<1>1. PICK k \in 0..Len(mem.entries) : DropToTokens(mem, limit) = DropOldest(mem, k)
  BY DropToTokensDrops
<1>2. mem.entries \in Seq(Messages) /\ Len(mem.entries) \in Nat
  BY DEF Exact, Buffers
<1>3. DropToTokens(mem, limit).entries = SubSeq(mem.entries, k + 1, Len(mem.entries))
  BY <1>1, DropIsExact
<1>4. k \in Nat /\ Len(mem.entries) \in 0..Len(mem.entries)
  BY <1>2
<1> QED BY <1>2, <1>3, <1>4, OrderedSlice

\* A step of a caller to a buffer that is ordered.
LEMMA TurnIsOrdered ==
    ASSUME BufferInv, OrderInv, NEW c \in Callers, NEW o,
           NEW b, OrderedIn(b.entries, written), Turn(c, o, b)
    PROVE  /\ \A d \in Callers : OrderedIn(copy'[d].entries, written)
           /\ \A d \in Callers : op'[d] = IF d = c THEN o ELSE op[d]
  BY DEF BufferInv, TypeOK, OrderInv, Turn

\* No step puts the buffer, or a copy, out of order, whoever else writes.
LEMMA OrderStep == BufferInv /\ OrderInv /\ [Next]_vars => OrderInv'
<1> SUFFICES ASSUME BufferInv, OrderInv, [Next]_vars PROVE OrderInv'
  OBVIOUS
<1>0. /\ Once(written) /\ ToSet(written) \subseteq sent
      /\ OrderedIn(conv.entries, written)
      /\ \A c \in Callers : OrderedIn(copy[c].entries, written)
      /\ \A c \in Callers : op[c] = "adding" => msg[c] \in sent \ ToSet(written)
      /\ \A c, d \in Callers :
            op[c] = "adding" /\ op[d] = "adding" /\ msg[c] = msg[d] => c = d
      /\ OrderedIn(EmptyBuffer.entries, written)
  BY EmptyIsOrdered DEF OrderInv
<1>a. /\ msg \in [Callers -> Messages \cup {"none"}] /\ written \in Seq(Messages)
      /\ \A c \in Callers : Exact(copy[c])
      /\ \A c \in Callers : op[c] = "adding" => msg[c] \in Messages
  BY DEF BufferInv, TypeOK
<1>1. ASSUME NEW c \in Callers, NEW m \in Messages, ReadToAdd(c, m) PROVE OrderInv'
  <2>1. /\ UNCHANGED <<conv, reads, written, base>> /\ sent' = sent \cup {m} /\ m \notin sent
    BY <1>1 DEF ReadToAdd
  <2>2. CASE UNCHANGED callVars
    BY <1>0, <2>1, <2>2 DEF callVars, OrderInv
  <2>3. CASE Turn(c, "adding", conv) /\ msg' = [msg EXCEPT ![c] = m]
    <3>1. /\ \A d \in Callers : OrderedIn(copy'[d].entries, written)
          /\ \A d \in Callers : op'[d] = IF d = c THEN "adding" ELSE op[d]
      BY <1>0, <2>3, TurnIsOrdered
    <3>2. \A d \in Callers : msg'[d] = IF d = c THEN m ELSE msg[d]
      BY <1>a, <2>3
    <3>3. \A d \in Callers : op'[d] = "adding" => msg'[d] \in sent' \ ToSet(written')
      BY <1>0, <2>1, <3>1, <3>2
    <3>4. \A d, e \in Callers :
             op'[d] = "adding" /\ op'[e] = "adding" /\ msg'[d] = msg'[e] => d = e
      BY <1>0, <2>1, <3>1, <3>2
    <3> QED BY <1>0, <2>1, <3>1, <3>3, <3>4 DEF OrderInv
  <2> QED BY <1>1, <2>2, <2>3 DEF ReadToAdd
<1>2. ASSUME NEW c \in Callers, StoreAdded(c) PROVE OrderInv'
  <2>1. /\ UNCHANGED <<msg, sent, reads, base>> /\ op[c] = "adding"
        /\ Turn(c, "idle", EmptyBuffer)
        /\ \/ conv' = conv /\ written' = written
           \/ conv' = Added(copy[c], msg[c]) /\ written' = Append(written, msg[c])
    BY <1>2 DEF StoreAdded
  <2>2. /\ \A d \in Callers : OrderedIn(copy'[d].entries, written)
        /\ \A d \in Callers : op'[d] = IF d = c THEN "idle" ELSE op[d]
    BY <1>0, <2>1, TurnIsOrdered
  <2>3. CASE conv' = conv /\ written' = written
    BY <1>0, <2>1, <2>2, <2>3 DEF OrderInv
  <2>4. CASE conv' = Added(copy[c], msg[c]) /\ written' = Append(written, msg[c])
    <3> DEFINE m == msg[c]
    <3>1. m \in Messages /\ m \in sent \ ToSet(written) /\ Exact(copy[c])
      BY <1>0, <1>a, <2>1
    <3>2. Once(written') /\ ToSet(written') = ToSet(written) \cup {m}
      BY <1>0, <1>a, <2>4, <3>1, PlaceInLonger
    <3>3. OrderedIn(conv'.entries, written')
      BY <1>0, <1>a, <2>4, <3>1, AddedIsOrdered
    <3>4. \A d \in Callers : OrderedIn(copy'[d].entries, written')
      <4> SUFFICES ASSUME NEW d \in Callers PROVE OrderedIn(copy'[d].entries, written')
        OBVIOUS
      <4>1. Exact(copy'[d])
        BY <1>a, <2>1, EmptyIsExact DEF Turn, BufferInv, TypeOK
      <4> QED BY <1>0, <1>a, <2>2, <2>4, <3>1, <4>1, AddedIsOrdered
    <3>5. \A d \in Callers : op'[d] = "adding" => msg'[d] \in sent' \ ToSet(written')
      BY <1>0, <2>1, <2>2, <3>1, <3>2
    <3>6. \A d, e \in Callers :
             op'[d] = "adding" /\ op'[e] = "adding" /\ msg'[d] = msg'[e] => d = e
      BY <1>0, <2>1, <2>2
    <3> QED BY <1>0, <2>1, <3>1, <3>2, <3>3, <3>4, <3>5, <3>6 DEF OrderInv
  <2> QED BY <2>1, <2>3, <2>4
<1>3. ASSUME NEW c \in Callers, Peek(c) PROVE OrderInv'
  <2>1. \A d \in Callers : op'[d] = "adding" => op[d] = "adding"
    BY <1>3 DEF Peek, BufferInv, TypeOK
  <2>2. UNCHANGED <<conv, copy, msg, sent, written, base>>
    BY <1>3 DEF Peek
  <2> QED BY <1>0, <2>1, <2>2 DEF OrderInv
<1>4. ASSUME NEW c \in Callers, ReadToTrim(c) \/ Reread(c) PROVE OrderInv'
  <2>1. PICK o \in States \ {"adding"}, b \in {conv, EmptyBuffer} : Turn(c, o, b)
    BY <1>4 DEF ReadToTrim, Reread, States
  <2>2. UNCHANGED <<conv, msg, sent, reads, written, base>>
    BY <1>4 DEF ReadToTrim, Reread
  <2>3. /\ \A d \in Callers : OrderedIn(copy'[d].entries, written)
        /\ \A d \in Callers : op'[d] = IF d = c THEN o ELSE op[d]
    BY <1>0, <2>1, TurnIsOrdered
  <2> QED BY <1>0, <2>2, <2>3 DEF OrderInv
<1>5. ASSUME NEW c \in Callers, StoreTrimmed(c) PROVE OrderInv'
  <2>1. PICK o \in {"idle", "to_reread"} : Turn(c, o, EmptyBuffer)
    BY <1>5 DEF StoreTrimmed
  <2>2. UNCHANGED <<msg, sent, reads, written>>
    BY <1>5 DEF StoreTrimmed
  <2>3. /\ \A d \in Callers : OrderedIn(copy'[d].entries, written)
        /\ \A d \in Callers : op'[d] = IF d = c THEN o ELSE op[d]
    BY <1>0, <2>1, TurnIsOrdered
  <2>4. OrderedIn(conv'.entries, written)
    <3>1. conv' = conv \/ conv' = DropToTokens(copy[c], ShortTermBudget)
      BY <1>5 DEF StoreTrimmed
    <3> QED BY <1>0, <1>a, <3>1, LimitsAssumption, DropIsOrdered
  <2> QED BY <1>0, <2>2, <2>3, <2>4 DEF OrderInv
<1>6. CASE Clear
  BY <1>0, <1>6 DEF Clear, callVars, OrderInv
<1>7. CASE UNCHANGED vars
  BY <1>0, <1>7 DEF vars, callVars, OrderInv
<1> QED BY <1>1, <1>2, <1>3, <1>4, <1>5, <1>6, <1>7
        DEF Next, AddMessage, GetFormattedMemory

\* Callers that race lose messages and nothing worse: the buffer shows only what
\* some SET stored, nothing twice, and in the order of the SETs.
THEOREM OrderIsKept == Spec => []NoInvention
<1>1. OrderInv => NoInvention
  BY DEF OrderInv, OrderedIn, Place, NoInvention, Ordered, Position
<1> QED BY <1>1, BufferInit, BufferStep, OrderInit, OrderStep, PTL DEF Spec

-----------------------------------------------------------------------------
(* The sliding window *)

\* The n newest messages of s, and the length of the longest run of newest messages
\* that fits.
Newest(s, n) == SubSeq(s, Len(s) - n + 1, Len(s))

\* n is as many of the newest messages as the limits leave.
Longest(s, n) == /\ n \in 0..Len(s)
                 /\ FitsLimits(Newest(s, n))
                 /\ n < Len(s) => ~FitsLimits(Newest(s, n + 1))

\* The newest messages are a sequence of their own.
LEMMA NewestIs ==
    ASSUME NEW E, NEW s \in Seq(E), NEW n \in 0..Len(s)
    PROVE  /\ Newest(s, n) \in Seq(E) /\ Len(Newest(s, n)) = n
           /\ \A k \in 0..n : Newest(Newest(s, n), k) = Newest(s, k)
           /\ n = Len(s) => Newest(s, n) = s
  BY DEF Newest

\* A part of what fits, fits: its older messages, and its newer ones.
LEMMA LessFits ==
    ASSUME NEW s \in Seq(Messages)
    PROVE  /\ \A m \in Messages : FitsLimits(Append(s, m)) => FitsLimits(s)
           /\ \A k \in 0..Len(s) : FitsLimits(s) => FitsLimits(Newest(s, k))
<1>1. Tokens(s) \in Nat
  BY TokenCountAssumption, SumIsNat DEF Tokens
<1>2. ASSUME NEW m \in Messages, FitsLimits(Append(s, m)) PROVE FitsLimits(s)
  <2>1. Tokens(Append(s, m)) = Tokens(s) + TokenCount[m] /\ TokenCount[m] \in Nat
    BY TokenCountAssumption, SumAppend DEF Tokens
  <2>2. Len(Append(s, m)) = Len(s) + 1
    OBVIOUS
  <2> QED BY <1>1, <1>2, <2>1, <2>2, LimitsAssumption DEF FitsLimits
<1>3. ASSUME NEW k \in 0..Len(s), FitsLimits(s) PROVE FitsLimits(Newest(s, k))
  <2> DEFINE j == Len(s) - k
             front == SubSeq(s, 1, j)
             rest == SubSeq(s, j + 1, Len(s))
  <2>1. j \in 0..Len(s) /\ front \in Seq(Messages) /\ rest \in Seq(Messages) /\ Len(rest) = k
    OBVIOUS
  <2>2. Tokens(s) = Tokens(front) + Tokens(rest)
    <3> HIDE DEF j
    <3> QED BY <2>1, TokenCountAssumption, SumSplit DEF Tokens
  <2>3. Newest(s, k) = rest
    BY DEF Newest
  <2> HIDE DEF front, rest
  <2>4. Tokens(front) \in Nat /\ Tokens(rest) \in Nat
    BY <2>1, TokenCountAssumption, SumIsNat DEF Tokens
  <2> QED BY <1>1, <1>3, <2>1, <2>2, <2>3, <2>4, LimitsAssumption DEF FitsLimits
<1> QED BY <1>2, <1>3

\* The longest run that fits is what the abstract window holds.
LEMMA LongestIsWindow ==
    ASSUME NEW s \in Seq(Messages), NEW n, Longest(s, n)
    PROVE  Window!LongestFitting(s) = Newest(s, n)
<1>1. n \in 0..Len(s) /\ Len(s) \in Nat
  BY DEF Longest
<1>2. \A t : t \in Window!Suffixes(s) <=> \E k \in 0..Len(s) : t = Newest(s, k)
  <2>1. ASSUME NEW k \in 0..Len(s) PROVE Newest(s, k) \in Window!Suffixes(s)
    <3>1. CASE k = 0
      <4>1. Newest(s, k) = <<>>
        BY <3>1 DEF Newest
      <4> QED BY <4>1 DEF Window!Suffixes
    <3>2. CASE k # 0
      <4>1. Len(s) - k + 1 \in 1..Len(s)
        BY <3>2
      <4> QED BY <4>1 DEF Window!Suffixes, Newest
    <3> QED BY <3>1, <3>2
  <2>2. ASSUME NEW t \in Window!Suffixes(s) PROVE \E k \in 0..Len(s) : t = Newest(s, k)
    <3>1. CASE t = <<>>
      <4>1. Newest(s, 0) = <<>> /\ 0 \in 0..Len(s)
        BY DEF Newest
      <4> QED BY <3>1, <4>1
    <3>2. CASE t # <<>>
      <4>1. PICK l \in 1..Len(s) : t = SubSeq(s, l, Len(s))
        BY <2>2, <3>2 DEF Window!Suffixes
      <4>2. Len(s) - l + 1 \in 0..Len(s) /\ Len(s) - (Len(s) - l + 1) + 1 = l
        OBVIOUS
      <4> QED BY <4>1, <4>2 DEF Newest
    <3> QED BY <3>1, <3>2
  <2> QED BY <2>1, <2>2
<1>3. \A k \in 0..Len(s) : Len(Newest(s, k)) = k
  BY NewestIs
<1>4. ASSUME NEW k \in 0..Len(s), FitsLimits(Newest(s, k)) PROVE k <= n
  <2>1. SUFFICES ASSUME n + 1 <= k PROVE FALSE
    BY <1>1
  <2>2. n + 1 \in 0..k
    BY <1>1, <2>1
  <2>3. Newest(s, k) \in Seq(Messages) /\ Newest(Newest(s, k), n + 1) = Newest(s, n + 1)
    BY <2>2, NewestIs
  <2>4. FitsLimits(Newest(Newest(s, k), n + 1))
    BY <1>3, <1>4, <2>2, <2>3, LessFits
  <2> QED BY <1>1, <2>1, <2>3, <2>4 DEF Longest
<1> DEFINE Best(t) == /\ FitsLimits(t)
                      /\ \A u \in Window!Suffixes(s) : FitsLimits(u) => Len(u) <= Len(t)
<1>5. Newest(s, n) \in Window!Suffixes(s) /\ Best(Newest(s, n))
  BY <1>1, <1>2, <1>3, <1>4 DEF Longest
<1>6. \A t \in Window!Suffixes(s) : Best(t) => t = Newest(s, n)
  <2> SUFFICES ASSUME NEW k \in 0..Len(s), Best(Newest(s, k)) PROVE k = n
    BY <1>2
  <2> QED BY <1>1, <1>3, <1>4, <1>5
<1>7. Window!LongestFitting(s) = CHOOSE t \in Window!Suffixes(s) : Best(t)
  BY DEF Window!LongestFitting
<1> HIDE DEF Best
<1> QED BY <1>5, <1>6, <1>7

\* What AddMessage drops is too much to keep: with the last message dropped, what it
\* stores would not fit.
LEMMA AddedIsLongest ==
    ASSUME NEW mem, Exact(mem), NEW m \in Messages
    PROVE  /\ Added(mem, m).entries
                 = Newest(Append(mem.entries, m), Len(Added(mem, m).entries))
           /\ Longest(Append(mem.entries, m), Len(Added(mem, m).entries))
<1> DEFINE r == Append(mem.entries, m)
           n == Len(mem.entries) + 1
           longer == [entries |-> r, totalTokens |-> mem.totalTokens + TokenCount[m]]
           over == IF n > ShortTermMaxEntries THEN n - ShortTermMaxEntries ELSE 0
           shorter == DropOldest(longer, over)
           added == DropToTokens(shorter, ShortTermMaxTokens)
<1>1. mem.entries \in Seq(Messages) /\ mem.totalTokens \in Nat /\ mem.totalTokens = Tokens(mem.entries)
  BY DEF Exact, Buffers
<1>2. r \in Seq(Messages) /\ Len(r) = n /\ n \in Nat /\ TokenCount[m] \in Nat
  BY <1>1, TokenCountAssumption
<1>3. Exact(longer) /\ longer.entries = r
  <2>1. Tokens(r) = Tokens(mem.entries) + TokenCount[m]
    BY <1>1, TokenCountAssumption, SumAppend DEF Tokens
  <2> HIDE DEF r
  <2> QED BY <1>1, <1>2, <2>1 DEF Exact, Buffers
<1>4. over \in 0..n /\ (over = 0 \/ n - over = ShortTermMaxEntries)
  BY <1>2, LimitsAssumption
<1>5. Added(mem, m) = added
  <2>1. Added(mem, m) = trimMemory(longer)
    BY DEF Added
  <2>2. DropToEntries(longer) = shorter
    BY <1>2 DEF DropToEntries
  <2> QED BY <2>1, <2>2 DEF trimMemory
<1> HIDE DEF r, n, longer, over
<1>6. /\ Exact(shorter) /\ shorter.entries = SubSeq(r, over + 1, n)
      /\ Len(shorter.entries) = n - over
  BY <1>2, <1>3, <1>4, DropIsExact
<1> HIDE DEF shorter
<1>7. PICK k \in 0..(n - over) :
            /\ added = DropOldest(shorter, k) /\ added.totalTokens <= ShortTermMaxTokens
            /\ \A j \in 0..(k - 1) : DropOldest(shorter, j).totalTokens > ShortTermMaxTokens
  <2>1. PICK k \in 0..Len(shorter.entries) :
               /\ added = DropOldest(shorter, k)
               /\ DropOldest(shorter, k).totalTokens <= ShortTermMaxTokens
               /\ \A j \in 0..(k - 1) : DropOldest(shorter, j).totalTokens > ShortTermMaxTokens
    BY <1>6, LimitsAssumption, DropToTokensDrops
  <2> QED BY <1>6, <2>1
<1> HIDE DEF added
<1>8. \A j \in 0..(n - over) :
         /\ Exact(DropOldest(shorter, j))
         /\ DropOldest(shorter, j).entries = Newest(r, (n - over) - j)
  <2> SUFFICES ASSUME NEW j \in 0..(n - over)
               PROVE  /\ Exact(DropOldest(shorter, j))
                      /\ DropOldest(shorter, j).entries = Newest(r, (n - over) - j)
    OBVIOUS
  <2>1. /\ Exact(DropOldest(shorter, j))
        /\ DropOldest(shorter, j).entries = SubSeq(SubSeq(r, over + 1, n), j + 1, n - over)
    BY <1>6, DropIsExact
  <2>2. SubSeq(SubSeq(r, over + 1, n), j + 1, n - over) = SubSeq(r, (over + j) + 1, n)
    BY <1>2, <1>4
  <2>3. (over + j) + 1 = n - ((n - over) - j) + 1
    BY <1>2, <1>4
  <2> QED BY <1>2, <2>1, <2>2, <2>3 DEF Newest
<1> DEFINE l == (n - over) - k
<1>9. l \in 0..n /\ Exact(added) /\ added.entries = Newest(r, l) /\ Len(added.entries) = l
  <2>1. l \in 0..n
    BY <1>2, <1>4, <1>7
  <2>2. Len(Newest(r, l)) = l
    BY <1>2, <2>1, NewestIs
  <2> QED BY <1>7, <1>8, <2>1, <2>2
<1>10. FitsLimits(Newest(r, l))
  <2>1. Len(added.entries) <= ShortTermMaxEntries
    BY <1>2, <1>4, <1>7, <1>9, LimitsAssumption DEF over
  <2>2. added.totalTokens = Tokens(Newest(r, l))
    BY <1>9 DEF Exact
  <2> QED BY <1>7, <1>9, <2>1, <2>2 DEF FitsLimits
<1>11. ASSUME l < n PROVE ~FitsLimits(Newest(r, l + 1))
  <2>1. CASE k > 0
    <3>1. k - 1 \in 0..(n - over) /\ k - 1 \in 0..(k - 1) /\ (n - over) - (k - 1) = l + 1
      BY <1>2, <1>4, <1>7, <2>1
    <3>2. /\ DropOldest(shorter, k - 1).totalTokens > ShortTermMaxTokens
          /\ DropOldest(shorter, k - 1).totalTokens = Tokens(Newest(r, l + 1))
          /\ DropOldest(shorter, k - 1).totalTokens \in Nat
      <4> HIDE DEF l
      <4> QED BY <1>7, <1>8, <3>1 DEF Exact, Buffers
    <3> QED BY <3>2, LimitsAssumption DEF FitsLimits
  <2>2. CASE k = 0
    <3>1. l = ShortTermMaxEntries /\ l + 1 \in 0..Len(r)
      BY <1>2, <1>4, <1>9, <1>11, <2>2
    <3>2. Len(Newest(r, l + 1)) = l + 1
      BY <1>2, <3>1, NewestIs
    <3> QED BY <3>1, <3>2, LimitsAssumption DEF FitsLimits
  <2> QED BY <1>7, <2>1, <2>2
<1> QED BY <1>2, <1>5, <1>9, <1>10, <1>11 DEF Longest, r

\* The messages stored since the first b, and a buffer that holds the longest run of
\* them that fits.
Since(b, w) == SubSeq(w, b + 1, Len(w))

\* A buffer holds the newest messages of s, as many as the limits leave.
Holds(mem, s) == /\ mem.entries = Newest(s, Len(mem.entries))
                 /\ Longest(s, Len(mem.entries))

\* A message added to the longest run that fits leaves the longest run that fits.
LEMMA AddedHolds ==
    ASSUME NEW mem, Exact(mem), NEW s \in Seq(Messages), Holds(mem, s), NEW m \in Messages
    PROVE  Holds(Added(mem, m), Append(s, m))
<1> DEFINE n == Len(mem.entries)
           r == Append(mem.entries, m)
           v == Append(s, m)
           l == Len(Added(mem, m).entries)
<1>1. /\ mem.entries \in Seq(Messages) /\ n \in 0..Len(s) /\ Len(s) \in Nat
      /\ mem.entries = Newest(s, n) /\ (n < Len(s) => ~FitsLimits(Newest(s, n + 1)))
  BY DEF Exact, Buffers, Holds, Longest
<1>2. v \in Seq(Messages) /\ Len(v) = Len(s) + 1
  OBVIOUS
<1>3. \A k \in 0..Len(s) : Append(Newest(s, k), m) = Newest(v, k + 1)
  BY DEF Newest
<1>4. r = Newest(v, n + 1) /\ r \in Seq(Messages) /\ Len(r) = n + 1
  <2> HIDE DEF v
  <2> QED BY <1>1, <1>3
<1>5. Added(mem, m).entries = Newest(r, l) /\ Longest(r, l)
  BY AddedIsLongest
<1> HIDE DEF n, r, v, l
<1>6. l \in 0..(n + 1) /\ FitsLimits(Newest(r, l)) /\ (l < n + 1 => ~FitsLimits(Newest(r, l + 1)))
  BY <1>4, <1>5 DEF Longest
<1>7. \A k \in 0..(n + 1) : Newest(r, k) = Newest(v, k)
  <2>1. n + 1 \in 0..Len(v)
    BY <1>1, <1>2
  <2> QED BY <1>2, <1>4, <2>1, NewestIs
<1>8. ASSUME l < Len(v) PROVE ~FitsLimits(Newest(v, l + 1))
  <2>1. CASE l < n + 1
    <3>1. l + 1 \in 0..(n + 1)
      BY <1>1, <1>6, <2>1
    <3> QED BY <1>6, <1>7, <2>1, <3>1
  <2>2. CASE l = n + 1
    <3>1. n + 1 \in 0..Len(s) /\ n < Len(s)
      BY <1>1, <1>2, <1>8, <2>2
    <3>2. ~FitsLimits(Newest(s, n + 1)) /\ Newest(s, n + 1) \in Seq(Messages)
      BY <1>1, <3>1, NewestIs
    <3>3. Append(Newest(s, n + 1), m) = Newest(v, l + 1)
      BY <1>3, <2>2, <3>1
    <3> DEFINE u == Newest(s, n + 1)
    <3> HIDE DEF u
    <3>4. u \in Seq(Messages) /\ ~FitsLimits(u) /\ Append(u, m) = Newest(v, l + 1)
      BY <3>2, <3>3 DEF u
    <3>5. ~FitsLimits(Append(u, m))
      BY <3>4, LessFits
    <3> QED BY <3>4, <3>5
  <2> QED BY <1>1, <1>6, <2>1, <2>2
<1>9. l \in 0..Len(v)
  BY <1>1, <1>2, <1>6
<1>10. Longest(v, l) /\ Added(mem, m).entries = Newest(v, l)
  BY <1>5, <1>6, <1>7, <1>8, <1>9 DEF Longest
<1> QED BY <1>10 DEF Holds, v, l

\* What a trim leaves is the newest part of the run, all of which fits.
LEMMA TrimmedHolds ==
    ASSUME NEW mem, Exact(mem), NEW s \in Seq(Messages), Holds(mem, s), NEW limit \in Nat
    PROVE  LET b == DropToTokens(mem, limit) IN
           /\ Len(b.entries) \in 0..Len(s)
           /\ b.entries = Newest(s, Len(b.entries))
           /\ Holds(b, Newest(s, Len(b.entries)))
<1> DEFINE b == DropToTokens(mem, limit)
           n == Len(mem.entries)
<1>1. /\ mem.entries \in Seq(Messages) /\ n \in 0..Len(s) /\ Len(s) \in Nat
      /\ mem.entries = Newest(s, n) /\ FitsLimits(Newest(s, n))
  BY DEF Exact, Buffers, Holds, Longest
<1>2. PICK k \in 0..n : b = DropOldest(mem, k)
  BY DropToTokensDrops
<1> HIDE DEF b
<1>3. b.entries = SubSeq(mem.entries, k + 1, n) /\ Len(b.entries) = n - k
  BY <1>2, DropIsExact
<1> DEFINE l == n - k
<1>4. l \in 0..n /\ n \in Nat
  BY <1>1
<1>5. SubSeq(mem.entries, k + 1, n) = Newest(Newest(s, n), l)
  <2>1. Newest(mem.entries, l) = SubSeq(mem.entries, n - l + 1, n) /\ n - l = k
    BY <1>4 DEF Newest
  <2> HIDE DEF n, l
  <2> QED BY <1>1, <2>1
<1> HIDE DEF n
<1>6. b.entries = Newest(s, l) /\ Len(b.entries) = l
  <2>1. Newest(Newest(s, n), l) = Newest(s, l)
    BY <1>1, <1>4, NewestIs
  <2> QED BY <1>3, <1>5, <2>1
<1>7. l \in 0..Len(s)
  BY <1>1, <1>4
<1> HIDE DEF l
<1>8. /\ Newest(s, l) \in Seq(Messages) /\ Len(Newest(s, l)) = l /\ l \in 0..l
      /\ Newest(Newest(s, l), l) = Newest(s, l)
  BY <1>7, NewestIs
<1>9. FitsLimits(Newest(s, l))
  <2>1. Newest(s, n) \in Seq(Messages) /\ Len(Newest(s, n)) = n
    BY <1>1, NewestIs
  <2>2. Newest(Newest(s, n), l) = Newest(s, l)
    BY <1>1, <1>4, NewestIs
  <2> QED BY <1>1, <1>4, <2>1, <2>2, LessFits
<1>10. Holds(b, Newest(s, l))
  BY <1>6, <1>7, <1>8, <1>9 DEF Holds, Longest
<1> QED BY <1>6, <1>7, <1>10 DEF b

\* With one caller, whatever it read is still what is stored when it writes.
OneCaller == ~ClearsMidCall /\ \A c, d \in Callers : c = d

\* With one caller: the buffer holds the newest of what was written since the last clear.
WindowInv == /\ base \in 0..Len(written)
             /\ Holds(conv, Since(base, written))
             /\ \A c \in Callers : op[c] \in {"adding", "trimming"} => copy[c] = conv

\* An empty buffer holds the newest of no messages.
LEMMA EmptyHolds == Holds(EmptyBuffer, <<>>)
<1>1. Tokens(<<>>) = 0
  BY TokenCountAssumption, SumEmpty DEF Tokens
<1>2. Newest(<<>>, 0) = <<>> /\ Len(EmptyBuffer.entries) = 0 /\ EmptyBuffer.entries = <<>>
  BY DEF Newest, EmptyBuffer
<1> QED BY <1>1, <1>2, LimitsAssumption DEF Holds, Longest, FitsLimits

\* What was stored since some moment: a sequence that grows at its end.
LEMMA SinceIs ==
    ASSUME NEW w \in Seq(Messages), NEW b \in 0..Len(w)
    PROVE  /\ Since(b, w) \in Seq(Messages) /\ Len(Since(b, w)) = Len(w) - b
           /\ \A m \in Messages : Since(b, Append(w, m)) = Append(Since(b, w), m)
           /\ \A k \in 0..(Len(w) - b) : Newest(Since(b, w), k) = Since(Len(w) - k, w)
           /\ \A k \in 0..(Len(w) - b) :
                 Since(b + k, w) = SubSeq(Since(b, w), k + 1, Len(Since(b, w)))
           /\ Since(Len(w), w) = <<>>
<1> DEFINE s == Since(b, w)
<1>1. s \in Seq(Messages) /\ Len(s) = Len(w) - b /\ Len(w) \in Nat /\ b \in Nat /\ b <= Len(w)
  BY DEF Since
<1>2. \A m \in Messages : Since(b, Append(w, m)) = Append(s, m)
  <2> SUFFICES ASSUME NEW m \in Messages PROVE Since(b, Append(w, m)) = Append(s, m)
    OBVIOUS
  <2>1. Len(Append(w, m)) = Len(w) + 1
    OBVIOUS
  <2> DEFINE x == SubSeq(Append(w, m), b + 1, Len(w) + 1)
             y == Append(SubSeq(w, b + 1, Len(w)), m)
  <2>2. x \in Seq(Messages) /\ Len(x) = Len(w) + 1 - b
    BY <1>1
  <2>3. y \in Seq(Messages) /\ Len(y) = Len(w) + 1 - b
    BY <1>1
  <2>4. \A i \in 1..(Len(w) + 1 - b) : x[i] = y[i]
    BY <1>1
  <2> HIDE DEF x, y
  <2>5. x = y
    BY <2>2, <2>3, <2>4
  <2> QED BY <2>1, <2>5 DEF Since, x, y
<1>3. ASSUME NEW k \in 0..(Len(w) - b) PROVE Newest(s, k) = Since(Len(w) - k, w)
  <2>1. Newest(s, k) = SubSeq(SubSeq(w, b + 1, Len(w)), (Len(w) - b) - k + 1, Len(w) - b)
    BY <1>1 DEF Newest, Since
  <2>2. @ = SubSeq(w, (Len(w) - k) + 1, Len(w))
    BY <1>1
  <2> QED BY <2>1, <2>2 DEF Since
<1>4. ASSUME NEW k \in 0..(Len(w) - b) PROVE Since(b + k, w) = SubSeq(s, k + 1, Len(s))
  <2>1. SubSeq(s, k + 1, Len(s)) = SubSeq(SubSeq(w, b + 1, Len(w)), k + 1, Len(w) - b)
    BY <1>1 DEF Since
  <2>2. @ = SubSeq(w, (b + k) + 1, Len(w))
    BY <1>1
  <2> QED BY <2>1, <2>2 DEF Since
<1>5. Since(Len(w), w) = <<>>
  BY <1>1 DEF Since
<1> QED BY <1>1, <1>2, <1>3, <1>4, <1>5

\* The initial states are those of the window.
LEMMA WindowInit == Init => WindowInv /\ Window!Init
<1> SUFFICES ASSUME Init PROVE WindowInv /\ Window!Init
  OBVIOUS
<1>1. Since(0, <<>>) = <<>>
  BY DEF Since
<1>2. WindowInv
  BY <1>1, EmptyHolds DEF Init, WindowInv
<1> QED BY <1>1, <1>2 DEF Init, Window!Init, Since, EmptyBuffer

\* A step that leaves the buffer alone is a stutter of the window.
LEMMA WindowStutters ==
    ASSUME WindowInv, UNCHANGED <<conv, written, base>>,
           \A c \in Callers : op'[c] \in {"adding", "trimming"} => copy'[c] = conv'
    PROVE  WindowInv' /\ UNCHANGED Window!vars
  BY DEF WindowInv, Window!vars

\* A buffer that gives up messages is the window that forgets as many.
LEMMA WindowForgets ==
    ASSUME BufferInv, WindowInv, UNCHANGED written,
           NEW n \in 0..(Len(written) - base), base' = base + n,
           Holds(conv', Since(base', written)),
           n = 0 => conv'.entries = conv.entries
    PROVE  [Window!Next]_(Window!vars)
<1> DEFINE s == Since(base, written)
<1>1. written \in Seq(Messages) /\ base \in 0..Len(written) /\ base' \in 0..Len(written)
  BY DEF BufferInv, TypeOK, WindowInv
<1>2. CASE n = 0
  <2>1. base' = base
    BY <1>1, <1>2
  <2> QED BY <1>2, <2>1 DEF Window!vars
<1>3. CASE n # 0
  <2>1. Len(s) = Len(written) - base /\ n \in 1..Len(s)
    <3>1. Len(s) = Len(written) - base
      BY <1>1, SinceIs
    <3> HIDE DEF s
    <3> QED BY <1>1, <1>3, <3>1
  <2>2. Since(base', written) = SubSeq(s, n + 1, Len(s)) /\ Since(base', written) \in Seq(Messages)
    <3> QED BY <1>1, SinceIs
  <2> DEFINE t == Since(base', written)
  <2> HIDE DEF s, t
  <2>3. Window!LongestFitting(t) = conv'.entries
    BY <2>2, LongestIsWindow DEF Holds, t
  <2>4. Window!Forget(n)
    BY <2>2, <2>3 DEF Window!Forget, s, t, Since
  <2> QED BY <2>1, <2>4 DEF Window!Next, s, Since
<1> QED BY <1>2, <1>3

\* With one caller each step of the code is a step of the window, or a stutter.
LEMMA WindowStep ==
    ASSUME OneCaller, BufferInv, WindowInv, [Next]_vars
    PROVE  WindowInv' /\ [Window!Next]_(Window!vars)
<1>0. /\ op \in [Callers -> States] /\ copy \in [Callers -> Buffers]
      /\ msg \in [Callers -> Messages \cup {"none"}] /\ written \in Seq(Messages)
      /\ Exact(conv) /\ Within(conv) /\ base \in 0..Len(written) /\ Len(written) \in Nat
      /\ Holds(conv, Since(base, written)) /\ Since(base, written) \in Seq(Messages)
      /\ \A c \in Callers : op[c] \in {"adding", "trimming"} => copy[c] = conv
      /\ \A c \in Callers : op[c] = "adding" => msg[c] \in Messages
  BY SinceIs DEF BufferInv, TypeOK, States, WindowInv
<1>1. ASSUME NEW c \in Callers, NEW m \in Messages, ReadToAdd(c, m)
      PROVE  WindowInv' /\ [Window!Next]_(Window!vars)
  <2>1. UNCHANGED <<conv, written, base>>
    BY <1>1 DEF ReadToAdd
  <2>2. \A d \in Callers : op'[d] \in {"adding", "trimming"} => copy'[d] = conv'
    BY <1>0, <1>1, <2>1 DEF ReadToAdd, callVars, Turn
  <2> QED BY <2>1, <2>2, WindowStutters
<1>2. ASSUME NEW c \in Callers, StoreAdded(c)
      PROVE  WindowInv' /\ [Window!Next]_(Window!vars)
  <2>1. /\ UNCHANGED <<msg, sent, reads, base>> /\ op[c] = "adding"
        /\ \/ conv' = conv /\ written' = written
           \/ conv' = Added(copy[c], msg[c]) /\ written' = Append(written, msg[c])
    BY <1>2 DEF StoreAdded
  <2>2. \A d \in Callers : d = c /\ op'[d] = "idle"
    BY <1>0, <1>2 DEF StoreAdded, Turn, OneCaller
  <2>3. CASE conv' = conv /\ written' = written
    <3> QED BY <2>1, <2>2, <2>3, WindowStutters
  <2>4. CASE conv' = Added(copy[c], msg[c]) /\ written' = Append(written, msg[c])
    <3> DEFINE m == msg[c]
               s == Since(base, written)
    <3>1. m \in Messages /\ copy[c] = conv
      BY <1>0, <2>1
    <3>2. Since(base', written') = Append(s, m) /\ Append(s, m) \in Seq(Messages)
      BY <1>0, <2>1, <2>4, <3>1, SinceIs
    <3>3. Holds(conv', Append(s, m))
      BY <1>0, <2>4, <3>1, AddedHolds
    <3> HIDE DEF m, s
    <3>4. base' \in 0..Len(written')
      <4>1. Len(written') = Len(written) + 1
        BY <1>0, <2>4, <3>1
      <4> QED BY <1>0, <2>1, <4>1
    <3>5. WindowInv'
      BY <2>2, <3>2, <3>3, <3>4 DEF WindowInv
    <3>6. Window!LongestFitting(Append(s, m)) = conv'.entries
      BY <3>2, <3>3, LongestIsWindow DEF Holds
    <3>7. Window!Add(m)
      BY <2>1, <3>2, <3>6 DEF Window!Add, s, Since
    <3> QED BY <3>1, <3>5, <3>7 DEF Window!Next
  <2> QED BY <2>1, <2>3, <2>4
<1>3. ASSUME NEW c \in Callers, Peek(c)
      PROVE  WindowInv' /\ [Window!Next]_(Window!vars)
  <2>1. UNCHANGED <<conv, copy, written, base>>
    BY <1>3 DEF Peek
  <2>2. \A d \in Callers : op'[d] \in {"adding", "trimming"} => op[d] \in {"adding", "trimming"}
    BY <1>0, <1>3 DEF Peek
  <2> QED BY <1>0, <2>1, <2>2, WindowStutters
<1>4. ASSUME NEW c \in Callers, ReadToTrim(c) \/ Reread(c)
      PROVE  WindowInv' /\ [Window!Next]_(Window!vars)
  <2>1. UNCHANGED <<conv, written, base>>
    BY <1>4 DEF ReadToTrim, Reread
  <2>2. \A d \in Callers : op'[d] \in {"adding", "trimming"} => copy'[d] = conv'
    BY <1>0, <1>4, <2>1 DEF ReadToTrim, Reread, Turn
  <2> QED BY <2>1, <2>2, WindowStutters
<1>5. ASSUME NEW c \in Callers, StoreTrimmed(c)
      PROVE  WindowInv' /\ [Window!Next]_(Window!vars)
  <2>1. /\ UNCHANGED written /\ op[c] = "trimming"
        /\ \/ UNCHANGED <<conv, base>>
           \/ /\ conv' = DropToTokens(copy[c], ShortTermBudget)
              /\ base' = Len(written) - Len(conv'.entries)
    BY <1>5 DEF StoreTrimmed
  <2>2. \A d \in Callers : op'[d] \notin {"adding", "trimming"}
    BY <1>0, <1>5 DEF StoreTrimmed, Turn, OneCaller
  <2>3. CASE UNCHANGED <<conv, base>>
    BY <2>1, <2>2, <2>3, WindowStutters
  <2>4. CASE /\ conv' = DropToTokens(copy[c], ShortTermBudget)
             /\ base' = Len(written) - Len(conv'.entries)
    <3> DEFINE s == Since(base, written)
               l == Len(conv'.entries)
    <3>1. copy[c] = conv
      BY <1>0, <2>1
    <3>2. l \in 0..Len(s) /\ conv'.entries = Newest(s, l) /\ Holds(conv', Newest(s, l))
      BY <1>0, <2>4, <3>1, LimitsAssumption, TrimmedHolds
    <3>3. Len(s) = Len(written) - base
      BY <1>0, SinceIs
    <3> DEFINE n == (Len(written) - base) - l
    <3>4. /\ base' \in 0..Len(written) /\ n \in 0..(Len(written) - base) /\ base' = base + n
          /\ Newest(s, l) = Since(base', written)
      BY <1>0, <2>4, <3>2, <3>3, SinceIs
    <3>5. n = 0 => conv'.entries = conv.entries
      <4> SUFFICES ASSUME n = 0 PROVE conv'.entries = conv.entries
        OBVIOUS
      <4>1. l = Len(s)
        BY <1>0, <2>4, <3>2, <3>3
      <4>2. l <= Len(conv.entries)
        BY <1>0, <2>4, <3>1, LimitsAssumption, DropToTokensIsExact
      <4>3. Len(conv.entries) = Len(s)
        BY <1>0, <3>2, <4>1, <4>2 DEF Holds, Longest
      <4> HIDE DEF s, l
      <4>4. conv.entries = Newest(s, Len(s)) /\ conv'.entries = Newest(s, Len(s))
        BY <1>0, <3>2, <4>1, <4>3 DEF Holds, s
      <4> QED BY <4>4
    <3>6. WindowInv'
      <4> HIDE DEF l
      <4> QED BY <1>0, <2>1, <2>2, <3>2, <3>4 DEF WindowInv
    <3>7. Holds(conv', Since(base', written))
      BY <3>2, <3>4
    <3> HIDE DEF n, s, l
    <3> QED BY <2>1, <3>4, <3>5, <3>6, <3>7, WindowForgets
  <2> QED BY <2>1, <2>3, <2>4
<1>6. CASE Clear
  <2>1. /\ conv' = EmptyBuffer /\ base' = Len(written) /\ UNCHANGED written
        /\ \A c \in Callers : op'[c] \notin {"adding", "trimming"}
    BY <1>6 DEF Clear, callVars, OneCaller
  <2> DEFINE n == Len(written) - base
  <2>2. /\ Since(base', written) = <<>> /\ base' \in 0..Len(written)
        /\ n \in 0..(Len(written) - base) /\ base' = base + n
    BY <1>0, <2>1, SinceIs
  <2>3. Holds(conv', Since(base', written))
    BY <2>1, <2>2, EmptyHolds
  <2>4. WindowInv'
    BY <1>0, <2>1, <2>2, <2>3 DEF WindowInv
  <2>5. n = 0 => conv'.entries = conv.entries
    <3> SUFFICES ASSUME n = 0 PROVE conv'.entries = conv.entries
      OBVIOUS
    <3>0. Since(base, written) = <<>>
      BY <1>0, <2>2, SinceIs
    <3>1. conv.entries = Newest(<<>>, Len(conv.entries)) /\ Len(conv.entries) = 0
      BY <1>0, <3>0 DEF Holds, Longest
    <3>2. Newest(<<>>, 0) = <<>>
      BY DEF Newest
    <3> QED BY <2>1, <3>1, <3>2 DEF EmptyBuffer
  <2> HIDE DEF n
  <2> QED BY <2>1, <2>2, <2>3, <2>4, <2>5, WindowForgets
<1>7. CASE UNCHANGED vars
  <2>1. UNCHANGED <<conv, written, base, op, copy>>
    BY <1>7 DEF vars, callVars
  <2> QED BY <1>0, <2>1, WindowStutters
<1> QED BY <1>1, <1>2, <1>3, <1>4, <1>5, <1>6, <1>7
        DEF Next, AddMessage, GetFormattedMemory

\* For one caller at a time, and a key that does not go between its GET and its SET,
\* the buffer implements the sliding window: it holds the longest run of recent
\* messages that fits both limits, after every write.
THEOREM BufferIsWindow == OneCaller => (Spec => WindowSpec)
<1> SUFFICES ASSUME OneCaller PROVE Spec => WindowSpec
  OBVIOUS
<1>1. BufferInv /\ WindowInv /\ [Next]_vars => WindowInv' /\ [Window!Next]_(Window!vars)
  BY WindowStep
<1> QED BY <1>1, BufferInit, BufferStep, WindowInit, PTL DEF Spec, WindowSpec, Window!Spec

\* One caller loses nothing either: while everything stored since the buffer was
\* emptied or trimmed fits, the buffer holds all of it.
THEOREM OneCallerLosesNothing == OneCaller => (Spec => []AddedMessagesStay)
<1> SUFFICES ASSUME OneCaller PROVE Spec => []AddedMessagesStay
  OBVIOUS
<1>1. BufferInv /\ WindowInv /\ [Next]_vars => WindowInv'
  BY WindowStep
<1>2. BufferInv /\ WindowInv => AddedMessagesStay
  <2> SUFFICES ASSUME BufferInv, WindowInv, FitsLimits(Since(base, written))
               PROVE  ToSet(Since(base, written)) \subseteq ToSet(conv.entries)
    BY DEF AddedMessagesStay, Since
  <2> DEFINE s == Since(base, written)
             n == Len(conv.entries)
  <2>1. s \in Seq(Messages) /\ Len(s) \in Nat
    BY SinceIs DEF BufferInv, TypeOK, WindowInv
  <2>2. conv.entries = Newest(s, n) /\ Longest(s, n)
    BY DEF WindowInv, Holds
  <2> HIDE DEF n, s
  <2>3. n = Len(s)
    <3> SUFFICES ASSUME n < Len(s) PROVE FALSE
      BY <2>1, <2>2 DEF Longest
    <3>1. n + 1 \in 0..Len(s)
      BY <2>1, <2>2 DEF Longest
    <3>2. FitsLimits(Newest(s, n + 1))
      BY <2>1, <3>1, LessFits DEF s
    <3> QED BY <2>2, <3>2 DEF Longest
  <2>4. conv.entries = s
    BY <2>1, <2>2, <2>3, NewestIs
  <2> QED BY <2>4 DEF s
<1> QED BY <1>1, <1>2, BufferInit, BufferStep, WindowInit, PTL DEF Spec

-----------------------------------------------------------------------------
(* Consolidation *)

\* Consolidation reads the buffer and never writes it: what a session does to the
\* buffer is what its callers do.
LEMMA SessionUsesBuffer == [SessionNext]_sessionVars => [Next]_vars
<1>1. ASSUME NEW c \in Callers, UseBuffer(c) PROVE Next
  BY <1>1 DEF UseBuffer, Next
<1>2. ASSUME NEW c \in Callers, ShouldConsolidate(c) PROVE UNCHANGED vars
  BY <1>2 DEF ShouldConsolidate
<1>3. ASSUME NEW m \in Messages, ConsolidateSession(m) PROVE UNCHANGED vars
  BY <1>3 DEF ConsolidateSession, ReadToSummarise, GenerateSummary, StoreSummary,
              TakeTime, WriteStamp
<1>4. ClearBuffer => Next
  BY DEF ClearBuffer, Next
<1>5. Tick \/ UNCHANGED sessionVars => UNCHANGED vars
  BY DEF Tick, sessionVars
<1> QED BY <1>1, <1>2, <1>3, <1>4, <1>5 DEF SessionNext

\* Hence a session keeps everything shown of the buffer above.
THEOREM SessionIsBuffer == SessionSpec => Spec
<1>1. SessionInit => Init
  BY DEF SessionInit
<1> QED BY <1>1, SessionUsesBuffer, PTL DEF SessionSpec, Spec

\* Where a consolidation may be.
JobSteps == {"none", "reading", "summarising", "storing", "stored", "stamping", "done"}

\* The part of the type invariant that is not about the buffer.
JobsOK ==
    /\ now \in 1..MaxTime
    /\ checking \subseteq Callers
    /\ stamp \in 0..MaxTime
    /\ job \in [Messages -> JobSteps]
    /\ source \in [Messages -> Seq(Messages)]
    /\ taken \in [Messages -> 0..MaxTime]
    /\ summaries \subseteq [by : Messages, at : 1..MaxTime]

\* A goroutine that knows its summary to be stored is right, and so is the time it is
\* about to write.
Summarised(m, t) == \E s \in summaries : s.by = m /\ s.at <= t

\* What the stamp says, and which summary a job under way is going to back it with.
StampInv == /\ StampIsBacked
            /\ \A m \in Messages : job[m] = "stored" => Summarised(m, now)
            /\ \A m \in Messages : job[m] = "stamping" => Summarised(m, taken[m])

\* At first no job runs and no stamp is set.
LEMMA SessionInitIs == SessionInit => JobsOK /\ StampInv
<1> SUFFICES ASSUME SessionInit PROVE JobsOK /\ StampInv
  OBVIOUS
<1>1. JobsOK
  BY ConsolidationAssumption DEF SessionInit, JobsOK, JobSteps
<1>2. StampInv
  BY DEF SessionInit, StampInv, StampIsBacked
<1> QED BY <1>1, <1>2

\* Where a goroutine goes, and what it keeps when it ends.
LEMMA GotoIs ==
    ASSUME JobsOK, NEW m \in Messages, NEW o \in JobSteps, Goto(m, o)
    PROVE  /\ job' \in [Messages -> JobSteps]
           /\ \A n \in Messages : job'[n] = IF n = m THEN o ELSE job[n]
  BY DEF JobsOK, Goto

\* How a consolidation may end.
LEMMA EndIs ==
    ASSUME JobsOK, NEW m \in Messages, End(m)
    PROVE  /\ job' \in [Messages -> JobSteps]
           /\ source' \in [Messages -> Seq(Messages)]
           /\ taken' \in [Messages -> 0..MaxTime]
           /\ \A n \in Messages : job'[n] = IF n = m THEN "done" ELSE job[n]
           /\ \A n \in Messages : n # m => taken'[n] = taken[n] /\ source'[n] = source[n]
           /\ source'[m] = <<>>
<1>1. <<>> \in Seq(Messages) /\ 0 \in 0..MaxTime /\ "done" \in JobSteps
  BY ConsolidationAssumption DEF JobSteps
<1> QED BY <1>1 DEF JobsOK, End, Goto

\* What is known of a summary remains so: summaries stay, and time goes on.
LEMMA SummarisedStays ==
    ASSUME summaries \subseteq summaries', NEW m, NEW t \in Nat, NEW u \in Nat, t <= u,
           summaries \in SUBSET [by : Messages, at : 1..MaxTime], Summarised(m, t)
    PROVE  Summarised(m, u)'
<1>1. PICK s \in summaries : s.by = m /\ s.at <= t
  BY DEF Summarised
<1>2. s.at \in Nat /\ s \in summaries'
  BY <1>1, ConsolidationAssumption
<1>3. s.at <= u
  BY <1>1, <1>2
<1> QED BY <1>1, <1>2, <1>3 DEF Summarised

\* A step that leaves the stamp, and starts no goroutine on its way to it, keeps what
\* is known of the summaries.
LEMMA StampKept ==
    ASSUME JobsOK, StampInv, stamp' = stamp, summaries \subseteq summaries',
           now' \in Nat, now <= now',
           \A n \in Messages : job'[n] = "stored" => job[n] = "stored" \/ Summarised(n, now)',
           \A n \in Messages : job'[n] = "stamping" =>
                                  job[n] = "stamping" /\ taken'[n] = taken[n]
    PROVE  StampInv'
<1>1. /\ now \in Nat /\ stamp \in Nat /\ summaries \in SUBSET [by : Messages, at : 1..MaxTime]
      /\ \A n \in Messages : taken[n] \in Nat
  BY ConsolidationAssumption DEF JobsOK
<1>2. StampIsBacked'
  BY DEF StampInv, StampIsBacked
<1>3. ASSUME NEW n \in Messages, job'[n] = "stored" PROVE Summarised(n, now)'
  <2>1. CASE job[n] = "stored"
    <3>1. Summarised(n, now)
      BY <2>1 DEF StampInv
    <3> QED BY <1>1, <3>1, SummarisedStays DEF Summarised
  <2> QED BY <1>3, <2>1
<1>4. ASSUME NEW n \in Messages, job'[n] = "stamping" PROVE Summarised(n, taken[n])'
  <2>1. Summarised(n, taken[n]) /\ taken'[n] = taken[n]
    BY <1>4 DEF StampInv
  <2> DEFINE t == taken[n]
  <2>2. t \in Nat /\ t <= t
    BY <1>1
  <2> QED BY <2>1 DEF Summarised
<1> QED BY <1>2, <1>3, <1>4 DEF StampInv

\* Every step of a session keeps the types, and what the stamp and the goroutines on
\* their way to it stand for.
LEMMA JobsStep ==
    BufferInv /\ JobsOK /\ StampInv /\ [SessionNext]_sessionVars => JobsOK' /\ StampInv'
<1> SUFFICES ASSUME BufferInv, JobsOK, StampInv, [SessionNext]_sessionVars
             PROVE  JobsOK' /\ StampInv'
  OBVIOUS
<1>0. /\ now \in 1..MaxTime /\ checking \subseteq Callers /\ stamp \in 0..MaxTime
      /\ job \in [Messages -> JobSteps] /\ source \in [Messages -> Seq(Messages)]
      /\ taken \in [Messages -> 0..MaxTime]
      /\ summaries \subseteq [by : Messages, at : 1..MaxTime]
      /\ MaxTime \in Nat /\ now \in Nat /\ conv.entries \in Seq(Messages)
  BY ConsolidationAssumption DEF JobsOK, BufferInv, Exact, Buffers
<1>1. ASSUME NEW c \in Callers, UseBuffer(c) PROVE JobsOK' /\ StampInv'
  <2>1. checking' \subseteq Callers /\ UNCHANGED <<now, stamp, jobVars, summaries>>
    BY <1>0, <1>1 DEF UseBuffer
  <2>2. JobsOK'
    BY <2>1 DEF JobsOK, jobVars
  <2> QED BY <1>0, <2>1, <2>2, StampKept DEF jobVars
<1>2. ASSUME NEW c \in Callers, ShouldConsolidate(c) PROVE JobsOK' /\ StampInv'
  <2>1. /\ checking' \subseteq Callers /\ UNCHANGED <<now, stamp, source, taken, summaries>>
        /\ UNCHANGED job \/ Goto(msg[c], "reading")
    BY <1>0, <1>2 DEF ShouldConsolidate, Goto
  <2>2. /\ job' \in [Messages -> JobSteps]
        /\ \A n \in Messages : job'[n] \in {job[n], "reading"}
    BY <1>0, <2>1 DEF Goto, JobSteps
  <2>3. JobsOK'
    BY <2>1, <2>2 DEF JobsOK
  <2> QED BY <1>0, <2>1, <2>2, <2>3, StampKept
<1>3. ASSUME NEW m \in Messages, ReadToSummarise(m) \/ GenerateSummary(m)
      PROVE  JobsOK' /\ StampInv'
  <2>1. UNCHANGED <<vars, now, checking, stamp, summaries>>
    BY <1>3 DEF ReadToSummarise, GenerateSummary
  <2>2. CASE End(m)
    <3>1. JobsOK'
      BY <2>1, <2>2, EndIs DEF JobsOK
    <3> QED BY <1>0, <2>1, <2>2, <3>1, EndIs, StampKept
  <2>3. CASE ~End(m)
    <3>1. /\ source' = source \/ source' = [source EXCEPT ![m] = conv.entries]
          /\ taken' = taken /\ (Goto(m, "summarising") \/ Goto(m, "storing"))
      BY <1>3, <2>3 DEF ReadToSummarise, GenerateSummary
    <3>2. /\ job' \in [Messages -> JobSteps]
          /\ \A n \in Messages : job'[n] \in {"stored", "stamping"} => job[n] = job'[n]
      BY <3>1, GotoIs DEF JobSteps
    <3>3. JobsOK'
      BY <1>0, <2>1, <3>1, <3>2 DEF JobsOK
    <3> QED BY <1>0, <2>1, <3>1, <3>2, <3>3, StampKept
  <2> QED BY <2>2, <2>3
<1>4. ASSUME NEW m \in Messages, StoreSummary(m) PROVE JobsOK' /\ StampInv'
  <2>1. PICK stored, known \in BOOLEAN :
          /\ known => stored
          /\ summaries' = IF stored THEN summaries \cup {[by |-> m, at |-> now]}
                                    ELSE summaries
          /\ IF known THEN Goto(m, "stored") /\ UNCHANGED <<source, taken>>
                      ELSE End(m)
    BY <1>4 DEF StoreSummary, GoesOn
  <2>2. UNCHANGED <<now, checking, stamp>> /\ summaries \subseteq summaries'
    BY <1>4, <2>1 DEF StoreSummary
  <2>3. summaries' \subseteq [by : Messages, at : 1..MaxTime]
    BY <1>0, <2>1
  <2>4. CASE known
    <3>1. Goto(m, "stored") /\ UNCHANGED <<source, taken>>
      BY <2>1, <2>4
    <3>2. /\ job' \in [Messages -> JobSteps]
          /\ \A n \in Messages : job'[n] = IF n = m THEN "stored" ELSE job[n]
      BY <3>1, GotoIs DEF JobSteps
    <3>3. JobsOK'
      BY <1>0, <2>2, <2>3, <3>1, <3>2 DEF JobsOK
    <3>4. Summarised(m, now)'
      <4>1. [by |-> m, at |-> now] \in summaries'
        BY <2>1, <2>4
      <4> DEFINE t == [by |-> m, at |-> now]
      <4>2. t.by = m /\ t.at <= now' /\ t \in summaries'
        BY <1>0, <2>2, <4>1
      <4> HIDE DEF t
      <4> QED BY <4>2 DEF Summarised
    <3> QED BY <1>0, <2>2, <3>1, <3>2, <3>3, <3>4, StampKept
  <2>5. CASE ~known
    <3>1. End(m)
      BY <2>1, <2>5
    <3>2. JobsOK'
      BY <1>0, <2>2, <2>3, <3>1, EndIs DEF JobsOK
    <3> QED BY <1>0, <2>2, <3>1, <3>2, EndIs, StampKept
  <2> QED BY <2>4, <2>5
<1>5. ASSUME NEW m \in Messages, TakeTime(m) PROVE JobsOK' /\ StampInv'
  <2>1. /\ job[m] = "stored" /\ taken' = [taken EXCEPT ![m] = now] /\ Goto(m, "stamping")
        /\ UNCHANGED <<now, checking, stamp, source, summaries>>
    BY <1>5 DEF TakeTime, TimeOfLast
  <2>2. /\ job' \in [Messages -> JobSteps]
        /\ \A n \in Messages : job'[n] = IF n = m THEN "stamping" ELSE job[n]
    BY <2>1, GotoIs DEF JobSteps
  <2>3. /\ taken' \in [Messages -> 0..MaxTime]
        /\ \A n \in Messages : taken'[n] = IF n = m THEN now ELSE taken[n]
    BY <1>0, <2>1
  <2>4. JobsOK'
    BY <1>0, <2>1, <2>2, <2>3 DEF JobsOK
  <2>5. Summarised(m, now)
    BY <2>1 DEF StampInv
  <2>6. StampInv'
    BY <2>1, <2>2, <2>3, <2>5 DEF StampInv, StampIsBacked, Summarised
  <2> QED BY <2>4, <2>6
<1>6. ASSUME NEW m \in Messages, WriteStamp(m) PROVE JobsOK' /\ StampInv'
  <2>1. /\ job[m] = "stamping" /\ stamp' \in {stamp, taken[m]} /\ End(m)
        /\ UNCHANGED <<now, checking, summaries>>
    BY <1>6 DEF WriteStamp
  <2>2. JobsOK'
    BY <1>0, <2>1, EndIs DEF JobsOK
  <2>3. StampIsBacked'
    <3>1. Summarised(m, taken[m]) /\ StampIsBacked
      BY <2>1 DEF StampInv
    <3> QED BY <2>1, <3>1 DEF StampIsBacked, Summarised
  <2>4. \A n \in Messages : job'[n] \in {"stored", "stamping"} =>
                               n # m /\ job'[n] = job[n] /\ taken'[n] = taken[n]
    BY <2>1, EndIs
  <2>5. StampInv'
    BY <2>1, <2>3, <2>4 DEF StampInv, Summarised
  <2> QED BY <2>2, <2>5
<1>7. CASE ClearBuffer \/ UNCHANGED sessionVars
  <2>1. UNCHANGED <<now, checking, stamp, jobVars, summaries>>
    BY <1>7 DEF ClearBuffer, sessionVars
  <2>2. JobsOK'
    BY <2>1 DEF JobsOK, jobVars
  <2> QED BY <1>0, <2>1, <2>2, StampKept DEF jobVars
<1>8. CASE Tick
  <2>1. /\ now' = now + 1 /\ now < MaxTime
        /\ UNCHANGED <<checking, stamp, jobVars, summaries>>
    BY <1>8 DEF Tick
  <2>2. now' \in 1..MaxTime /\ now' \in Nat /\ now <= now'
    BY <1>0, <2>1
  <2>3. JobsOK'
    BY <1>0, <2>1, <2>2 DEF JobsOK, jobVars
  <2> QED BY <1>0, <2>1, <2>2, <2>3, StampKept DEF jobVars
<1> QED BY <1>1, <1>2, <1>3, <1>4, <1>5, <1>6, <1>7, <1>8
        DEF SessionNext, ConsolidateSession

\* The clock, the goroutines and the summaries of a session have their types.
THEOREM SessionIsTyped == SessionSpec => []SessionTypeOK
<1>1. BufferInv /\ JobsOK => SessionTypeOK
  BY DEF BufferInv, JobsOK, SessionTypeOK, JobSteps
<1>2. SessionInit => Init
  BY DEF SessionInit
<1> QED BY <1>1, <1>2, BufferInit, BufferStep, SessionUsesBuffer, SessionInitIs, JobsStep, PTL
        DEF SessionSpec

\* The stamp that holds off the next consolidation is that of a summary stored no
\* later: in whatever order the goroutines end, and whichever of them fail.
THEOREM StampStaysBacked == SessionSpec => []StampIsBacked
<1>1. StampInv => StampIsBacked
  BY DEF StampInv
<1>2. SessionInit => Init
  BY DEF SessionInit
<1> QED BY <1>1, <1>2, BufferInit, BufferStep, SessionUsesBuffer, SessionInitIs, JobsStep, PTL
        DEF SessionSpec

-----------------------------------------------------------------------------
(* What is summarised *)

\* A run of the messages written, worth a summary.
PieceOf(s, w) == /\ Len(s) >= 2
                 /\ Tokens(s) >= SummaryMinTokens
                 /\ \E i, j \in DOMAIN w : s = SubSeq(w, i, j)

\* It remains one when more is written.
LEMMA PieceStays ==
    ASSUME NEW w \in Seq(Messages), NEW m \in Messages, NEW s, PieceOf(s, w)
    PROVE  PieceOf(s, Append(w, m))
<1>1. PICK i, j \in DOMAIN w : s = SubSeq(w, i, j)
  BY DEF PieceOf
<1> DEFINE v == Append(w, m)
<1>2. /\ i \in 1..Len(w) /\ j \in 1..Len(w) /\ Len(w) \in Nat
      /\ v \in Seq(Messages) /\ Len(v) = Len(w) + 1 /\ \A k \in 1..Len(w) : v[k] = w[k]
  OBVIOUS
<1> HIDE DEF v
<1>3. SubSeq(v, i, j) = SubSeq(w, i, j)
  BY <1>2
<1>4. i \in DOMAIN v /\ j \in DOMAIN v
  BY <1>2
<1>5. PieceOf(s, v)
  BY <1>1, <1>3, <1>4 DEF PieceOf
<1> QED BY <1>5 DEF v

\* The buffer of one caller, if there is enough in it, is a piece.
LEMMA BufferIsPiece ==
    ASSUME BufferInv, WindowInv, EnoughToSummarise(conv)
    PROVE  PieceOf(conv.entries, written)
<1> DEFINE n == Len(conv.entries)
           s == Since(base, written)
<1>1. /\ written \in Seq(Messages) /\ base \in 0..Len(written) /\ Len(written) \in Nat
      /\ conv.totalTokens = Tokens(conv.entries)
      /\ n >= 2 /\ conv.totalTokens >= SummaryMinTokens
      /\ conv.entries = Newest(s, n) /\ n \in 0..Len(s)
  BY DEF BufferInv, TypeOK, Exact, WindowInv, Holds, Longest, EnoughToSummarise
<1>2. Len(s) = Len(written) - base
  BY <1>1, SinceIs
<1> HIDE DEF n, s
<1>3. n \in 0..(Len(written) - base)
  BY <1>1, <1>2
<1>4. Newest(s, n) = SubSeq(written, (Len(written) - n) + 1, Len(written))
  BY <1>1, <1>3, SinceIs DEF s, Since
<1>5. (Len(written) - n) + 1 \in DOMAIN written /\ Len(written) \in DOMAIN written
  BY <1>1, <1>3
<1> QED BY <1>1, <1>4, <1>5 DEF PieceOf, n

\* With one caller what a goroutine summarises is a piece of the conversation with no
\* gap, whatever is added, trimmed or cleared while it does.
LEMMA SourcesStep ==
    ASSUME BufferInv, WindowInv, JobsOK, SourcesArePieces, [SessionNext]_sessionVars
    PROVE  SourcesArePieces'
<1>0. /\ \A m \in Messages : source[m] # <<>> => PieceOf(source[m], written)
      /\ source \in [Messages -> Seq(Messages)]
      /\ written \in Seq(Messages)
  BY DEF SourcesArePieces, Piece, PieceOf, JobsOK, BufferInv, TypeOK
<1>1. SUFFICES \A m \in Messages : source'[m] # <<>> => PieceOf(source'[m], written')
  BY DEF SourcesArePieces, Piece, PieceOf
<1>2. ASSUME UNCHANGED <<source, written>>
      PROVE  \A m \in Messages : source'[m] # <<>> => PieceOf(source'[m], written')
  BY <1>0, <1>2
<1>3. ASSUME NEW c \in Callers, UseBuffer(c)
      PROVE  \A m \in Messages : source'[m] # <<>> => PieceOf(source'[m], written')
  <2>1. /\ UNCHANGED source
        /\ \/ UNCHANGED written
           \/ op[c] = "adding" /\ written' = Append(written, msg[c])
    BY <1>3 DEF UseBuffer, jobVars, AddMessage, GetFormattedMemory, ReadToAdd, StoreAdded,
                Peek, ReadToTrim, StoreTrimmed, Reread
  <2>2. op[c] = "adding" => msg[c] \in Messages
    BY DEF BufferInv
  <2> QED BY <1>0, <2>1, <2>2, PieceStays
<1>4. ASSUME NEW m \in Messages, ReadToSummarise(m)
      PROVE  \A n \in Messages : source'[n] # <<>> => PieceOf(source'[n], written')
  <2>1. UNCHANGED written
    BY <1>4 DEF ReadToSummarise, vars
  <2>2. CASE End(m)
    BY <1>0, <2>1, <2>2 DEF End
  <2>3. CASE EnoughToSummarise(conv) /\ source' = [source EXCEPT ![m] = conv.entries]
    <3>1. PieceOf(conv.entries, written)
      BY <2>3, BufferIsPiece
    <3> QED BY <1>0, <2>1, <2>3, <3>1
  <2> QED BY <1>4, <2>2, <2>3 DEF ReadToSummarise
<1>5. ASSUME NEW m \in Messages,
             GenerateSummary(m) \/ StoreSummary(m) \/ TakeTime(m) \/ WriteStamp(m)
      PROVE  \A n \in Messages : source'[n] # <<>> => PieceOf(source'[n], written')
  <2>1. UNCHANGED written /\ (UNCHANGED source \/ source' = [source EXCEPT ![m] = <<>>])
    BY <1>5 DEF GenerateSummary, StoreSummary, TakeTime, WriteStamp, End, vars
  <2> QED BY <1>0, <2>1
<1>6. ASSUME NEW c \in Callers, ShouldConsolidate(c) PROVE UNCHANGED <<source, written>>
  BY <1>6 DEF ShouldConsolidate, vars
<1>7. ClearBuffer \/ Tick \/ UNCHANGED sessionVars => UNCHANGED <<source, written>>
  BY DEF ClearBuffer, Clear, Tick, sessionVars, vars, jobVars
<1> QED BY <1>2, <1>3, <1>4, <1>5, <1>6, <1>7 DEF SessionNext, ConsolidateSession

\* With one caller, what a consolidation summarises is one piece of what was
\* written, with nothing left out of its middle (ConsolidateSession).
THEOREM SourcesStayPieces == OneCaller => (SessionSpec => []SourcesArePieces)
<1> SUFFICES ASSUME OneCaller PROVE SessionSpec => []SourcesArePieces
  OBVIOUS
<1>1. SessionInit => Init /\ SourcesArePieces
  BY DEF SessionInit, SourcesArePieces
<1>2. BufferInv /\ WindowInv /\ [Next]_vars => WindowInv'
  BY WindowStep
<1> QED BY <1>1, <1>2, BufferInit, BufferStep, WindowInit, SessionUsesBuffer, SessionInitIs,
           JobsStep, SourcesStep, PTL DEF SessionSpec
=============================================================================
