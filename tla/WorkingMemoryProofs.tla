------------------------ MODULE WorkingMemoryProofs ------------------------
(***************************************************************************)
(* Proofs about WorkingMemory, for any number of callers, documents and    *)
(* chunks: the stored memory is whole and of one retrieval, and a prompt   *)
(* takes no more of it than its share.                                     *)
(*                                                                         *)
(* None of this is inductive as it stands: what is stored next is the copy *)
(* of some caller, taken of a memory that may be long gone.  The invariant *)
(* therefore says of every copy what it says of the memory.                *)
(***************************************************************************)
EXTENDS WorkingMemory, SumsProofs

\* What MemoryIsWhole says of the stored memory, of any memory.
Whole(m) == /\ m \in Memories
            /\ m.totalTokens = Tokens(m.chunks)
            /\ m.totalTokens <= WorkingMemoryMaxTokens
            /\ Len(m.loaded) <= MaxLoadedDocuments
            /\ IsInjective(m.loaded)

\* What OneRetrieval says of the stored chunks, of any.
Retrieved(chunks) ==
    \E s \in ContextLists \cup {<<>>}, D \in SUBSET Documents :
        chunks = KeepIn(trimChunks(s), ChunksOutside(D))

\* A memory is whole, and what it retrieved is one retrieval.
Good(m) == Whole(m) /\ Retrieved(m.chunks)

\* The inductive invariant.
WorkingInv == /\ TypeOK
              /\ Good(memory)
              /\ \A c \in Callers : Good(copy[c])
              /\ WorkingWithinShare

-----------------------------------------------------------------------------
(* Trimming, and the four changes of a memory *)

\* What trimChunks keeps of a retrieval is within the limit.
LEMMA TrimmedFits ==
    ASSUME NEW s \in Seq(Chunks)
    PROVE  /\ trimChunks(s) \in Seq(Chunks)
           /\ Tokens(trimChunks(s)) \in Nat
           /\ Tokens(trimChunks(s)) <= WorkingMemoryMaxTokens
<1> DEFINE S == {k \in 0..Len(s) : Tokens(SubSeq(s, 1, k)) <= WorkingMemoryMaxTokens}
           m == Max(S)
<1>1. SubSeq(s, 1, 0) = <<>> /\ 0 \in 0..Len(s) /\ Len(s) \in Nat
  OBVIOUS
<1>2. Tokens(<<>>) = 0
  BY ChunksAssumption, SumEmpty DEF Tokens
<1>3. 0 \in S
  <2>1. Tokens(SubSeq(s, 1, 0)) = 0
    BY <1>1, <1>2
  <2>2. 0 <= WorkingMemoryMaxTokens
    BY LimitsAssumption
  <2> HIDE DEF S
  <2>3. Tokens(SubSeq(s, 1, 0)) <= WorkingMemoryMaxTokens
    BY <2>1, <2>2
  <2> QED BY <1>1, <2>3 DEF S
<1>4. S \in SUBSET (0..Len(s)) /\ S # {}
  BY <1>3
<1>5. m \in S
  <2> HIDE DEF S
  <2> QED BY <1>1, <1>4, BoundedMax
<1>6. trimChunks(s) = SubSeq(s, 1, m)
  BY DEF trimChunks
<1>7. m \in 0..Len(s) /\ Tokens(SubSeq(s, 1, m)) <= WorkingMemoryMaxTokens
  BY <1>5
<1> HIDE DEF m
<1>8. SubSeq(s, 1, m) \in Seq(Chunks)
  BY <1>7
<1>9. Tokens(SubSeq(s, 1, m)) \in Nat
  BY <1>8, ChunksAssumption, SumIsNat DEF Tokens
<1> QED BY <1>6, <1>7, <1>8, <1>9

\* A list of chunks, trimmed, is a retrieval from which nothing was taken out.
LEMMA TrimmedIsRetrieved ==
    ASSUME NEW s \in ContextLists \cup {<<>>}
    PROVE  Retrieved(trimChunks(s))
<1>1. s \in Seq(Chunks)
  <2>1. <<>> \in Seq(Chunks)
    OBVIOUS
  <2> QED BY <2>1, ChunksAssumption
<1>2. trimChunks(s) \in Seq(Chunks)
  BY <1>1, TrimmedFits
<1>3. ChunksOutside({}) = Chunks
  BY DEF ChunksOutside
<1>4. KeepIn(trimChunks(s), Chunks) = trimChunks(s)
  BY <1>2, KeepTwice
<1>5. trimChunks(s) = KeepIn(trimChunks(s), ChunksOutside({}))
  BY <1>3, <1>4
<1>6. {} \in SUBSET Documents
  OBVIOUS
<1> HIDE DEF trimChunks
<1> QED BY <1>5, <1>6 DEF Retrieved

\* The missing key reads as a memory that is whole.
LEMMA EmptyIsGood == Good(EmptyMemory)
<1>1. <<>> \in Seq(Documents) /\ <<>> \in Seq(Chunks) /\ Len(<<>>) = 0
  OBVIOUS
<1>2. Tokens(<<>>) = 0
  BY ChunksAssumption, SumEmpty DEF Tokens
<1>3. IsInjective(<<>>)
  BY DEF IsInjective
<1>4. trimChunks(<<>>) = <<>>
  <2>1. \A k : k \in 0..Len(<<>>) => k = 0
    OBVIOUS
  <2> DEFINE S == {k \in 0..Len(<<>>) : Tokens(SubSeq(<<>>, 1, k)) <= WorkingMemoryMaxTokens}
  <2>2. SubSeq(<<>>, 1, Max(S)) = <<>>
    <3>1. SubSeq(<<>>, 1, 0) = <<>> /\ 0 \in 0..0 /\ 0 \in Nat
      OBVIOUS
    <3>2. 0 \in S
      <4>1. Tokens(SubSeq(<<>>, 1, 0)) <= WorkingMemoryMaxTokens
        <5>1. Tokens(SubSeq(<<>>, 1, 0)) = 0
          BY <1>2, <3>1
        <5> QED BY <5>1, LimitsAssumption
      <4>2. 0 \in 0..Len(<<>>)
        BY <1>1, <3>1
      <4> QED BY <4>1, <4>2
    <3>3. S \in SUBSET (0..0) /\ S # {}
      BY <1>1, <3>2
    <3>4. Max(S) \in S
      <4> HIDE DEF S
      <4> QED BY <3>1, <3>3, BoundedMax
    <3>5. Max(S) = 0
      BY <2>1, <3>4
    <3> QED BY <3>1, <3>5
  <2> QED BY <2>2 DEF trimChunks
<1>5. Retrieved(<<>>)
  <2>1. Retrieved(trimChunks(<<>>))
    BY TrimmedIsRetrieved
  <2> QED BY <1>4, <2>1
<1> QED BY <1>1, <1>2, <1>3, <1>5, LimitsAssumption
        DEF Good, Whole, Memories, EmptyMemory

\* SetDocumentContext leaves a memory that is whole and of the new retrieval.
LEMMA WithContextIsGood ==
    ASSUME NEW m, Good(m), NEW s \in ContextLists
    PROVE  Good(WithContext(m, s))
<1> DEFINE kept == trimChunks(s)
<1>1. s \in Seq(Chunks)
  BY ChunksAssumption
<1>2. kept \in Seq(Chunks) /\ Tokens(kept) \in Nat /\ Tokens(kept) <= WorkingMemoryMaxTokens
  BY <1>1, TrimmedFits
<1>3. Retrieved(kept)
  BY TrimmedIsRetrieved
<1>4. WithContext(m, s) = [m EXCEPT !.chunks = kept, !.totalTokens = Tokens(kept)]
  BY DEF WithContext
<1> HIDE DEF kept
<1>5. m \in Memories /\ Len(m.loaded) <= MaxLoadedDocuments /\ IsInjective(m.loaded)
  BY DEF Good, Whole
<1> DEFINE n == WithContext(m, s)
<1>6. n \in Memories /\ n.loaded = m.loaded /\ n.chunks = kept /\ n.totalTokens = Tokens(kept)
  BY <1>2, <1>4, <1>5 DEF Memories
<1> HIDE DEF n
<1>7. Good(n)
  BY <1>2, <1>3, <1>5, <1>6 DEF Good, Whole
<1> QED BY <1>7 DEF n

\* LoadDocument keeps within the limit of loaded documents, and loads none twice.
LEMMA WithDocumentIsGood ==
    ASSUME NEW m, Good(m), NEW d \in Documents
    PROVE  Good(WithDocument(m, d))
<1> DEFINE l == m.loaded
           rest == IF Len(l) >= MaxLoadedDocuments THEN Tail(l) ELSE l
           n == [m EXCEPT !.loaded = Append(rest, d)]
<1>1. /\ m \in Memories /\ l \in Seq(Documents)
      /\ Len(l) \in Nat /\ Len(l) <= MaxLoadedDocuments /\ IsInjective(l)
  BY DEF Good, Whole, Memories
<1>2. CASE d \in ToSet(l)
  BY <1>2 DEF WithDocument
<1>3. CASE d \notin ToSet(l)
  <2>1. WithDocument(m, d) = n
    BY <1>3 DEF WithDocument
  <2>2. \A i \in 1..Len(l) : l[i] # d
    BY <1>1, <1>3 DEF ToSet
  <2>3. \A i, j \in 1..Len(l) : l[i] = l[j] => i = j
    BY <1>1 DEF IsInjective
  <2> HIDE DEF l
  <2>4. PICK shift \in {0, 1} :
          /\ rest \in Seq(Documents) /\ Len(rest) \in Nat
          /\ Len(rest) = Len(l) - shift /\ Len(rest) + 1 <= MaxLoadedDocuments
          /\ \A i \in 1..Len(rest) : i + shift \in 1..Len(l) /\ rest[i] = l[i + shift]
    <3>1. CASE Len(l) >= MaxLoadedDocuments
      <4>1. Len(l) >= 1 /\ l # <<>>
        BY <1>1, <3>1, LimitsAssumption
      <4>2. /\ Tail(l) \in Seq(Documents) /\ Len(Tail(l)) = Len(l) - 1
            /\ \A i \in 1..Len(Tail(l)) : i + 1 \in 1..Len(l) /\ Tail(l)[i] = l[i + 1]
        BY <1>1, <4>1
      <4>3. rest = Tail(l)
        BY <3>1
      <4> HIDE DEF rest
      <4>4. Len(rest) = Len(l) - 1 /\ Len(rest) \in Nat /\ Len(rest) + 1 <= MaxLoadedDocuments
        BY <1>1, <4>1, <4>2, <4>3, LimitsAssumption
      <4>5. /\ rest \in Seq(Documents)
            /\ \A i \in 1..Len(rest) : i + 1 \in 1..Len(l) /\ rest[i] = l[i + 1]
        BY <4>2, <4>3
      <4> QED BY <4>4, <4>5
    <3>2. CASE ~(Len(l) >= MaxLoadedDocuments)
      <4>1. rest = l
        BY <3>2
      <4> HIDE DEF rest
      <4> QED BY <1>1, <3>2, <4>1, LimitsAssumption
    <3> QED BY <3>1, <3>2
  <2> HIDE DEF rest
  <2> DEFINE new == Append(rest, d)
  <2>5. /\ new \in Seq(Documents) /\ Len(new) = Len(rest) + 1 /\ new[Len(rest) + 1] = d
        /\ \A i \in 1..Len(rest) : new[i] = rest[i]
    BY <2>4
  <2> HIDE DEF new
  <2>6. \A i, j \in 1..Len(new) : new[i] = new[j] => i = j
    <3> SUFFICES ASSUME NEW i \in 1..Len(new), NEW j \in 1..Len(new), new[i] = new[j]
                 PROVE  i = j
      OBVIOUS
    <3>1. CASE i \in 1..Len(rest) /\ j \in 1..Len(rest)
      <4>1. l[i + shift] = l[j + shift] /\ i + shift \in 1..Len(l) /\ j + shift \in 1..Len(l)
        BY <2>4, <2>5, <3>1
      <4>2. i + shift = j + shift
        BY <2>3, <4>1
      <4> QED BY <4>2
    <3>2. CASE i \in 1..Len(rest) /\ j = Len(rest) + 1
      BY <2>2, <2>4, <2>5, <3>2
    <3>3. CASE i = Len(rest) + 1 /\ j \in 1..Len(rest)
      BY <2>2, <2>4, <2>5, <3>3
    <3>4. CASE i = Len(rest) + 1 /\ j = Len(rest) + 1
      BY <3>4
    <3>5. /\ i \in 1..Len(rest) \/ i = Len(rest) + 1
          /\ j \in 1..Len(rest) \/ j = Len(rest) + 1
      <4>1. Len(rest) \in Nat /\ i \in 1..(Len(rest) + 1) /\ j \in 1..(Len(rest) + 1)
        BY <2>4, <2>5
      <4> QED BY <4>1
    <3> QED BY <3>1, <3>2, <3>3, <3>4, <3>5
  <2>7. IsInjective(new)
    BY <2>5, <2>6 DEF IsInjective
  <2>8. /\ n \in Memories /\ n.loaded = new
        /\ n.chunks = m.chunks /\ n.totalTokens = m.totalTokens
    BY <1>1, <2>5 DEF new, Memories
  <2> HIDE DEF n
  <2>9. Good(n)
    BY <2>4, <2>5, <2>7, <2>8 DEF Good, Whole
  <2> QED BY <2>1, <2>9
<1> QED BY <1>2, <1>3

\* UnloadDocument leaves the total of what is left, and what is left is still of the
\* retrieval there was.
LEMMA WithoutDocumentIsGood ==
    ASSUME NEW m, Good(m), NEW d \in Documents
    PROVE  Good(WithoutDocument(m, d))
<1> DEFINE kept == KeepIn(m.chunks, ChunksOutside({d}))
           left == KeepIn(m.loaded, Documents \ {d})
           n == WithoutDocument(m, d)
<1>1. /\ m.loaded \in Seq(Documents) /\ m.chunks \in Seq(Chunks)
      /\ Len(m.loaded) <= MaxLoadedDocuments /\ IsInjective(m.loaded)
      /\ Tokens(m.chunks) <= WorkingMemoryMaxTokens
      /\ Retrieved(m.chunks)
  BY DEF Good, Whole, Memories
<1>2. /\ left \in Seq(Documents) /\ Len(left) <= Len(m.loaded)
  BY <1>1, KeepShrinks
<1>3. IsInjective(left)
  BY <1>1, KeepOnce
<1>4. kept \in Seq(Chunks) /\ Tokens(kept) <= Tokens(m.chunks)
  BY <1>1, ChunksAssumption, KeepShrinks DEF Tokens
<1>5. Tokens(kept) \in Nat /\ Tokens(m.chunks) \in Nat
  BY <1>1, <1>4, ChunksAssumption, SumIsNat DEF Tokens
<1>6. Retrieved(kept)
  <2>1. PICK s \in ContextLists \cup {<<>>}, D \in SUBSET Documents :
          m.chunks = KeepIn(trimChunks(s), ChunksOutside(D))
    BY <1>1 DEF Retrieved
  <2> DEFINE t == trimChunks(s)
             T == ChunksOutside(D)
             U == ChunksOutside({d})
  <2>2. s \in Seq(Chunks)
    <3>1. <<>> \in Seq(Chunks)
      OBVIOUS
    <3> QED BY <3>1, ChunksAssumption
  <2>3. t \in Seq(Chunks)
    BY <2>2, TrimmedFits
  <2>4. T \cap U = ChunksOutside(D \cup {d})
    BY DEF ChunksOutside
  <2>5. m.chunks = KeepIn(t, T) /\ kept = KeepIn(m.chunks, U)
    BY <2>1
  <2>6. kept = KeepIn(t, ChunksOutside(D \cup {d}))
    <3> HIDE DEF t, T, U, kept
    <3>1. KeepIn(KeepIn(t, T), U) = KeepIn(t, T \cap U)
      BY <2>3, KeepTwice
    <3> QED BY <2>4, <2>5, <3>1
  <2>7. D \cup {d} \in SUBSET Documents
    OBVIOUS
  <2> HIDE DEF kept
  <2> QED BY <2>6, <2>7 DEF Retrieved
<1>7. n = [loaded |-> left, chunks |-> kept, totalTokens |-> Tokens(kept)]
  BY DEF WithoutDocument
<1> HIDE DEF kept, left, n
<1>8. n \in Memories /\ n.loaded = left /\ n.chunks = kept /\ n.totalTokens = Tokens(kept)
  BY <1>2, <1>4, <1>5, <1>7 DEF Memories
<1>9. Len(left) \in Nat /\ Len(m.loaded) \in Nat
  BY <1>1, <1>2
<1>10. Good(n)
  BY <1>1, <1>2, <1>3, <1>4, <1>5, <1>6, <1>8, <1>9, LimitsAssumption DEF Good, Whole
<1> QED BY <1>10 DEF n

-----------------------------------------------------------------------------
(* GetFormattedMemory *)

\* What it includes of the long-term memory is a part of what was found.
LEMMA IncludedAreEntries ==
    ASSUME NEW s \in Seq(Nat)
    PROVE  IncludedEntries(s) \in Seq(Nat)
<1> DEFINE S == {k \in 0..Len(s) : \A j \in 0..k : WeightTo(s, j) <= LongTermBudget}
           m == Max(S)
<1>1. WeightTo(s, 0) = 0
  <2>1. SubSeq(s, 1, 0) = <<>> /\ TokenCount \in [Nat -> Nat]
    BY DEF TokenCount
  <2> QED BY <2>1, SumEmpty DEF WeightTo
<1>2. LongTermBudget \in Nat /\ Len(s) \in Nat
  BY LimitsAssumption DEF LongTermBudget
<1>3. 0 \in S
  <2>1. \A j \in 0..0 : j = 0
    OBVIOUS
  <2> QED BY <1>1, <1>2, <2>1
<1>4. S \in SUBSET (0..Len(s)) /\ S # {}
  BY <1>3
<1>5. m \in 0..Len(s)
  <2> HIDE DEF S
  <2> QED BY <1>2, <1>4, BoundedMax
<1>6. IncludedEntries(s) = SubSeq(s, 1, m)
  BY DEF IncludedEntries
<1> HIDE DEF m
<1> QED BY <1>5, <1>6

-----------------------------------------------------------------------------
(* The invariant *)

\* It holds at the start: there is nothing.
LEMMA WorkingInit == Init => WorkingInv
<1> SUFFICES ASSUME Init PROVE WorkingInv
  OBVIOUS
<1>1. Good(EmptyMemory) /\ EmptyMemory \in Memories
  BY EmptyIsGood DEF Good, Whole
<1>2. TypeOK
  <2>1. <<>> \in Seq(Chunks) /\ <<>> \in Seq(Nat)
    OBVIOUS
  <2> QED BY <1>1, <2>1, LimitsAssumption DEF Init, TypeOK
<1>3. WorkingWithinShare
  <2>1. prompt.chunks = <<>>
    BY DEF Init
  <2>2. Tokens(<<>>) = 0
    BY ChunksAssumption, SumEmpty DEF Tokens
  <2>3. WorkingBudget \in Nat
    BY LimitsAssumption DEF WorkingBudget
  <2> QED BY <2>1, <2>2, <2>3 DEF WorkingWithinShare
<1>4. memory = EmptyMemory /\ \A c \in Callers : copy[c] = EmptyMemory
  BY DEF Init
<1> QED BY <1>1, <1>2, <1>3, <1>4 DEF WorkingInv

\* An operation that begins with a good copy leaves all as it must be.
LEMMA BeginKeeps ==
    ASSUME WorkingInv, NEW c \in Callers, NEW o \in {"idle", "saving", "storing"},
           NEW m, Good(m), NEW t \in 0..WorkingMemoryTTL, Begin(c, o, m, t)
    PROVE  WorkingInv'
<1>1. m \in Memories
  BY DEF Good, Whole
<1>2. TypeOK'
  <2>1. TypeOK
    BY DEF WorkingInv
  <2>2. /\ UNCHANGED <<memory, life, prompt>> /\ ops < MaxOps /\ ops' = ops + 1
        /\ Turn(c, o, m, t) \/ UNCHANGED callVars
    BY DEF Begin
  <2>3. ops' \in 0..MaxOps
    BY <2>1, <2>2, LimitsAssumption DEF TypeOK
  <2>4. /\ op' \in [Callers -> {"idle", "saving", "storing"}]
        /\ copy' \in [Callers -> Memories]
        /\ ttl' \in [Callers -> 0..WorkingMemoryTTL]
    <3>1. CASE Turn(c, o, m, t)
      BY <1>1, <2>1, <3>1 DEF TypeOK, Turn
    <3>2. CASE UNCHANGED callVars
      BY <2>1, <3>2 DEF TypeOK, callVars
    <3> QED BY <2>2, <3>1, <3>2
  <2> QED BY <2>1, <2>2, <2>3, <2>4 DEF TypeOK, Memories
<1>3. memory' = memory /\ prompt' = prompt /\ \A k \in Callers : copy'[k] \in {copy[k], m}
  BY DEF WorkingInv, TypeOK, Begin, Turn, callVars
<1>4. \A k \in Callers : Good(copy'[k])
  BY <1>3 DEF WorkingInv
<1>5. Good(memory') /\ WorkingWithinShare'
  BY <1>3 DEF WorkingInv, WorkingWithinShare
<1>6. (\A k \in Callers : Good(copy[k]))' <=> \A k \in Callers : Good(copy'[k])
  BY DEF Good, Whole, Retrieved
<1>7. Good(memory)' <=> Good(memory')
  BY DEF Good, Whole, Retrieved
<1> QED BY <1>2, <1>4, <1>5, <1>6, <1>7 DEF WorkingInv

\* Every step keeps it.
LEMMA WorkingNext == WorkingInv /\ [Next]_vars => WorkingInv'
<1> SUFFICES ASSUME WorkingInv, [Next]_vars PROVE WorkingInv'
  OBVIOUS
<1>1. TypeOK /\ Good(memory) /\ (\A c \in Callers : Good(copy[c])) /\ WorkingWithinShare
  BY DEF WorkingInv
<1>2. Good(EmptyMemory) /\ EmptyMemory \in Memories
  BY EmptyIsGood DEF Good, Whole
<1> DEFINE Parts == /\ TypeOK'
                    /\ Good(memory')
                    /\ \A c \in Callers : Good(copy'[c])
                    /\ Tokens(prompt'.chunks) <= WorkingBudget
<1>3. Parts => WorkingInv'
  BY DEF WorkingInv, Good, Whole, Retrieved, WorkingWithinShare
<1>4. WorkingMemoryTTL \in 0..WorkingMemoryTTL /\ 0 \in 0..WorkingMemoryTTL
  BY LimitsAssumption
<1>5. ASSUME NEW c \in Callers, SetDocumentContext(c) PROVE WorkingInv'
  <2>1. PICK s \in ContextLists :
          Begin(c, "storing", WithContext(memory, s), WorkingMemoryTTL)
    BY <1>5 DEF SetDocumentContext
  <2>2. Good(WithContext(memory, s))
    BY <1>1, WithContextIsGood
  <2> QED BY <1>4, <2>1, <2>2, BeginKeeps
<1>6. ASSUME NEW c \in Callers, LoadDocument(c) PROVE WorkingInv'
  <2>1. PICK d \in Documents : Begin(c, "saving", WithDocument(memory, d), 0)
    BY <1>6 DEF LoadDocument
  <2>2. Good(WithDocument(memory, d))
    BY <1>1, WithDocumentIsGood
  <2> QED BY <1>4, <2>1, <2>2, BeginKeeps
<1>7. ASSUME NEW c \in Callers, UnloadDocument(c) PROVE WorkingInv'
  <2>1. PICK d \in ToSet(memory.loaded) : Begin(c, "saving", WithoutDocument(memory, d), 0)
    BY <1>7 DEF UnloadDocument
  <2>2. d \in Documents
    BY <1>1 DEF Good, Whole, Memories, ToSet
  <2>3. Good(WithoutDocument(memory, d))
    BY <1>1, <2>2, WithoutDocumentIsGood
  <2> QED BY <1>4, <2>1, <2>3, BeginKeeps
<1>8. ASSUME NEW c \in Callers, UpdateLastQuery(c) PROVE WorkingInv'
  <2>1. Begin(c, "saving", memory, 0)
    BY <1>8 DEF UpdateLastQuery
  <2> QED BY <1>1, <1>4, <2>1, BeginKeeps
<1>9. ASSUME NEW c \in Callers, ReadTTL(c) PROVE WorkingInv'
  <2>1. PICK t \in TTLAnswers : Turn(c, "storing", copy[c], Kept(t))
    BY <1>9 DEF ReadTTL
  <2>2. Kept(t) \in 0..WorkingMemoryTTL
    BY <1>1, <1>4 DEF TypeOK, TTLAnswers, Kept
  <2>3. UNCHANGED <<memory, life, ops, prompt>>
    BY <1>9 DEF ReadTTL
  <2>4. copy' = copy
    BY <1>1, <2>1 DEF TypeOK, Turn
  <2>5. TypeOK'
    BY <1>1, <2>1, <2>2, <2>3, <2>4 DEF TypeOK, Turn
  <2> QED BY <1>1, <1>3, <2>3, <2>4, <2>5 DEF WorkingWithinShare
<1>10. ASSUME NEW c \in Callers, Store(c) PROVE WorkingInv'
  <2>1. Turn(c, "idle", EmptyMemory, 0) /\ UNCHANGED <<ops, prompt>>
    BY <1>10 DEF Store
  <2>2. (memory' = copy[c] /\ life' = ttl[c]) \/ UNCHANGED <<memory, life>>
    BY <1>10 DEF Store
  <2>3. Good(memory') /\ memory' \in Memories /\ life' \in 0..WorkingMemoryTTL
    BY <1>1, <2>2 DEF TypeOK
  <2>4. \A k \in Callers : copy'[k] \in {copy[k], EmptyMemory}
    BY <1>1, <2>1 DEF TypeOK, Turn
  <2>5. TypeOK'
    BY <1>1, <1>2, <1>4, <2>1, <2>3 DEF TypeOK, Turn
  <2> QED BY <1>1, <1>2, <1>3, <2>1, <2>3, <2>4, <2>5 DEF WorkingWithinShare
<1>11. CASE ClearWorkingMemory
  <2>1. memory' = EmptyMemory /\ life' = 0 /\ UNCHANGED <<callVars, ops, prompt>>
    BY <1>11 DEF ClearWorkingMemory
  <2>2. TypeOK'
    BY <1>1, <1>2, <1>4, <2>1 DEF TypeOK, callVars
  <2> QED BY <1>1, <1>2, <1>3, <2>1, <2>2 DEF WorkingWithinShare, callVars
<1>12. CASE Tick
  <2>1. /\ life > 0 /\ life' = life - 1 /\ UNCHANGED <<callVars, ops, prompt>>
        /\ memory' = memory \/ memory' = EmptyMemory
    BY <1>12 DEF Tick
  <2>2. TypeOK'
    BY <1>1, <1>2, <2>1, LimitsAssumption DEF TypeOK, callVars
  <2> QED BY <1>1, <1>2, <1>3, <2>1, <2>2 DEF WorkingWithinShare, callVars
<1>13. CASE GetFormattedMemory
  <2>1. PICK chunks \in {<<>>, FormatForContext(memory)},
             found \in LongTermResults \cup {<<>>} :
               prompt' = [chunks |-> chunks, entries |-> IncludedEntries(found)]
    BY <1>13 DEF GetFormattedMemory
  <2>2. ops < MaxOps /\ ops' = ops + 1 /\ UNCHANGED <<memory, life, callVars>>
    BY <1>13 DEF GetFormattedMemory
  <2>3. chunks \in Seq(Chunks) /\ Tokens(chunks) <= WorkingBudget
    <3>1. CASE chunks = <<>>
      <4>1. Tokens(<<>>) = 0
        BY ChunksAssumption, SumEmpty DEF Tokens
      <4>2. WorkingBudget \in Nat
        BY LimitsAssumption DEF WorkingBudget
      <4> QED BY <3>1, <4>1, <4>2
    <3>2. CASE chunks # <<>>
      BY <1>1, <2>1, <3>2 DEF FormatForContext, Good, Whole, Memories
    <3> QED BY <3>1, <3>2
  <2>4. IncludedEntries(found) \in Seq(Nat)
    <3>1. found \in Seq(Nat)
      <4>1. <<>> \in Seq(Nat)
        OBVIOUS
      <4> QED BY <4>1, LimitsAssumption
    <3> QED BY <3>1, IncludedAreEntries
  <2>5. prompt' \in [chunks : Seq(Chunks), entries : Seq(Nat)] /\ prompt'.chunks = chunks
    BY <2>1, <2>3, <2>4
  <2>6. ops' \in 0..MaxOps
    BY <1>1, <2>2, LimitsAssumption DEF TypeOK
  <2>7. TypeOK'
    BY <1>1, <2>2, <2>5, <2>6 DEF TypeOK, callVars
  <2> QED BY <1>1, <1>3, <2>2, <2>3, <2>5, <2>7 DEF callVars
<1>14. CASE UNCHANGED vars
  <2>1. TypeOK'
    BY <1>1, <1>14 DEF TypeOK, vars, callVars
  <2> QED BY <1>1, <1>3, <1>14, <2>1 DEF WorkingWithinShare, vars, callVars
<1> QED BY <1>5, <1>6, <1>7, <1>8, <1>9, <1>10, <1>11, <1>12, <1>13, <1>14 DEF Next, Call

\* All along.
LEMMA WorkingAlways == Spec => []WorkingInv
  BY WorkingInit, WorkingNext, PTL DEF Spec

\* Whoever stores last, and from however stale a copy, the memory is whole: a total
\* that is the tokens of its chunks, within the limit, and loaded documents within
\* theirs, none twice (saveMemory, with all that may come between its GET and SET).
THEOREM MemoryStaysWhole == Spec => []MemoryIsWhole
<1>1. WorkingInv => MemoryIsWhole
  BY DEF WorkingInv, Good, Whole, MemoryIsWhole
<1> QED BY <1>1, WorkingAlways, PTL

\* The chunks stored are of one retrieval, never of two that raced: those one
\* SetDocumentContext was given, trimmed, less those of the documents unloaded.
THEOREM RetrievalStaysOne == Spec => []OneRetrieval
<1>1. WorkingInv => OneRetrieval
  BY DEF WorkingInv, Good, Retrieved, OneRetrieval
<1> QED BY <1>1, WorkingAlways, PTL

\* A prompt has no more of the working memory than its share of the budget, although
\* FormatForContext goes by the total that was stored.
THEOREM PromptKeepsShare == Spec => []WorkingWithinShare
<1>1. WorkingInv => WorkingWithinShare
  BY DEF WorkingInv
<1> QED BY <1>1, WorkingAlways, PTL
=============================================================================
