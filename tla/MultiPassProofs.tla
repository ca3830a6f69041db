-------------------------- MODULE MultiPassProofs --------------------------
(***************************************************************************)
(* The segments of MultiPass, for any documents and any configuration.     *)
(* That they cover the documents does not depend on how many tokens they   *)
(* have: wherever a segment is full and however long its overlap is, the   *)
(* next one goes on where it ended.  What they hold, and what is asked     *)
(* about them, is shown after that.                                        *)
(***************************************************************************)
EXTENDS MultiPass, SumsProofs

-----------------------------------------------------------------------------
(* The inductive invariant *)

\* Chunks first to last of the documents.
Intervals == [first : Nat, last : Nat]

\* The type of what the segments are made from.
Shape == /\ docs \in Seq(Nat)
         /\ config.maxPasses \in Nat
         /\ step \in {"segment", "overlap", "asking", "done", "failed", "panicked"}
         /\ next \in 1..(Len(docs) + 1)
         /\ first \in 1..next
         /\ next = 1 \/ first < next
         /\ segments \in Seq(Intervals)

\* Segments follow one another without a gap, from the first chunk on.
Chain(s) == /\ s # <<>> => s[1].first = 1
            /\ \A k \in 1..(Len(s) - 1) : /\ s[k].last < s[k + 1].last
                                          /\ s[k + 1].first <= s[k].last + 1

\* The current segment continues the ones there are.
Continues == step = "segment" =>
                IF segments = <<>> THEN first = 1
                ELSE /\ segments[Len(segments)].last < next - 1
                     /\ first <= segments[Len(segments)].last + 1

\* While the overlap is looked for, the current segment is the last of those there are.
LooksBack == step = "overlap" =>
                /\ next <= Len(docs) /\ back \in first..next
                /\ segments # <<>> /\ segments[Len(segments)] = Current

\* Once passes begin, the segments reach the end or are as many as allowed.
Complete == step \in {"asking", "done"} =>
                \/ Len(segments) = config.maxPasses
                \/ segments[Len(segments)].last = Len(docs)

\* The inductive invariant of the segments as intervals.
IInv == Shape /\ Chain(segments) /\ Continues /\ LooksBack /\ Complete

-----------------------------------------------------------------------------
(* Lemmas *)

\* The end of a sequence of segments.
LEMMA LastSegment ==
    ASSUME NEW s \in Seq(Intervals)
    PROVE  /\ s # <<>> => s[Len(s)] \in Intervals
           /\ \A e \in Intervals : /\ Append(s, e) # <<>>
                                   /\ Append(s, e)[Len(Append(s, e))] = e
<1>1. s # <<>> => Len(s) \in 1..Len(s)
  OBVIOUS
<1>2. ASSUME NEW e \in Intervals
      PROVE  /\ Append(s, e) # <<>>
             /\ Append(s, e)[Len(Append(s, e))] = e
  <2>1. Len(Append(s, e)) = Len(s) + 1 /\ Append(s, e)[Len(s) + 1] = e
    OBVIOUS
  <2> QED BY <2>1
<1> QED BY <1>1, <1>2

\* A segment that continues a chain makes it longer.
LEMMA ChainGrows ==
    ASSUME NEW s \in Seq(Intervals), Chain(s),
           NEW e \in Intervals,
           IF s = <<>> THEN e.first = 1
           ELSE s[Len(s)].last < e.last /\ e.first <= s[Len(s)].last + 1
    PROVE  Append(s, e) \in Seq(Intervals) /\ Chain(Append(s, e))
<1> DEFINE a == Append(s, e)
<1>1. /\ a \in Seq(Intervals)
      /\ Len(a) = Len(s) + 1
      /\ a[Len(s) + 1] = e
      /\ \A k \in 1..Len(s) : a[k] = s[k]
  OBVIOUS
<1>2. a[1].first = 1
  <2>1. CASE s = <<>>
    BY <1>1, <2>1
  <2>2. CASE s # <<>>
    BY <1>1, <2>2 DEF Chain
  <2> QED BY <2>1, <2>2
<1>3. ASSUME NEW k \in 1..(Len(a) - 1)
      PROVE  a[k].last < a[k + 1].last /\ a[k + 1].first <= a[k].last + 1
  <2>1. CASE k < Len(s)
    BY <1>1, <2>1 DEF Chain
  <2>2. CASE k = Len(s)
    BY <1>1, <2>2
  <2> QED BY <1>1, <2>1, <2>2
<1> QED BY <1>1, <1>2, <1>3 DEF Chain

\* The first segments of a chain are a chain.
LEMMA ChainCut ==
    ASSUME NEW s \in Seq(Intervals), Chain(s), NEW n \in Nat, n <= Len(s)
    PROVE  /\ SubSeq(s, 1, n) \in Seq(Intervals)
           /\ Len(SubSeq(s, 1, n)) = n
           /\ Chain(SubSeq(s, 1, n))
<1> DEFINE c == SubSeq(s, 1, n)
<1>1. c \in Seq(Intervals) /\ Len(c) = n /\ \A k \in 1..n : c[k] = s[k]
  OBVIOUS
<1>2. c # <<>> => c[1].first = 1
  BY <1>1 DEF Chain
<1>3. \A k \in 1..(Len(c) - 1) : c[k].last < c[k + 1].last /\ c[k + 1].first <= c[k].last + 1
  BY <1>1 DEF Chain
<1> QED BY <1>1, <1>2, <1>3 DEF Chain

-----------------------------------------------------------------------------
(* The invariant holds *)

\* No document and no segment at first.
LEMMA IInvInit == Init => IInv
  BY DocumentsAssumption, ConfigsAssumption
  DEF Init, IInv, Shape, Chain, Continues, LooksBack, Complete, Intervals

\* Every step keeps the segments a chain from the first chunk on.
LEMMA IInvNext == IInv /\ [Next]_vars => IInv'
<1> SUFFICES ASSUME IInv, [Next]_vars PROVE IInv'
  OBVIOUS
<1> USE DEF IInv
<1>1. ASSUME step = "segment" PROVE Current \in Intervals \/ next = 1
  BY DEF Shape, Current, Intervals
<1>2. CASE AddChunk
  <2>1. /\ next' = next + 1 /\ next' \in 1..(Len(docs) + 1) /\ step = "segment"
        /\ UNCHANGED <<docs, config, step, first, segments>>
    BY <1>2 DEF AddChunk, Shape
  <2>2. Shape'
    BY <2>1 DEF Shape
  <2>3. Continues'
    <3>1. CASE segments = <<>>
      BY <2>1, <3>1 DEF Continues
    <3>2. CASE segments # <<>>
      <4>1. segments[Len(segments)].last \in Nat
        BY <3>2, LastSegment DEF Shape, Intervals
      <4>2. segments[Len(segments)].last < next /\ first <= segments[Len(segments)].last + 1
        BY <2>1, <3>2, <4>1 DEF Continues, Shape
      <4> QED BY <2>1, <3>2, <4>2 DEF Continues, Shape
    <3> QED BY <3>1, <3>2
  <2> QED BY <2>1, <2>2, <2>3 DEF LooksBack, Complete
<1>3. CASE EndSegment
  <2>1. /\ step = "segment" /\ step' = "overlap" /\ next <= Len(docs) /\ first < next
        /\ segments' = Append(segments, Current) /\ back' = next
        /\ UNCHANGED <<docs, config, first, next>>
    BY <1>3 DEF EndSegment, IsFull, current
  <2>2. Current \in Intervals /\ Current.first = first /\ Current.last = next - 1
    BY <1>1, <2>1 DEF Current, Shape
  <2>3. segments' \in Seq(Intervals) /\ Chain(segments')
    BY <2>1, <2>2, ChainGrows DEF Continues, Shape
  <2>4. segments' # <<>> /\ segments'[Len(segments')] = Current
    BY <2>1, <2>2, LastSegment DEF Shape
  <2>5. Shape'
    BY <2>1, <2>3 DEF Shape
  <2>6. LooksBack'
    BY <2>1, <2>4 DEF LooksBack, Shape, Current
  <2> QED BY <2>1, <2>3, <2>5, <2>6 DEF Continues, Complete
<1>4. CASE getOverlapChunks
  <2>1. /\ step = "overlap" /\ back > first /\ back' = back - 1
        /\ UNCHANGED <<docs, config, step, first, next, segments>>
    BY <1>4 DEF getOverlapChunks, GoesBack, current
  <2>2. next <= Len(docs) /\ back \in first..next /\ first \in 1..next /\ next \in 1..(Len(docs) + 1)
        /\ segments # <<>> /\ segments[Len(segments)] = Current
    BY <2>1 DEF LooksBack, Shape
  <2>3. back' \in first..next /\ Current' = Current
    BY <2>1, <2>2 DEF Current
  <2>4. LooksBack'
    BY <2>1, <2>2, <2>3 DEF LooksBack
  <2> QED BY <2>1, <2>4 DEF Shape, Continues, Complete
<1>5. CASE StartSegment
  <2>1. /\ step = "overlap" /\ step' = "segment" /\ first' = back /\ next' = next + 1
        /\ next <= Len(docs) /\ back \in first..next
        /\ segments # <<>> /\ segments[Len(segments)] = Current
        /\ UNCHANGED <<docs, config, segments>>
    BY <1>5 DEF StartSegment, LooksBack
  <2>2. Shape'
    BY <2>1 DEF Shape
  <2>3. Continues'
    BY <2>1 DEF Continues, Current, Shape
  <2> QED BY <2>1, <2>2, <2>3 DEF LooksBack, Complete
<1>6. CASE EndSegments
  <2>1. /\ step = "segment" /\ next = Len(docs) + 1
        /\ step' \in {"failed", "panicked", "asking"}
        /\ UNCHANGED <<docs, config, first, next>>
    BY <1>6 DEF EndSegments, current, Shape
  <2>2. WithRest \in Seq(Intervals) /\ Chain(WithRest)
    <3>1. CASE first < next
      <4>1. Current \in Intervals /\ Current.first = first /\ Current.last = next - 1
        BY <1>1, <2>1, <3>1 DEF Current, Shape
      <4> QED BY <2>1, <3>1, <4>1, ChainGrows DEF WithRest, Continues, Shape
    <3>2. CASE ~(first < next)
      BY <3>2 DEF WithRest, Shape
    <3> QED BY <3>1, <3>2
  <2>3. WithRest # <<>> => WithRest[Len(WithRest)].last = Len(docs)
    <3>1. CASE first < next
      BY <2>1, <3>1 DEF WithRest, Current, Shape
    <3>2. CASE ~(first < next)
      \* Then there is no chunk at all, and no segment either.
      <4>1. next = 1 /\ WithRest = segments
        BY <3>2 DEF WithRest, Shape
      <4>2. segments = <<>>
        <5>1. ASSUME segments # <<>> PROVE FALSE
          <6>1. segments[Len(segments)].last \in Nat
            BY <5>1, LastSegment DEF Shape, Intervals
          <6> QED BY <2>1, <4>1, <5>1, <6>1 DEF Continues
        <5> QED BY <5>1
      <4> QED BY <4>1, <4>2
    <3> QED BY <3>1, <3>2
  <2>4. CASE Len(WithRest) > config.maxPasses
    <3>1. segments' = SubSeq(WithRest, 1, config.maxPasses)
      BY <1>6, <2>4 DEF EndSegments
    <3>2. segments' \in Seq(Intervals) /\ Len(segments') = config.maxPasses /\ Chain(segments')
      BY <2>2, <2>4, <3>1, ChainCut DEF Shape
    <3> QED BY <2>1, <3>2 DEF Shape, Continues, LooksBack, Complete
  <2>5. CASE ~(Len(WithRest) > config.maxPasses)
    <3>1. segments' = WithRest /\ (step' = "asking" => WithRest # <<>>)
      BY <1>6, <2>5 DEF EndSegments
    <3> QED BY <2>1, <2>2, <2>3, <3>1 DEF Shape, Continues, LooksBack, Complete
  <2> QED BY <2>4, <2>5
<1>7. CASE Pass \/ aggregateResults
  <2>1. /\ step = "asking" /\ step' \in {"asking", "done", "failed"}
        /\ UNCHANGED <<docs, config, first, next, segments>>
    BY <1>7 DEF Pass, aggregateResults, current
  <2> QED BY <2>1 DEF Shape, Continues, LooksBack, Complete
<1>8. CASE UNCHANGED vars
  BY <1>8 DEF vars, current, overlap, Shape, Continues, LooksBack, Complete, Current
<1> QED BY <1>2, <1>3, <1>4, <1>5, <1>6, <1>7, <1>8 DEF Next, segmentDocuments

-----------------------------------------------------------------------------
\* The segments of segmentDocuments cover the documents, as far as MaxPasses allows,
\* without a gap and each beyond the one before.
THEOREM SegmentsCover == Spec => []Covers
<1>1. IInv => Covers
  BY DEF IInv, Chain, Complete, Covers
<1> QED BY <1>1, IInvInit, IInvNext, PTL DEF Spec

-----------------------------------------------------------------------------
(* What the segments hold *)

\* Tokens, Full and the rest of the properties, of any documents and segments: a
\* segment e whose next chunk does not fit; one that is over its size only by its
\* last chunk, the first after those of the segment before, which ended with chunk
\* b; and a segment f that repeats enough of the end of e, and no more.
TokensOf(d, from, to) == SumOf(SubSeq(d, from, to), [n \in Nat |-> n])

\* The next chunk would not have fitted into segment e.
Full(e, d, c) == TokensOf(d, e.first, e.last) + d[e.last + 1] > c.segmentSize

\* Only the first chunk after b, the last one of the segment before, may be too big.
Tight(e, b, d, c) == TokensOf(d, e.first, e.last) > c.segmentSize => e.last = 1 + b

\* Segment f repeats enough of the end of e, or all of it, and without the first of
\* the chunks it repeats it would not be enough.
Repeats(e, f, d, c) ==
    /\ f.first = e.first \/ TokensOf(d, f.first, e.last) >= c.overlapTokens
    /\ f.first <= e.last => TokensOf(d, f.first + 1, e.last) < c.overlapTokens

\* The last chunk of the segment before the k-th.
Before(s, k) == IF k = 1 THEN 0 ELSE s[k - 1].last

\* What holds of every segment and the one before it.
Packed(s, d, c) ==
    /\ \A k \in 1..(Len(s) - 1) : Full(s[k], d, c) /\ Repeats(s[k], s[k + 1], d, c)
    /\ \A k \in 1..Len(s) : Tight(s[k], Before(s, k), d, c)

\* The intervals within documents d.
Inside(d) == [first : 1..Len(d), last : 1..Len(d)]

\* A chunk at the end of an interval adds its tokens, and no chunks have none.
LEMMA TokensAdd ==
    ASSUME NEW d \in Seq(Nat), NEW i \in 1..(Len(d) + 1), NEW j \in i..(Len(d) + 1)
    PROVE  /\ TokensOf(d, i, j - 1) \in Nat
           /\ j <= Len(d) => TokensOf(d, i, j) = TokensOf(d, i, j - 1) + d[j]
           /\ TokensOf(d, i, i - 1) = 0
<1> DEFINE id == [n \in Nat |-> n]
<1>1. id \in [Nat -> Nat] /\ \A n \in Nat : id[n] = n
  OBVIOUS
<1> HIDE DEF id
<1>2. /\ SumOf(SubSeq(d, i, j - 1), id) \in Nat
      /\ j <= Len(d) => SumOf(SubSeq(d, i, j), id)
                          = SumOf(SubSeq(d, i, j - 1), id) + id[d[j]]
      /\ SumOf(SubSeq(d, i, i - 1), id) = 0
  BY <1>1, SumOfRangeGrows
<1>3. j <= Len(d) => d[j] \in Nat /\ id[d[j]] = d[j]
  BY <1>1
<1> QED BY <1>2, <1>3 DEF TokensOf, id

\* One more chunk at the start of an interval adds its tokens too.
LEMMA TokensBack ==
    ASSUME NEW d \in Seq(Nat), NEW i \in 2..(Len(d) + 1), NEW j \in i..(Len(d) + 1)
    PROVE  /\ TokensOf(d, i - 1, j - 1) = TokensOf(d, i, j - 1) + d[i - 1]
           /\ d[i - 1] \in Nat
<1> DEFINE id == [n \in Nat |-> n]
<1>1. id \in [Nat -> Nat] /\ \A n \in Nat : id[n] = n
  OBVIOUS
<1> HIDE DEF id
<1>2. PICK h : Partial(d, id, h)
  BY <1>1, SumIsPartial
<1>3. j - 1 \in (i - 1)..Len(d) /\ i \in 1..(Len(d) + 1)
  OBVIOUS
<1>4. /\ SumOf(SubSeq(d, i, j - 1), id) = h[j - 1] - h[i - 1]
      /\ h[j - 1] \in Nat /\ h[i - 1] \in Nat
  BY <1>1, <1>2, <1>3, SumOfRange
<1> DEFINE m == i - 1
<1>5. /\ m \in 1..Len(d) /\ d[m] \in Nat /\ m + 1 = i
      /\ i \in 1..(Len(d) + 1) /\ m \in 1..(Len(d) + 1)
      /\ j - 1 \in m..Len(d) /\ j - 1 \in (m - 1)..Len(d)
  OBVIOUS
<1>6. i - 1 = m
  OBVIOUS
<1> HIDE DEF m
<1>7. h[m] = h[m - 1] + d[m] /\ d[m] \in Nat
  <2>1. h[m] = h[m - 1] + id[d[m]]
    BY <1>2, <1>5 DEF Partial
  <2>2. id[d[m]] = d[m]
    BY <1>1, <1>5
  <2> QED BY <1>5, <2>1, <2>2
<1>8. /\ SumOf(SubSeq(d, i, j - 1), id) = h[j - 1] - h[m]
      /\ h[j - 1] \in Nat /\ h[m] \in Nat
  BY <1>4, <1>6
<1>9. /\ SumOf(SubSeq(d, m, j - 1), id) = h[j - 1] - h[m - 1]
      /\ h[m - 1] \in Nat
  <2>1. m \in 1..(Len(d) + 1) /\ j - 1 \in (m - 1)..Len(d)
    BY <1>5
  <2> QED BY <1>1, <1>2, <2>1, SumOfRange
<1>10. SumOf(SubSeq(d, m, j - 1), id) = SumOf(SubSeq(d, i, j - 1), id) + d[m]
  <2> DEFINE longer == SumOf(SubSeq(d, m, j - 1), id)
             shorter == SumOf(SubSeq(d, i, j - 1), id)
             n == j - 1
             p == m - 1
  <2>1. longer = h[n] - h[p] /\ shorter = h[n] - h[m] /\ h[m] = h[p] + d[m]
    BY <1>7, <1>8, <1>9
  <2>2. h[n] \in Nat /\ h[p] \in Nat /\ h[m] \in Nat /\ d[m] \in Nat
    BY <1>7, <1>8, <1>9
  <2> HIDE DEF longer, shorter, n, p
  <2>3. PICK a \in Nat, b \in Nat, c \in Nat, e \in Nat :
           longer = a - b /\ shorter = a - c /\ c = b + e /\ e = d[m]
    BY <2>1, <2>2, Zenon
  <2>4. c = b + e
    BY <2>3, Zenon
  <2>5. a - b = (a - c) + e
    BY <2>4
  <2> QED BY <2>3, <2>5, Zenon DEF longer, shorter
<1>11. TokensOf(d, m, j - 1) = TokensOf(d, i, j - 1) + d[m] /\ d[m] \in Nat
  BY <1>5, <1>10 DEF TokensOf, id
<1> QED BY <1>11 DEF m

\* A segment that goes on from the last one as it should keeps them packed.
LEMMA PackedGrows ==
    ASSUME NEW d \in Seq(Nat), NEW c, NEW s \in Seq(Inside(d)), Packed(s, d, c),
           NEW e \in Inside(d),
           s # <<>> => Full(s[Len(s)], d, c) /\ Repeats(s[Len(s)], e, d, c),
           Tight(e, IF s = <<>> THEN 0 ELSE s[Len(s)].last, d, c)
    PROVE  Append(s, e) \in Seq(Inside(d)) /\ Packed(Append(s, e), d, c)
<1> DEFINE a == Append(s, e)
<1>1. /\ a \in Seq(Inside(d)) /\ Len(a) = Len(s) + 1 /\ Len(s) \in Nat
      /\ a[Len(s) + 1] = e /\ \A k \in 1..Len(s) : a[k] = s[k]
  OBVIOUS
<1>2. s = <<>> <=> Len(s) = 0
  OBVIOUS
<1> HIDE DEF a
<1>3. ASSUME NEW k \in 1..(Len(a) - 1)
      PROVE  Full(a[k], d, c) /\ Repeats(a[k], a[k + 1], d, c)
  <2>1. CASE k < Len(s)
    <3>1. k \in 1..(Len(s) - 1) /\ k \in 1..Len(s) /\ k + 1 \in 1..Len(s)
      BY <1>1, <2>1
    <3> QED BY <1>1, <3>1 DEF Packed
  <2>2. CASE k = Len(s)
    BY <1>1, <1>2, <2>2
  <2> QED BY <1>1, <2>1, <2>2
<1>4. ASSUME NEW k \in 1..Len(a) PROVE Tight(a[k], Before(a, k), d, c)
  <2>1. CASE k <= Len(s)
    <3>1. k \in 1..Len(s) /\ (k # 1 => k - 1 \in 1..Len(s))
      BY <1>1, <2>1
    <3>2. Before(a, k) = Before(s, k)
      BY <1>1, <3>1 DEF Before
    <3> QED BY <1>1, <3>1, <3>2 DEF Packed
  <2>2. CASE k = Len(s) + 1
    <3>1. Before(a, k) = IF s = <<>> THEN 0 ELSE s[Len(s)].last
      BY <1>1, <1>2, <2>2 DEF Before
    <3> QED BY <1>1, <2>2, <3>1
  <2> QED BY <1>1, <2>1, <2>2
<1>5. Packed(a, d, c)
  BY <1>3, <1>4 DEF Packed
<1> QED BY <1>1, <1>5 DEF a

\* The first segments of packed ones are packed.
LEMMA PackedCut ==
    ASSUME NEW d, NEW c, NEW s \in Seq(Inside(d)), Packed(s, d, c),
           NEW n \in Nat, n <= Len(s)
    PROVE  SubSeq(s, 1, n) \in Seq(Inside(d)) /\ Packed(SubSeq(s, 1, n), d, c)
<1> DEFINE r == SubSeq(s, 1, n)
<1>1. r \in Seq(Inside(d)) /\ Len(r) = n /\ Len(s) \in Nat /\ \A k \in 1..n : r[k] = s[k]
  OBVIOUS
<1> HIDE DEF r
<1>2. ASSUME NEW k \in 1..(n - 1) PROVE Full(r[k], d, c) /\ Repeats(r[k], r[k + 1], d, c)
  <2>1. k \in 1..(Len(s) - 1) /\ k \in 1..n /\ k + 1 \in 1..n
    BY <1>1
  <2> QED BY <1>1, <2>1 DEF Packed
<1>3. ASSUME NEW k \in 1..n PROVE Tight(r[k], Before(r, k), d, c)
  <2>1. k \in 1..Len(s) /\ (k # 1 => k - 1 \in 1..n)
    BY <1>1
  <2>2. Before(r, k) = Before(s, k)
    BY <1>1, <2>1 DEF Before
  <2> QED BY <1>1, <2>1, <2>2 DEF Packed
<1>4. Packed(r, d, c)
  BY <1>1, <1>2, <1>3 DEF Packed
<1> QED BY <1>1, <1>4 DEF r

\* The last chunk that is in a finished segment.
LastChunk == IF segments = <<>> THEN 0 ELSE segments[Len(segments)].last

\* The current segment follows the last one as the segments follow each other.
Follows == /\ segments # <<>> => /\ Full(segments[Len(segments)], docs, config)
                                 /\ Repeats(segments[Len(segments)], Current, docs, config)
           /\ currentTokens > config.segmentSize => next - 1 = 1 + LastChunk

\* Where the loop of getOverlapChunks stands: the segment it goes back through was
\* full, its tokens are those of the chunks it went over, and before the last of them
\* there were too few.
Loops == /\ Full(Current, docs, config)
         /\ tokens = TokensOf(docs, back, next - 1)
         /\ back < next => TokensOf(docs, back + 1, next - 1) < config.overlapTokens

\* The inductive invariant of what the segments hold.
HeldInv == /\ docs \in Documents /\ config \in Configs
           /\ segments \in Seq(Inside(docs))
           /\ currentTokens = TokensOf(docs, first, next - 1)
           /\ Packed(segments, docs, config)
           /\ tokens \in Nat /\ back \in 1..next
           /\ step = "segment" => Follows
           /\ step = "overlap" => Loops

\* At first there is no segment to pack.
LEMMA HeldInit == Init => HeldInv
<1> SUFFICES ASSUME Init PROVE HeldInv
  OBVIOUS
<1>1. docs \in Seq(Nat) /\ config.segmentSize \in Nat
  BY DocumentsAssumption, ConfigsAssumption DEF Init
<1>2. 1 \in 1..(Len(docs) + 1) /\ 1 \in 1..(Len(docs) + 1)
  BY <1>1
<1>3. TokensOf(docs, 1, 1 - 1) = 0
  BY <1>1, <1>2, TokensAdd
<1>4. Packed(segments, docs, config) /\ segments \in Seq(Inside(docs))
  BY DEF Init, Packed
<1> QED BY <1>1, <1>3, <1>4 DEF Init, HeldInv, Follows, Loops

\* Every step leaves segments full, and with the overlap they should have.
LEMMA HeldNext == IInv /\ HeldInv /\ [Next]_vars => HeldInv'
<1> SUFFICES ASSUME IInv, HeldInv, [Next]_vars PROVE HeldInv'
  OBVIOUS
<1>0. /\ docs \in Documents /\ config \in Configs /\ docs \in Seq(Nat)
      /\ config.segmentSize \in Nat /\ config.maxPasses \in Nat /\ config.overlapTokens \in Nat
      /\ segments \in Seq(Inside(docs)) /\ Packed(segments, docs, config)
      /\ currentTokens = TokensOf(docs, first, next - 1)
      /\ next \in 1..(Len(docs) + 1) /\ first \in 1..next /\ (next = 1 \/ first < next)
  BY DocumentsAssumption, ConfigsAssumption DEF HeldInv, IInv, Shape
<1>1. currentTokens \in Nat
  <2>1. next \in first..(Len(docs) + 1) /\ first \in 1..(Len(docs) + 1)
    BY <1>0
  <2> QED BY <1>0, <2>1, TokensAdd
<1>2. ASSUME step = "segment", first < next
      PROVE  /\ Current \in Inside(docs)
             /\ Append(segments, Current) \in Seq(Inside(docs))
             /\ Packed(Append(segments, Current), docs, config)
  <2>1. Current \in Inside(docs) /\ Current.first = first /\ Current.last = next - 1
    BY <1>0, <1>2 DEF Current, Inside
  <2>2. Tight(Current, LastChunk, docs, config)
    BY <1>0, <1>2, <2>1 DEF HeldInv, Follows, Tight
  <2>3. segments # <<>> => /\ Full(segments[Len(segments)], docs, config)
                           /\ Repeats(segments[Len(segments)], Current, docs, config)
    BY <1>2 DEF HeldInv, Follows
  <2> QED BY <1>0, <2>1, <2>2, <2>3, PackedGrows DEF LastChunk
<1>3. CASE AddChunk
  <2>1. /\ step = "segment" /\ next <= Len(docs) /\ next' = next + 1 /\ next \in 1..Len(docs)
        /\ currentTokens' = currentTokens + docs[next] /\ ~IsFull
        /\ UNCHANGED <<docs, config, step, first, back, tokens, segments>>
    BY <1>0, <1>3 DEF AddChunk, overlap
  <2>2. docs[next] \in Nat
    BY <1>0, <2>1
  <2>3. currentTokens' = TokensOf(docs, first', next' - 1)
    <3>1. next \in first..(Len(docs) + 1) /\ first \in 1..(Len(docs) + 1)
      BY <1>0
    <3>2. TokensOf(docs, first, next) = TokensOf(docs, first, next - 1) + docs[next]
      BY <1>0, <2>1, <3>1, TokensAdd
    <3>3. next' - 1 = next
      BY <1>0, <2>1
    <3> QED BY <1>0, <2>1, <3>2, <3>3
  <2>4. currentTokens' > config.segmentSize => next' - 1 = 1 + LastChunk
    <3> SUFFICES ASSUME currentTokens' > config.segmentSize PROVE next' - 1 = 1 + LastChunk
      OBVIOUS
    \* A chunk that does not fit is added to an empty segment only: it is the first.
    <3>1. next = 1
      BY <1>0, <1>1, <2>1, <2>2 DEF IsFull
    <3>2. segments = <<>>
      <4> SUFFICES ASSUME segments # <<>> PROVE FALSE
        OBVIOUS
      <4>1. Len(segments) \in 1..Len(segments) /\ segments[Len(segments)] \in Inside(docs)
        BY <1>0
      <4>2. segments[Len(segments)].last \in Nat
        BY <1>0, <4>1 DEF Inside
      <4>3. segments[Len(segments)].last < next - 1
        <5>1. Continues
          BY DEF IInv
        <5> QED BY <2>1, <5>1 DEF Continues
      <4> QED BY <3>1, <4>2, <4>3
    <3> QED BY <2>1, <3>1, <3>2 DEF LastChunk
  <2>5. segments # <<>> => /\ Full(segments[Len(segments)], docs, config)
                           /\ Repeats(segments[Len(segments)], Current', docs, config)
    <3>1. Current'.first = Current.first
      BY <2>1 DEF Current
    <3> QED BY <2>1, <3>1 DEF HeldInv, Follows, Repeats
  <2>6. Follows'
    BY <2>1, <2>4, <2>5 DEF Follows, LastChunk
  <2>7. tokens' \in Nat /\ back' \in 1..next'
    BY <1>0, <2>1 DEF HeldInv
  <2> QED BY <1>0, <2>1, <2>3, <2>6, <2>7 DEF HeldInv
<1>4. CASE EndSegment
  <2>1. /\ step = "segment" /\ step' = "overlap" /\ next \in 1..Len(docs)
        /\ first < next /\ currentTokens + docs[next] > config.segmentSize
        /\ segments' = Append(segments, Current) /\ back' = next /\ tokens' = 0
        /\ UNCHANGED <<docs, config, first, next, currentTokens>>
    BY <1>0, <1>4 DEF EndSegment, IsFull, current
  <2>2. segments' \in Seq(Inside(docs)) /\ Packed(segments', docs, config)
    BY <1>2, <2>1
  <2>3. Full(Current, docs, config)
    <3>1. Current.first = first /\ Current.last = next - 1 /\ (next - 1) + 1 = next
      BY <1>0 DEF Current
    <3> QED BY <1>0, <2>1, <3>1 DEF Full
  <2>4. TokensOf(docs, next, next - 1) = 0
    BY <1>0, TokensAdd
  <2>5. Current' = Current
    BY <2>1 DEF Current
  <2>6. Loops'
    BY <1>0, <2>1, <2>3, <2>4, <2>5 DEF Loops
  <2> QED BY <1>0, <2>1, <2>2, <2>6 DEF HeldInv
<1>5. CASE getOverlapChunks
  <2>1. /\ step = "overlap" /\ back > first /\ tokens < config.overlapTokens
        /\ back' = back - 1 /\ tokens' = tokens + docs[back - 1] /\ Loops /\ back \in first..next
        /\ UNCHANGED <<docs, config, step, first, next, currentTokens, segments>>
    BY <1>5 DEF getOverlapChunks, GoesBack, current, HeldInv, IInv, LooksBack
  <2>2. back \in 2..(Len(docs) + 1) /\ next \in back..(Len(docs) + 1)
    BY <1>0, <2>1
  <2>3. /\ TokensOf(docs, back - 1, next - 1) = TokensOf(docs, back, next - 1) + docs[back - 1]
        /\ docs[back - 1] \in Nat
    BY <1>0, <2>2, TokensBack
  <2>4. tokens' = TokensOf(docs, back', next - 1) /\ tokens' \in Nat /\ back' \in 1..next
    <3>1. tokens = TokensOf(docs, back, next - 1) /\ tokens \in Nat
      BY <2>1 DEF Loops, HeldInv
    <3>2. back' \in 1..next
      BY <1>0, <2>1, <2>2
    <3> QED BY <2>1, <2>3, <3>1, <3>2
  <2>5. TokensOf(docs, back' + 1, next - 1) < config.overlapTokens
    <3>1. back' + 1 = back
      BY <2>1, <2>2
    <3> QED BY <2>1, <3>1 DEF Loops
  <2>6. Current' = Current
    BY <2>1 DEF Current
  <2>7. Loops'
    BY <2>1, <2>4, <2>5, <2>6 DEF Loops
  <2> QED BY <1>0, <2>1, <2>4, <2>7 DEF HeldInv
<1>6. CASE StartSegment
  <2>1. /\ step = "overlap" /\ step' = "segment" /\ first' = back /\ next' = next + 1
        /\ ~(back > first /\ tokens < config.overlapTokens)
        /\ currentTokens' = OverlapTokens + docs[next] /\ UNCHANGED <<back, tokens>>
        /\ next \in 1..Len(docs) /\ back \in first..next /\ Loops
        /\ segments # <<>> /\ segments[Len(segments)] = Current
        /\ UNCHANGED <<docs, config, segments>>
    BY <1>0, <1>6 DEF StartSegment, GoesBack, overlap, HeldInv, IInv, LooksBack
  <2>2. currentTokens' = TokensOf(docs, first', next' - 1)
    <3>1. next \in back..(Len(docs) + 1) /\ back \in 1..(Len(docs) + 1)
      BY <1>0, <2>1
    <3>2. TokensOf(docs, back, next) = TokensOf(docs, back, next - 1) + docs[next]
      BY <1>0, <2>1, <3>1, TokensAdd
    <3>3. OverlapTokens = TokensOf(docs, back, next - 1)
      BY DEF OverlapTokens, Tokens, TokensOf
    <3>4. next' - 1 = next
      BY <1>0, <2>1
    <3> QED BY <2>1, <3>2, <3>3, <3>4
  <2>3. Repeats(Current, Current', docs, config)
    <3>1. Current'.first = back /\ Current.first = first /\ Current.last = next - 1
      BY <2>1 DEF Current
    <3>2. back = first \/ TokensOf(docs, back, next - 1) >= config.overlapTokens
      <4>1. tokens = TokensOf(docs, back, next - 1) /\ tokens \in Nat
        BY <2>1 DEF Loops, HeldInv
      <4>2. back \in Nat /\ first \in Nat /\ back >= first
        BY <1>0, <2>1
      <4>3. ~(back > first) \/ ~(tokens < config.overlapTokens)
        BY <2>1
      <4>4. back = first \/ tokens >= config.overlapTokens
        BY <1>0, <4>1, <4>2, <4>3
      <4> QED BY <4>1, <4>4
    <3>3. back <= next - 1 => TokensOf(docs, back + 1, next - 1) < config.overlapTokens
      BY <1>0, <2>1 DEF Loops
    <3> QED BY <3>1, <3>2, <3>3 DEF Repeats
  <2>4. next' - 1 = 1 + LastChunk'
    <3>1. LastChunk' = next - 1
      BY <2>1 DEF LastChunk, Current
    <3> QED BY <1>0, <2>1, <3>1
  <2>5. Follows'
    BY <2>1, <2>3, <2>4 DEF Follows, Loops
  <2>6. tokens' \in Nat /\ back' \in 1..next'
    BY <1>0, <2>1 DEF HeldInv
  <2> QED BY <1>0, <2>1, <2>2, <2>5, <2>6 DEF HeldInv
<1>7. CASE EndSegments
  <2>1. /\ step = "segment" /\ step' \notin {"segment", "overlap"}
        /\ UNCHANGED <<docs, config, first, next, currentTokens, back, tokens>>
        /\ segments' \in {WithRest, SubSeq(WithRest, 1, config.maxPasses)}
        /\ segments' # WithRest => Len(WithRest) > config.maxPasses
    BY <1>7 DEF EndSegments, current, overlap
  <2>2. WithRest \in Seq(Inside(docs)) /\ Packed(WithRest, docs, config)
    BY <1>0, <1>2, <2>1 DEF WithRest
  <2>3. segments' \in Seq(Inside(docs)) /\ Packed(segments', docs, config)
    <3>1. CASE segments' = WithRest
      BY <2>2, <3>1
    <3>2. CASE segments' # WithRest
      <4>1. config.maxPasses <= Len(WithRest) /\ segments' = SubSeq(WithRest, 1, config.maxPasses)
        BY <1>0, <2>1, <2>2, <3>2
      <4> QED BY <1>0, <2>2, <4>1, PackedCut
    <3> QED BY <3>1, <3>2
  <2> QED BY <1>0, <2>1, <2>3 DEF HeldInv
<1>8. CASE Pass \/ aggregateResults
  <2>1. /\ step' \notin {"segment", "overlap"}
        /\ UNCHANGED <<docs, config, first, next, currentTokens, back, tokens, segments>>
    BY <1>8 DEF Pass, aggregateResults, current, overlap
  <2> QED BY <1>0, <2>1 DEF HeldInv
<1>9. CASE UNCHANGED vars
  BY <1>9 DEF vars, current, overlap, HeldInv, Follows, Loops, LastChunk, Current
<1> QED BY <1>3, <1>4, <1>5, <1>6, <1>7, <1>8, <1>9 DEF Next, segmentDocuments

\* The running total is right at any moment, a segment ends only when its next chunk
\* does not fit, and it is over its size only by an overlap and one more chunk.
THEOREM SegmentsPacked == Spec => []SegmentsArePacked
<1>1. HeldInv => SegmentsArePacked
  <2> SUFFICES ASSUME HeldInv PROVE SegmentsArePacked
    OBVIOUS
  <2>1. currentTokens = Tokens(first, next - 1)
    BY DEF HeldInv, TokensOf, Tokens
  <2>2. \A k \in 1..(Len(segments) - 1) :
           Size(segments[k]) + docs[segments[k].last + 1] > config.segmentSize
    BY DEF HeldInv, Packed, Full, TokensOf, Size, Tokens
  <2>3. \A k \in DOMAIN segments :
           Size(segments[k]) > config.segmentSize =>
               segments[k].last = 1 + (IF k = 1 THEN 0 ELSE segments[k - 1].last)
    <3>1. DOMAIN segments = 1..Len(segments)
      BY DEF HeldInv
    <3> QED BY <3>1 DEF HeldInv, Packed, Tight, Before, TokensOf, Size, Tokens
  <2> QED BY <2>1, <2>2, <2>3 DEF SegmentsArePacked
<1> QED BY <1>1, IInvInit, IInvNext, HeldInit, HeldNext, PTL DEF Spec

\* Going back chunk by chunk from the end of a segment, the loop of getOverlapChunks
\* stops where OverlapTokens are reached or the segment begins, and not before or
\* after: that is what the next segment starts with.
THEOREM OverlapKept == Spec => []OverlapIsKept
<1>1. HeldInv => OverlapIsKept
  BY DEF HeldInv, Packed, Repeats, TokensOf, OverlapIsKept, Tokens
<1> QED BY <1>1, IInvInit, IInvNext, HeldInit, HeldNext, PTL DEF Spec

-----------------------------------------------------------------------------
(* The requests *)

\* How many requests a call has sent, wherever it stands.
PassInv ==
    /\ step \in {"segment", "overlap", "panicked"} => answers = 0 /\ requests = 0
    /\ step = "asking" => /\ requests = answers
                          /\ Len(segments) \in 1..config.maxPasses
                          /\ answers \in 0..Len(segments)
    /\ step = "done" => /\ answers = Len(segments)
                        /\ requests = answers + (IF answers > 1 THEN 1 ELSE 0)
                        /\ answers \in 0..config.maxPasses
    /\ step = "failed" => answers \in 0..Len(segments) /\ requests \in 0..(config.maxPasses + 1)

\* No request has been sent at first.
LEMMA PassInit == Init => PassInv
  BY DEF Init, PassInv

\* Each step keeps the count.
LEMMA PassNext == IInv /\ HeldInv /\ PassInv /\ [Next]_vars => PassInv'
<1> SUFFICES ASSUME IInv, HeldInv, PassInv, [Next]_vars PROVE PassInv'
  OBVIOUS
<1>0. /\ config.maxPasses \in Nat /\ segments \in Seq(Inside(docs)) /\ Len(segments) \in Nat
  BY DEF IInv, Shape, HeldInv
<1>1. CASE AddChunk \/ EndSegment \/ getOverlapChunks \/ StartSegment
  BY <1>1 DEF AddChunk, EndSegment, getOverlapChunks, StartSegment, PassInv
<1>2. CASE EndSegments
  <2>1. /\ step = "segment" /\ answers' = 0 /\ requests' = 0 /\ UNCHANGED config
        /\ step' \in {"failed", "panicked", "asking"}
        /\ step' = "asking" => config.maxPasses # 0 /\ WithRest # <<>>
        /\ segments' = IF Len(WithRest) > config.maxPasses
                     THEN SubSeq(WithRest, 1, config.maxPasses) ELSE WithRest
    BY <1>2 DEF EndSegments, PassInv
  <2>2. WithRest \in Seq(Intervals \cup Inside(docs) \cup {Current})
    BY <1>0 DEF WithRest
  <2> DEFINE w == WithRest
  <2> HIDE DEF w
  <2>3. Len(w) \in Nat /\ (w # <<>> => Len(w) # 0)
    BY <2>2 DEF w
  <2>4. Len(segments') \in Nat /\ Len(segments') <= config.maxPasses
        /\ (Len(w) # 0 /\ config.maxPasses # 0 => Len(segments') # 0)
    BY <1>0, <2>1, <2>2, <2>3 DEF w
  <2>5. step' = "asking" => Len(segments') \in 1..config.maxPasses
    BY <1>0, <2>1, <2>3, <2>4 DEF w
  <2> QED BY <1>0, <2>1, <2>4, <2>5 DEF PassInv
<1>3. CASE Pass
  <2>1. /\ step = "asking" /\ UNCHANGED <<config, segments>> /\ answers < Len(segments)
        /\ requests' = answers + 1
        /\ \/ answers' = answers + 1 /\ step' = "asking"
           \/ answers' = answers /\ step' = "failed"
        /\ Len(segments) \in 1..config.maxPasses /\ answers \in 0..Len(segments)
    BY <1>3 DEF Pass, PassInv
  <2> QED BY <1>0, <2>1 DEF PassInv
<1>4. CASE aggregateResults
  <2>1. /\ step = "asking" /\ UNCHANGED <<config, segments, answers>> /\ answers = Len(segments)
        /\ Len(segments) \in 1..config.maxPasses /\ requests = answers
        /\ step' \in {"done", "failed"}
        /\ \/ answers = 1 /\ requests' = answers
           \/ answers # 1 /\ requests' = answers + 1
    BY <1>4 DEF aggregateResults, SingleAnswer, PassInv
  <2> QED BY <1>0, <2>1 DEF PassInv
<1>5. CASE UNCHANGED vars
  BY <1>5 DEF vars, PassInv
<1> QED BY <1>1, <1>2, <1>3, <1>4, <1>5 DEF Next, segmentDocuments

\* A call that succeeds has an answer about every segment, from one request each, and
\* has had several put together by one more.
THEOREM SegmentsAnswered == Spec => []EverySegmentAnswered
<1>1. PassInv => EverySegmentAnswered
  BY DEF PassInv, EverySegmentAnswered
<1> QED BY <1>1, IInvInit, IInvNext, HeldInit, HeldNext, PassInit, PassNext, PTL DEF Spec

\* Segments stay within the documents, and no call sends more requests than passes
\* and one.
THEOREM MultiPassIsTyped == Spec => []TypeOK
<1>1. IInv /\ HeldInv /\ PassInv => TypeOK
  <2> SUFFICES ASSUME IInv, HeldInv, PassInv PROVE TypeOK
    OBVIOUS
  <2>1. /\ docs \in Documents /\ config \in Configs /\ docs \in Seq(Nat)
        /\ step \in {"segment", "overlap", "asking", "done", "failed", "panicked"}
        /\ next \in 1..(Len(docs) + 1) /\ first \in 1..next
        /\ segments \in Seq([first : 1..Len(docs), last : 1..Len(docs)])
        /\ tokens \in Nat /\ back \in 1..next
        /\ config.maxPasses \in Nat /\ Len(segments) \in Nat
    BY DocumentsAssumption DEF IInv, Shape, HeldInv, Inside
  <2>2. currentTokens \in Nat
    <3>1. next \in first..(Len(docs) + 1) /\ first \in 1..(Len(docs) + 1)
      BY <2>1
    <3> QED BY <2>1, <3>1, TokensAdd DEF HeldInv
  <2>3. answers \in 0..Len(segments) /\ requests \in 0..(config.maxPasses + 1)
    <3>0. /\ config.maxPasses \in Nat /\ Len(segments) \in Nat
          /\ step \in {"segment", "overlap", "asking", "done", "failed", "panicked"}
      BY <2>1
    <3>1. CASE step \in {"segment", "overlap", "panicked"}
      BY <3>0, <3>1 DEF PassInv
    <3>2. CASE step = "asking"
      <4>1. /\ requests = answers /\ answers \in 0..Len(segments)
            /\ Len(segments) \in 1..config.maxPasses
        BY <3>2 DEF PassInv
      <4> QED BY <3>0, <4>1
    <3>3. CASE step = "done"
      BY <3>0, <3>3 DEF PassInv
    <3>4. CASE step = "failed"
      BY <3>4 DEF PassInv
    <3> QED BY <3>0, <3>1, <3>2, <3>3, <3>4
  <2> QED BY <2>1, <2>2, <2>3 DEF TypeOK
<1> QED BY <1>1, IInvInit, IInvNext, HeldInit, HeldNext, PassInit, PassNext, PTL DEF Spec
=============================================================================
