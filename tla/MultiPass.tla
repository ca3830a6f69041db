----------------------------- MODULE MultiPass -----------------------------
(***************************************************************************)
(* ExecuteMultiPass: the chunks of the documents are split into segments,  *)
(* each of which repeats the end of the one before, the router is asked    *)
(* about each segment in turn, and then to put the answers together.       *)
(*                                                                         *)
(* A segment is an interval of chunks: getOverlapChunks goes back from its *)
(* end one chunk at a time, and the next segment is what it went over and  *)
(* the next chunk.  A chunk is its number of tokens; prompts and answers   *)
(* are left out.                                                           *)
(***************************************************************************)
EXTENDS Sums

CONSTANTS Documents,    \* sequences of chunks, each its number of tokens
          Configs       \* MultiPassConfigs, all enabled

ASSUME DocumentsAssumption == Documents \subseteq Seq(Nat)
ASSUME ConfigsAssumption ==
    Configs \subseteq [segmentSize : Nat, overlapTokens : Nat, maxPasses : Nat]

VARIABLES docs,
          config,
          step,             \* where the call stands
          first, next,      \* the current segment is chunks first..next-1
          currentTokens,
          back,             \* overlapChunks of getOverlapChunks are back..next-1
          tokens,           \* the tokens counted there
          segments,         \* records of the first and last chunk
          answers,          \* how many segments the router answered about
          requests          \* how many requests the router was sent

current == <<first, next, currentTokens>>
overlap == <<back, tokens>>
vars    == <<docs, config, step, current, overlap, segments, answers, requests>>

Init == /\ docs \in Documents
        /\ config \in Configs
        /\ step = "segment"
        /\ first = 1 /\ next = 1
        /\ currentTokens = 0
        /\ back = 1 /\ tokens = 0
        /\ segments = <<>>
        /\ answers = 0
        /\ requests = 0

-----------------------------------------------------------------------------
(* segmentDocuments *)

Tokens(from, to) == SumOf(SubSeq(docs, from, to), [n \in Nat |-> n])

Current == [first |-> first, last |-> next - 1]

\* The next chunk does not fit any more, and there is a segment it would not fit into.
IsFull == currentTokens + docs[next] > config.segmentSize /\ first < next

AddChunk ==
    /\ step = "segment"
    /\ next <= Len(docs)
    /\ ~IsFull
    /\ currentTokens' = currentTokens + docs[next]
    /\ next' = next + 1
    /\ UNCHANGED <<docs, config, step, first, overlap, segments, answers, requests>>

\* A full segment is done, and the overlap is looked for from its end.
EndSegment ==
    /\ step = "segment"
    /\ next <= Len(docs)
    /\ IsFull
    /\ segments' = Append(segments, Current)
    /\ step' = "overlap"
    /\ back' = next /\ tokens' = 0
    /\ UNCHANGED <<docs, config, current, answers, requests>>

\* The loop of getOverlapChunks goes on (with a bug: only if the chunk is not too much).
WithinOverlap == back > first /\ tokens + docs[back - 1] <= config.overlapTokens
GoesBack      == back > first /\ tokens < config.overlapTokens

getOverlapChunks ==
    /\ step = "overlap"
    /\ GoesBack
    /\ back' = back - 1
    /\ tokens' = tokens + docs[back - 1]
    /\ UNCHANGED <<docs, config, step, current, segments, answers, requests>>

\* The tokens a new segment starts with (with a bug: as if there was no overlap).
NoTokens == 0
OverlapTokens == Tokens(back, next - 1)

\* The next segment is the overlap and the chunk that did not fit, whatever their size.
StartSegment ==
    /\ step = "overlap"
    /\ ~GoesBack
    /\ first' = back
    /\ currentTokens' = OverlapTokens + docs[next]
    /\ next' = next + 1
    /\ step' = "segment"
    /\ UNCHANGED <<docs, config, overlap, segments, answers, requests>>

\* What is left is the last segment (with a bug: it is forgotten).
AsTheyAre == segments
WithRest == IF first < next THEN Append(segments, Current) ELSE segments

\* All chunks are in segments, and those over MaxPasses are dropped.  The call
\* fails if there is none, and panics if none may be processed.
EndSegments ==
    /\ step = "segment"
    /\ next > Len(docs)
    /\ segments' = IF Len(WithRest) > config.maxPasses
                     THEN SubSeq(WithRest, 1, config.maxPasses) ELSE WithRest
    /\ step' = IF WithRest = <<>> THEN "failed"
               ELSE IF config.maxPasses = 0 THEN "panicked" ELSE "asking"
    /\ UNCHANGED <<docs, config, current, overlap, answers, requests>>

-----------------------------------------------------------------------------
(* Passes *)

\* The router is asked about the next segment; an error ends the call.
Pass == /\ step = "asking"
        /\ answers < Len(segments)
        /\ requests' = requests + 1
        /\ \/ answers' = answers + 1 /\ UNCHANGED step
           \/ step' = "failed" /\ UNCHANGED answers
        /\ UNCHANGED <<docs, config, current, overlap, segments>>

\* A single answer is the result (with a bug: whatever their number).
AnyNumber == answers >= 1
SingleAnswer == answers = 1

aggregateResults ==
    /\ step = "asking"
    /\ answers = Len(segments)
    /\ IF SingleAnswer
         THEN step' = "done" /\ UNCHANGED requests
         ELSE step' \in {"done", "failed"} /\ requests' = requests + 1
    /\ UNCHANGED <<docs, config, current, overlap, segments, answers>>

segmentDocuments == \/ AddChunk \/ EndSegment \/ getOverlapChunks \/ StartSegment
                    \/ EndSegments

Next == segmentDocuments \/ Pass \/ aggregateResults

Spec == Init /\ [][Next]_vars

-----------------------------------------------------------------------------
(* Properties *)

\* Type invariant.
TypeOK ==
    /\ docs \in Documents
    /\ config \in Configs
    /\ step \in {"segment", "overlap", "asking", "done", "failed", "panicked"}
    /\ next \in 1..(Len(docs) + 1)
    /\ first \in 1..next
    /\ currentTokens \in Nat
    /\ back \in 1..next
    /\ tokens \in Nat
    /\ segments \in Seq([first : 1..Len(docs), last : 1..Len(docs)])
    /\ answers \in 0..Len(segments)
    /\ requests \in 0..(config.maxPasses + 1)

\* The segments cover the documents: they start with the first chunk, leave no gap,
\* each goes on beyond the one before, and together they reach the last chunk
\* unless MaxPasses cut them short.
Covers ==
    /\ segments # <<>> => segments[1].first = 1
    /\ \A k \in 1..(Len(segments) - 1) :
          /\ segments[k].last < segments[k + 1].last
          /\ segments[k + 1].first <= segments[k].last + 1
    /\ step \in {"asking", "done"} =>
          \/ Len(segments) = config.maxPasses
          \/ segments[Len(segments)].last = Len(docs)

\* The running total, which an overlap resets, is right, so a segment ends only
\* when its next chunk does not fit; and one is over its size only by an overlap
\* and one more chunk, or is a single chunk.
Size(s) == Tokens(s.first, s.last)

SegmentsArePacked ==
    /\ currentTokens = Tokens(first, next - 1)
    /\ \A k \in 1..(Len(segments) - 1) :
          Size(segments[k]) + docs[segments[k].last + 1] > config.segmentSize
    /\ \A k \in DOMAIN segments :
          Size(segments[k]) > config.segmentSize =>
              segments[k].last = 1 + (IF k = 1 THEN 0 ELSE segments[k - 1].last)

\* What stands at the end of a segment is seen again at the start of the next one: at
\* least OverlapTokens of it, or all of it, and not one chunk more than that takes,
\* however many chunks have no tokens or more than that.
OverlapIsKept ==
    \A k \in 1..(Len(segments) - 1) :
        LET from == segments[k + 1].first
            end  == segments[k].last
        IN  /\ from = segments[k].first \/ Tokens(from, end) >= config.overlapTokens
            /\ from <= end => Tokens(from + 1, end) < config.overlapTokens

\* A call that succeeds has asked about every segment once, and once more if
\* there are several answers to put together.
EverySegmentAnswered ==
    step = "done" => /\ answers = Len(segments)
                     /\ requests = answers + (IF answers > 1 THEN 1 ELSE 0)
=============================================================================
