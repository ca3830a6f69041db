---------------------------- MODULE MCMultiPass ----------------------------
(* Up to five chunks of no to four tokens, in segments of three tokens: a    *)
(* chunk may fill a segment, or be larger than one.                          *)
EXTENDS MultiPass

MCDocuments == BoundedSeq({0, 1, 2, 4}, 5)

MCConfigs == [segmentSize : {3}, overlapTokens : {0, 1, 2, 4}, maxPasses : {0, 1, 2, 5}]
=============================================================================
