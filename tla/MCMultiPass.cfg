CONSTANTS
    Documents <- MCDocuments
    Configs <- MCConfigs
SPECIFICATION Spec
INVARIANTS Covers SegmentsArePacked OverlapIsKept EverySegmentAnswered
CHECK_DEADLOCK FALSE
