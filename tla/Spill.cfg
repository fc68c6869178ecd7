SPECIFICATION FairSpec
CONSTANTS
    s1 = s1
    s2 = s2
    s3 = s3
    Spans = {s1, s2, s3}
    LineLen <- MCLineLen
    Faults = {"append", "torn", "save", "crash", "tear"}
    MaxFaults = 2
INVARIANTS
    PendingIsExact
    RestartIsExact
PROPERTIES
    FifoWhileClean
    EverySpanDrained
