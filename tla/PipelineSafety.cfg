SPECIFICATION FairSpec
CONSTANTS
    Spans = {s1, s2, s3}
    Malformed = {s1}
    LineLen <- MCLineLen
    MaxQueue = 1
    CommitRetries = 1
    HasSpill = TRUE
    HasJournal = TRUE
    MayFlush = TRUE
    MayStop = FALSE
    Faults = {"commit", "spill", "journal"}
    MaxFaults = 2
    Sentinel = Sentinel
    None = None
INVARIANTS
    JoinCountsWork
    NoSpanVanishes
    FlushComplete
PROPERTIES
    IntakeSpec
    EverySpanSettles
    FlushReturnsAlways
