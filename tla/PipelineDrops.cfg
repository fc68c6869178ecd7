SPECIFICATION FairSpec
CONSTANTS
    Spans = {s1, s2, s3}
    Malformed = {}
    LineLen <- MCLineLen
    MaxQueue = 1
    CommitRetries = 1
    HasSpill = FALSE
    HasJournal = TRUE
    MayFlush = TRUE
    MayStop = TRUE
    Faults = {"journal"}
    MaxFaults = 1
    Sentinel = Sentinel
    None = None
INVARIANTS
    DropsAttestedFirst
PROPERTIES
    WorkerGetsThrough
CHECK_DEADLOCK FALSE
