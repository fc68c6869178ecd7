SPECIFICATION ShutdownSpec
CONSTANTS
    Spans = {s1, s2, s3}
    Malformed = {}
    LineLen <- MCLineLen
    MaxQueue = 1
    CommitRetries = 1
    HasSpill = TRUE
    HasJournal = TRUE
    MayFlush = FALSE
    MayStop = TRUE
    Faults = {}
    MaxFaults = 2
    Sentinel = Sentinel
    None = None
SYMMETRY Symmetry
INVARIANTS
    SpilledStaysInReach
CHECK_DEADLOCK FALSE
