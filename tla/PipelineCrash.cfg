SPECIFICATION Spec
CONSTANTS
    Spans = {s1, s2, s3}
    Malformed = {}
    LineLen <- MCLineLen
    MaxQueue = 1
    CommitRetries = 1
    HasSpill = TRUE
    HasJournal = TRUE
    MayFlush = TRUE
    MayStop = TRUE
    Faults = {"crash", "tear", "commit", "fsync", "spill", "torn", "save"}
    MaxFaults = 2
    Sentinel = Sentinel
    None = None
SYMMETRY Symmetry
INVARIANTS
    NoDropForgotten
    RecordedOncePerFault
CHECK_DEADLOCK FALSE
