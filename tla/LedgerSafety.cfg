SPECIFICATION FairSpec
CONSTANTS
    Events = {e1, e2}
    Writers = {w1, w2}
    Faults = {"write", "torn", "fsync", "crash", "tear", "heal"}
    MaxFaults = 3
    MaxLines = 4
    None = None
INVARIANTS
    HeadsExtend
    AckedKept
    ReadsAgree
    OffsetsAgree
PROPERTIES
    LogSpec
    Reopens
\* A line with a garbled record keeps every process from opening the ledger.
CHECK_DEADLOCK FALSE
