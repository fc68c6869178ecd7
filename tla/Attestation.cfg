SPECIFICATION AttestationSpec
CONSTANTS
    Kinds = {FALSE, TRUE}
    Shards = 2
    Callers = {caller}
    Scheduler = scheduler
    MaxEvents = 2
    MaxFailures = 1
    Torn = Torn
    Nothing = Nothing
INVARIANTS
    NoEquivocation
    StoredStays
PROPERTIES
    CommitsGetAttested
CHECK_DEADLOCK FALSE
