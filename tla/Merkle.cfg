SPECIFICATION TreeSpec
CONSTANTS
    a = a
    b = b
    r1 = r1
    r2 = r2
    r3 = r3
    r4 = r4
    r5 = r5
    r6 = r6
    None = None
    Data <- MCData
    Rest <- MCRest
    FreeLeaves = 3
    MaxExhaustive = 5
    MaxProof = 3
INVARIANTS
    RootAgrees
    InclusionBinds
    ConsistencyBinds
    GoAgrees
CHECK_DEADLOCK FALSE
