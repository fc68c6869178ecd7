SPECIFICATION Spec
CONSTANTS
    Builtins <- MCBuiltins
    Templates <- MCTemplates
    CrosswalkId = "eu-ai-act"
    Origin = Origin
    Key = Key
    MaxIds = 2
    MaxEvents = 3
    MaxFaults = 1
    Null = Null
    Torn = Torn
    Absent = Absent
INVARIANTS
    ReportsVerify
    VerdictsFollow
    AcceptedIsGenuine
    PacksInOrder
PROPERTIES
    CommitsGetReported
CHECK_DEADLOCK FALSE
