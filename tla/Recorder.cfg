SPECIFICATION RecorderSpec
CONSTANTS
    Contexts = {c1, c2}
    Scopes <- MCScopes
    Operations <- MCOperations
    Principal <- MCPrincipal
    Reader = c2
    Key = Key
    Spans <- MCSpans
    Imported <- MCImported
    HasVault = TRUE
    Pricing <- MCPricing
    Float = Float
    Floats = {Float}
    Nobody = Nobody
    Null = Null
    Origin = Origin
    MaxIds = 1
    Loads <- MCLoads
    MaxDepth = 2
    MaxFailures = 1
INVARIANTS
    VaultAnswers
    ScopesHeld
    RootsLead
CHECK_DEADLOCK FALSE
