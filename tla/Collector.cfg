SPECIFICATION CollectorSpec
CONSTANTS
    Requests = {r1}
    Contents <- MCContents
    Tokens <- MCTokens
    Nobody = Nobody
    Token = Token
    WrongToken = WrongToken
    HasBackend = TRUE
    Malformed = Malformed
    MaxAttempts = 2
INVARIANTS
    ForkIsWhole
PROPERTIES
    Transparent
CHECK_DEADLOCK FALSE
