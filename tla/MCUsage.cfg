SPECIFICATION Spec
CONSTANTS
    Readers = {r1, r2}
    None = None
    MaxAge = 1
    RateLimitAge = 2
    SharedAge = 2
    Cooldown = 2
    MaxDelay = 1
    RetryAfters = {0, 1}
    Attempts = 2
    Recoveries = 1
    LockWait = 1
INVARIANTS
    TokenIsKept
PROPERTIES
    ProviderIsSpared
    AgeIsBounded
    ReadsReturn
CHECK_DEADLOCK FALSE
