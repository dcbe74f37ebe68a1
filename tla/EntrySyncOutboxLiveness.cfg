CONSTANTS
    Entry = {e1}
    Token = {t1, t2}
    Client = {}
    NoToken = NoToken
    Never = Never
    LeaseTicks = 1
    Retention = 1
    Backoff <- MCBackoff
    ContractDelay = 2
    RetryAfter = {0}
    BatchSize = 1
    MaxAttempts = 2
    AttemptsCap = 2
    MaxCallAge = 1
    MaxAsked = 2
SPECIFICATION FairSpec
PROPERTIES RequestResolved ParkedUntilAsked KeepsPromise
CHECK_DEADLOCK FALSE
