CONSTANTS
    Entry = {e1}
    Token = {t1, t2}
    Client = {c1}
    NoToken = NoToken
    Never = Never
    LeaseTicks = 1
    Retention = 2
    Backoff <- MCBackoff
    ContractDelay = 2
    RetryAfter = {0, 2}
    BatchSize = 2
    MaxAttempts = 2
    AttemptsCap = 2
    MaxCallAge = 2
    MaxAsked = 2
SPECIFICATION Spec
SYMMETRY TokenSymmetry
INVARIANTS DeliveredIsFresh NoLostRequest QueuedMeansAccepted ParkedIsVisible
CHECK_DEADLOCK FALSE
