SPECIFICATION Spec
CONSTANTS
    Run = {r1}
    NoToken = NoToken
    Threshold = 3
    ClaimTtl = 2
    MutationTtl = 5
    Edit <- None
    Verdicts <- FailingOrHealthy
    Slow = {r1}
    Faults <- AnswerLost
    MaxFaults = 1
PROPERTIES ThreeSinceHealthy
