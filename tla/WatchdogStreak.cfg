SPECIFICATION Spec
CONSTANTS
    Run = {r1}
    NoToken = NoToken
    Threshold = 3
    ClaimTtl = 2
    MutationTtl = 5
    Edit <- None
    Verdicts <- AnyVerdict
    Slow = {r1}
    Faults <- Unreachable
    MaxFaults = 1
PROPERTIES ThreeInARow
