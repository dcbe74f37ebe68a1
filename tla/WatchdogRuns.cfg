SPECIFICATION PartSpec
CONSTANTS
    r1 = r1
    r2 = r2
    Run = {r1}
    NoToken = NoToken
    Threshold = 3
    ClaimTtl = 2
    MutationTtl = 5
    Edit <- None
    Verdicts <- AnyVerdict
    Slow = {r1}
    Faults <- NoAnswer
    MaxFaults = 4
INVARIANTS PartTypeOK AlertsDiffer
PROPERTIES StreakIsEarned OperatorWins Announced FailsOver
