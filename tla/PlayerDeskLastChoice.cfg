SPECIFICATION Spec
CONSTANTS
    Player = {p1, p2, p3}
    MaxSteps = 3
    None = None
CHECK_DEADLOCK FALSE
INVARIANT LastChoiceShown
