SPECIFICATION PartSpec
CONSTANTS
    e3 = e3
    Entry = {e1, e2}
    LastGameweek = 2
    MaxGen = 2
    Retries = 2
    Actions = {"submit", "gameweek", "refresh"}
    MaxActions = 3
    None = None
SYMMETRY Symmetric
INVARIANTS PaintedIsSelected
PROPERTIES ScoreNeverBack PageLoadEnds PageCatchesUp
CHECK_DEADLOCK FALSE
