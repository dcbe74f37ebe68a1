SPECIFICATION Spec
CONSTANTS
    u1 = u1
    u2 = u2
    e1 = e1
    e2 = e2
    Call = {c1, c2}
    Request = {r1, r2}
    Batch = {b1, b2, b3, b4}
    Player = {p1, p2, p3}
    None = None
    Threshold = 3
    OpenFor = 3
    RetryAfter = {0, 3}
CHECK_DEADLOCK FALSE
INVARIANTS ProbesAlone NamesBelong HoldsOff ShowsAsked BestComeOn NothingMoves
PROPERTIES LatestBinds BoardCatchesUp StatusCatchesUp
