SPECIFICATION PartSpec
CONSTANTS
    o1 = o1
    o2 = o2
    n1 = n1
    OpenId = {o1, o2}
    UnionId = {n1}
    Identity <- Moved
    User = {u1, u2}
    Device = {d1, d2}
    Code = {c1, c2}
    Entry = {e1, e2}
    Req = {r1, r2}
    MaxAttempts = 2
    None = None
    Absent = Absent
SYMMETRY Symmetric
INVARIANTS GuessesBounded LinkIsMutual SessionFollowsLink NoDeadlock
PROPERTIES LinkNeedsCode OnlyAChoicePrefersWeb KeepsContract
