SPECIFICATION Spec
CONSTANTS
    Built = {s1, s2, s3}
    None = None
SYMMETRY Symmetric
INVARIANTS TypeOK LinksLead SettledIsConsistent SplitIsSame
PROPERTIES SuccessIsServed FailsClosed HeadIsReleased
CHECK_DEADLOCK FALSE
