SPECIFICATION Spec
CONSTANTS
    Sha = {s1, s2, s3}
    None = None
    Kinds = {"stage", "deploy", "activate", "cleanup"}
    Overlap = FALSE
    MaxFails = 1
    MaxKills = 0
PROPERTIES SuccessIsServed
CHECK_DEADLOCK FALSE
