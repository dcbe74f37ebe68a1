SPECIFICATION ReseedSpec
CONSTANTS
    Entry = {e1, e2}
    LastGameweek = 1
    MaxGen = 1
    Retries = 0
    Actions = {"submit"}
    MaxActions = 2
    None = None
PROPERTIES SubmittedEntryLoads
CHECK_DEADLOCK FALSE
