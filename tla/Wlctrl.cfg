SPECIFICATION FairSpec
CONSTANTS
    Ids = {i1, i2}
    Titles = {"a", "b"}
    NoTitle = "none"
    MaxWindows = 2
    MaxChanges = 1
    Actions = {"list", "activate", "close"}
    Targets <- MCTargets
INVARIANTS ExitTrue DoneBeforeExit
PROPERTY Finishes
CHECK_DEADLOCK FALSE
