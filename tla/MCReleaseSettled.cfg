SPECIFICATION Spec
CONSTANTS
    t1 = t1
    t2 = t2
    Primary = t1
    MaxVersion = 1
    Tags <- OneTag
    Workspace = FALSE
    PushCI = TRUE
    ForeignKinds <- AllForeign
    MaxForeign = 2
    MaxCommits = 6
    Faults <- Crashes
    MaxFaults = 2
INVARIANTS
    OneStory
CHECK_DEADLOCK FALSE
