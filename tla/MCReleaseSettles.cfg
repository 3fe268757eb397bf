SPECIFICATION FairSpec
CONSTANTS
    t1 = t1
    t2 = t2
    Primary = t1
    MaxVersion = 2
    Tags <- TwoTags
    Workspace = FALSE
    PushCI = TRUE
    ForeignKinds <- NoForeign
    MaxForeign = 0
    MaxCommits = 6
    Faults <- MostFaults
    MaxFaults = 3
INVARIANTS
    TagVerified
    StepsAreTrue
PROPERTIES
    Settles
CHECK_DEADLOCK FALSE
