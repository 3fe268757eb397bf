SPECIFICATION Spec
CONSTANTS
    t1 = t1
    t2 = t2
    Primary = t1
    MaxVersion = 2
    Tags <- TwoTags
    Workspace = TRUE
    PushCI = TRUE
    ForeignKinds <- AllForeign
    MaxForeign = 1
    MaxCommits = 6
    Faults <- CrashFaults
    MaxFaults = 2
INVARIANTS
    NothingUndescribed
    OneStoryUnlessReopened
    NeverReleasedStays
    DiscardLeavesNothing
    TagHasBump
    NoHopelessWait
CHECK_DEADLOCK FALSE
