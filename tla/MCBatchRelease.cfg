SPECIFICATION MCSpec
CONSTANTS
    Order <- Two
    Bumps <- OneStep
    RootDocs = FALSE
    MaxVersion = 2
    MaxCommits = 8
    MaxStops = 2
    MaxDeeds = 1
INVARIANTS
    BatchIsSound
    TagsAreRecorded
PROPERTIES
    SettledStays
    BatchEnds
CHECK_DEADLOCK FALSE
