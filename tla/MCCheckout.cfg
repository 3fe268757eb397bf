SPECIFICATION MCSpec
CONSTANTS
    scoped = scoped
    other = other
    a1 = a1
    a2 = a2
    b1 = b1
    A = A
    B = B
    Nobody = Nobody
    File <- TwoFiles
    Scope <- OneScoped
    Hazards = {"crash", "restore"}
    MaxCommits = 4
    MaxEdits = 2
INVARIANTS
    EditsKept
    FilesFollowBranch
PROPERTIES
    MovesAtOnce
    KeepsPromise
    WaitsEnd
CHECK_DEADLOCK FALSE
