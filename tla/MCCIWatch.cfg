SPECIFICATION FairSpec
CONSTANTS
    Runs = {1, 2}
    WorkflowOf <- OneWorkflow
    Names <- Three
    JobSets <- Shapes
    Projects <- OneProject
    JobOf <- TestJob
    PushCI = TRUE
    Budget = 3
    Grace = 1
    MinWait = 1
    RetryBudget = 1
    Rechecks = 1
    Fetches = 2
    MaxFaults = 1
    MaxMeddling = 1
INVARIANTS
    VerdictsStand
    WaitIsBounded
PROPERTIES
    WaitEnds
CHECK_DEADLOCK FALSE
