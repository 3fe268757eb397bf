SPECIFICATION Spec
CONSTANTS
    Versions <- TwoVersions
    Born <- BornAt
    Periods <- TwoPeriods
    Initial = 3
    Firsts = {1}
    Clones <- LacksOne
    MaxWork = 4
    MaxGen = 2
    MaxOthers = 0
    MaxStops = 1
    MaxWaits = 1
    MaxMishaps = 2
    Kills = FALSE
PROPERTIES
    FinishedByItsScrub
CHECK_DEADLOCK FALSE
