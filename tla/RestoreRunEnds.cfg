CONSTANTS
    Restores = {r1}
    Slow = {r1}
    Hollow = {}
    Targets = {r1}
    Source = 1
    MaxRuns = 2
    MaxFaults = 0

SPECIFICATION FairSpec
PROPERTIES
    RunEnds
CHECK_DEADLOCK FALSE
