SPECIFICATION FairSpec
CONSTANTS
    Pinned = 1
    Global = 1
    Extra = 1
    Observe = 2
    Abandon = 3
    Stall = 5
    Indexes = 2
    MaxFaults = 3
PROPERTIES
    MovingNotFailed
    WaitEnds
