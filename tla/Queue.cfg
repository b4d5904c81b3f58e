CONSTANTS
    Replicas = {r1, r2}
    MaxConcurrent = 1
    MaxRestarts = 1
    Second = {}
    Ephemeral = {r2}
    Deletable = {r1}

SPECIFICATION FairSpec
INVARIANTS
    TypeOK
    WaitsOnce
PROPERTIES
    IdleSlotsHeal
    FleetNeverStalls
