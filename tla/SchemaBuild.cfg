CONSTANTS
    MaxRestores = 2
    BuildAttempts = 3
    MaxFaults = 2
    MaxDeletes = 1

SPECIFICATION FairSpec
INVARIANTS
    TypeOK
    RegisteredIsOwn
    ReportCarriesBuild
PROPERTIES
    LostSchemaRebuilt
    BuildSettles

CHECK_DEADLOCK FALSE
