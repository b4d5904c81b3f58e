CONSTANTS
    MaxRestores = 2
    MaxSnapshots = 2
    MaxFaults = 1
    MaxDeletes = 0
    LiveLimit = 3
    Redaction = FALSE
    PersistentSchemas = TRUE
    Ephemeral = FALSE
    Canopy = FALSE
    MigrateTo = FALSE

SPECIFICATION FairSpec
INVARIANTS
    TypeOK
    CurrentIsActive
PROPERTIES
    Converges
