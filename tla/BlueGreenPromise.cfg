CONSTANTS
    MaxRestores = 3
    MaxSnapshots = 2
    MaxFaults = 0
    MaxDeletes = 0
    LiveLimit = 3
    Redaction = TRUE
    PersistentSchemas = TRUE
    Ephemeral = FALSE
    Canopy = FALSE
    MigrateTo = FALSE

SPECIFICATION Spec
INVARIANTS
    ServedIsUpUnlessFault
    OneRestorePerSnapshot
    MigrationSourceKept
PROPERTIES
    FailedRedactionHolds
    FailedMigrationHolds
    KeepsPromise
