CONSTANTS
    MaxRestores = 2
    MaxSnapshots = 2
    MaxFaults = 1
    MaxDeletes = 1
    LiveLimit = 1
    Redaction = FALSE
    PersistentSchemas = FALSE
    Ephemeral = TRUE
    Canopy = TRUE
    MigrateTo = TRUE

SPECIFICATION Spec
INVARIANTS
    LiveRestoresBounded
PROPERTIES
    VerifiedNotRepeated
    ReportedUnlessFault
