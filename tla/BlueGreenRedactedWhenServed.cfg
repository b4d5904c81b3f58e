CONSTANTS
    MaxRestores = 2
    MaxSnapshots = 2
    MaxFaults = 0
    MaxDeletes = 0
    LiveLimit = 3
    Redaction = TRUE
    PersistentSchemas = FALSE
    Ephemeral = FALSE
    Canopy = FALSE
    MigrateTo = FALSE

SPECIFICATION Spec
INVARIANTS
    RedactedWhenServed
