CONSTANTS
    MaxRestores = 3
    MaxSnapshots = 3
    MaxFaults = 0
    MaxDeletes = 0
    LiveLimit = 3
    Redaction = FALSE
    PersistentSchemas = TRUE
    Ephemeral = FALSE
    Canopy = FALSE
    MigrateTo = FALSE

SPECIFICATION Spec
PROPERTIES
    SchemasCarried
