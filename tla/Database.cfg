CONSTANTS
    Databases = {d1}
    Schemas = {s1}
    Columns = {c1}
    Configs = {{"readOnly"}, {"readOnly", "redaction"}, {"redaction", "persistentSchemas"}}
    MaxFaults = 2

SPECIFICATION FairSpec
INVARIANTS
    VersionHonest
    StageHonest
    ReadyIsReindexed
    AccessKept
    RedactedAsRecorded
PROPERTIES
    ComesUp
    RedactionGetsThrough
CHECK_DEADLOCK FALSE
