CONSTANTS
    Restores = {r1, r2}
    Slow = {}
    Hollow = {r2}
    Targets = {r1, r2}
    Source = 1
    MaxRuns = 2
    MaxFaults = 1

SPECIFICATION Spec
INVARIANTS
    TypeOK
    ReportNamesRun
    AccountedOnce
    NotOverwritten
    MigrationAttributed
CHECK_DEADLOCK FALSE
