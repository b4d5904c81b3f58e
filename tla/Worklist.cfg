CONSTANTS
    Ids = {"upgrade", "schemas"}
    Building = {"schemas"}
    Supported = {"upgrade", "schemas"}
    Versions = {1, 2}
    MaxSnapshots = 2
    MaxChanges = 4
    MaxFaults = 1

SPECIFICATION FairSpec
INVARIANTS
    TypeOK
PROPERTIES
    WantedNotTornDown
    BuildKeepsVersion
    OfferNotWithdrawn
    Synchronises
