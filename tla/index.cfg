\* One person with one vector; every kind of fault once
SPECIFICATION FairSpec
CONSTANTS
    ann = ann
    k1 = k1
    auto = auto
    None = None
    Keys = {k1}
    Persons = {ann}
    PersonOf <- JustAnn
    Savers = {auto}
    MaxAutosaves = 1
    MaxVersion = 6
    MaxToggles = 1
    MaxFaults = 1
    MaxSyncFaults = 1
INVARIANTS
    TypeOK
    PurgedStaysOut
    DestroyedUnderJournal
    CurrentIsWhole
PROPERTIES
    IndexConverges
    MaintenanceEnds
CHECK_DEADLOCK FALSE
