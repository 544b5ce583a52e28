\* Five autosaves, a failed fsync and a crash
SPECIFICATION Spec
CONSTANTS
    ann = ann
    k1 = k1
    auto = auto
    None = None
    Keys = {k1}
    Persons = {ann}
    PersonOf <- JustAnn
    Savers = {auto}
    MaxAutosaves = 5
    MaxVersion = 6
    MaxToggles = 0
    MaxFaults = 1
    MaxSyncFaults = 1
PROPERTIES
    PublishedIsKept
CHECK_DEADLOCK FALSE
