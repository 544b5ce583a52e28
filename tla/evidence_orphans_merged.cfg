\* An orphan row on a merged identity.
SPECIFICATION CleanerFairSpec
CONSTANTS
    f1 = f1
    f2 = f2
    ann = ann
    u1 = u1
    u2 = u2
    Frames = {f1, f2}
    Identities = {ann, u1}
    KnownPersons = {ann}
    Poison = {}
    MergePairs <- UnknownIntoKnown
    BatchSize = 2
    PreservePersonHistory = TRUE
    MaxInterruptions = 0
    FailureThreshold = 2
    MaxFailures = 2
    None = None
PROPERTIES
    OrphansAreRemoved
CHECK_DEADLOCK FALSE
