\* A person is deleted while a frame of hers is queued.
SPECIFICATION FlusherFairSpec
CONSTANTS
    f1 = f1
    f2 = f2
    ann = ann
    u1 = u1
    u2 = u2
    Frames = {f1, f2}
    Identities = {ann}
    KnownPersons = {ann}
    Poison = {}
    MergePairs <- NoMerges
    BatchSize = 1
    PreservePersonHistory = TRUE
    MaxInterruptions = 0
    FailureThreshold = 2
    MaxFailures = 2
    None = None
PROPERTIES
    QueuedFramesSettle
CHECK_DEADLOCK FALSE
