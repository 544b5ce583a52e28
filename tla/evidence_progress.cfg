\* The queue drains and orphan embeddings are removed.
SPECIFICATION FairSpec
CONSTANTS
    f1 = f1
    f2 = f2
    ann = ann
    u1 = u1
    u2 = u2
    Frames = {f1, f2}
    Identities = {ann, u1}
    KnownPersons = {ann}
    Poison = {f2}
    MergePairs <- NoMerges
    BatchSize = 1
    PreservePersonHistory = TRUE
    MaxInterruptions = 1
    FailureThreshold = 1
    MaxFailures = 1
    None = None
PROPERTIES
    OrphansAreRemoved
    QueuedFramesOfLivePeopleSettle
CHECK_DEADLOCK FALSE
