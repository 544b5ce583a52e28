\* Two frames and a chain of merges; one frame is rejected by the database.
SPECIFICATION Spec
CONSTANTS
    f1 = f1
    f2 = f2
    ann = ann
    u1 = u1
    u2 = u2
    Frames = {f1, f2}
    Identities = {ann, u1, u2}
    KnownPersons = {ann}
    Poison = {f2}
    MergePairs <- Chain
    BatchSize = 2
    PreservePersonHistory = FALSE
    MaxInterruptions = 2
    FailureThreshold = 2
    MaxFailures = 2
    None = None
INVARIANTS
    TypeOK
    EvidenceWhole
    HalfOpenIsOneFailureFromOpen
    SelectedFramesAreOver
PROPERTIES
    LedgerSpec
CHECK_DEADLOCK FALSE
