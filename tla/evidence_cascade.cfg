\* Two frames of one new person; the first is compensated, or left to
\* reconciliation.  Both orders of frames are alike.
SPECIFICATION Spec
CONSTANTS
    f1 = f1
    f2 = f2
    ann = ann
    u1 = u1
    u2 = u2
    Frames = {f1, f2}
    Identities = {ann, u1}
    KnownPersons = {ann}
    Poison = {}
    MergePairs <- NoMerges
    BatchSize = 2
    PreservePersonHistory = TRUE
    MaxInterruptions = 0
    FailureThreshold = 2
    MaxFailures = 2
    None = None
SYMMETRY FrameSymmetry
PROPERTIES
    ErasureSparesOtherFrames
CHECK_DEADLOCK FALSE
