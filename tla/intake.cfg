\* Two events: one sent twice with feedback and once without images, one sent
\* with two images and again with one and feedback.
SPECIFICATION FairIntakeSpec
CONSTANTS
    a1 = a1
    a2 = a2
    b = b
    c = c
    d = d
    ea = ea
    eb = eb
    m1 = m1
    m2 = m2
    m3 = m3
    m4 = m4
    m5 = m5
    p1 = p1
    Requests = {a1, a2, b, c, d}
    Events = {ea, eb}
    EventOf <- Event
    ImagesOf <- Payload
    PipelineOf <- Camera
    WantsFeedback = {a1, a2, c}
    MaxEvents = 1
    MaxExpired = 1
    Images = {m1, m2, m3, m4, m5}
    Pipelines = {p1}
    Workers = {w1}
    MaxSize = 2
    BatchSize = 2
    MaxConcurrent = 1
INVARIANTS
    IntakeTypeOK
    PendingExact
    AcceptedNeverDropped
    TotalsAddUp
    DuplicateMeansAccepted
    RefusedIsRetryable
    QueuedOnce
    PendingIsUnderWay
PROPERTIES
    AcceptedImagesHandled
CHECK_DEADLOCK FALSE
