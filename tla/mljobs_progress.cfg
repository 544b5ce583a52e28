\* The deployed topology: one worker.  Processes may hang.
SPECIFICATION FairSpec
CONSTANTS
    train1 = train1
    train2 = train2
    learn = learn
    training = training
    threshold = threshold
    Jobs = {train1, learn}
    JobTypes = {training, threshold}
    TypeOf <- Kinds
    TimedTypes = {threshold}
    Workers = {w1}
    MaxDeaths = 1
    None = None
INVARIANTS
    OneProcessAtATime
PROPERTIES
    ClaimedJobsEnd
    CancelledJobsEnd
    WorkersAreFreed
CHECK_DEADLOCK FALSE
