\* Two workers and two jobs of one type.
SPECIFICATION Spec
CONSTANTS
    train1 = train1
    train2 = train2
    learn = learn
    training = training
    threshold = threshold
    Jobs = {train1, train2}
    JobTypes = {training, threshold}
    TypeOf <- Kinds
    TimedTypes = {threshold}
    Workers = {w1, w2}
    MaxDeaths = 2
    None = None
SYMMETRY Symmetry
INVARIANTS
    TypeOK
PROPERTIES
    LifecycleSpec
CHECK_DEADLOCK FALSE
