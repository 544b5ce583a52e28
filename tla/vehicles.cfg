\* One event delivered twice, two workers, one reviewer
SPECIFICATION FairSpec
CONSTANTS
    first = first
    again = again
    car = car
    truck = truck
    ann = ann
    w1 = w1
    w2 = w2
    p1 = p1
    None = None
    Deliveries = {first, again}
    Sightings = {car, truck}
    Rows <- Repeated
    EventOf <- OneEvent
    Workers = {w1, w2}
    Reviewers = {ann}
    Plates = {p1}
    MaxAttempts = 2
    MaxRetries = 1
    MaxReviews = 1
INVARIANTS
    TypeOK
    EventsAreWhole
    AnsweredIsStored
    OneResult
    AttemptsAreBounded
    VerdictStands
PROPERTIES
    DecidedAsShown
    AcceptedAreSettled
CHECK_DEADLOCK FALSE
