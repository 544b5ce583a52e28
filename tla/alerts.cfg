\* Three frames of two people, one merged into the other
SPECIFICATION Spec
CONSTANTS
    known = known
    unknown = unknown
    once = once
    often = often
    f1 = f1
    f2 = f2
    f3 = f3
    ann = ann
    None = None
    Persons = {known, unknown}
    Alerts = {once, often}
    Frames = {f1, f2, f3}
    Users = {ann}
    Watching <- Watched
    Faces <- Seen
    MergePairs <- Pairs
    Limit <- Limits
    Cooling = {often}
    Dated = {once}
    MaxAborts = 1
    MaxResumes = 1
INVARIANTS
    TypeOK
    CountsAreExact
    FiresToItsLimit
PROPERTIES
    CooldownHolds
CHECK_DEADLOCK FALSE
