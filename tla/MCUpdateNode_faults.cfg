SPECIFICATION FairSpec
CONSTANTS
    Versions <- TwoVersions
    Shipped = {1}
    Reissued = {}
    Broken = Broken
    Capacity = 2
    TargetFree = 1
    Preserve = 1
    Loaders = {"menu"}
    MaxFaults = 1
    None = None
    Unknown = Unknown
    Malformed = Malformed
    Empty = Empty
    Indexed = {2}
    MaxOccurrences = 2
    MaxEdits = 1
    MaxHands = 0
INVARIANTS
    TypeOK
PROPERTIES
    NoAutoRetry
    OneCheckPerOccurrence
    MalformedCorrected
    EligibleEnqueued
\* A host that has no kernel left stays down.
CHECK_DEADLOCK FALSE
