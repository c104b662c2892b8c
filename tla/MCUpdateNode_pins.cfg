SPECIFICATION Spec
CONSTANTS
    Versions <- ThreeVersions
    Shipped = {1, 2}
    Reissued = {}
    Broken = Broken
    Capacity = 2
    TargetFree = 1
    Preserve = 1
    Loaders = {"menu"}
    MaxFaults = 0
    None = None
    Unknown = Unknown
    Malformed = Malformed
    Empty = Empty
    Indexed = {2, 3}
    MaxOccurrences = 1
    MaxEdits = 1
    MaxHands = 1
INVARIANTS
    FitsPartition
PROPERTIES
    EnqueuedBootable
    PinKept
\* A host that has no kernel left stays down.
CHECK_DEADLOCK FALSE
