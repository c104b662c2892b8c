SPECIFICATION FairSpec
CONSTANTS
    Pods = {p1, p2}
    NoHolder = NoHolder
    RenewInterval = 1
    StaleAfter = 2
    MaxClock = 5
    MaxFaults = 2
INVARIANTS
    LeaseInv
    AtMostOneDecider
    DeciderHeldRecently
PROPERTIES
    NoStealing
    RenewTimeMonotone
    ImplementsElection
    DeadHolderReplaced
