SPECIFICATION Spec
CONSTANTS
    Nodes <- TwoNodes
    ControlPlane <- TwoNodes
    MaxConcurrent = 2
    PauseOnFailure = TRUE
    ForceValues = {FALSE}
    Cordoned <- NodeTwo
    Workloads = {}
    Targets <- TwoNodes
    MaxRequests = 2
    MaxClears = 0
    MaxHandovers = 0
    MaxFaults = 1
    MaxEdits = 1
    CordonStates = {"requested"}
    Corruptions = {}
INVARIANTS
    TypeOK
    SlotLimit
    PauseRespected
    OperatorCordonKept
PROPERTIES
    ImplementsLifecycle
