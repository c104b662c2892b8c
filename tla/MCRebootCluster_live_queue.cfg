SPECIFICATION FairSpec
CONSTANTS
    Nodes <- TwoNodes
    ControlPlane <- NodeTwo
    MaxConcurrent = 1
    PauseOnFailure = FALSE
    ForceValues = {TRUE}
    Cordoned = {}
    Workloads = {}
    Targets <- TwoNodes
    MaxRequests = 2
    MaxClears = 0
    MaxHandovers = 0
    MaxFaults = 0
    MaxEdits = 0
    CordonStates = {}
    Corruptions = {}
PROPERTIES
    ForcedRequestServed
