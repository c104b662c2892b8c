SPECIFICATION FairSpec
CONSTANTS
    Nodes <- TwoNodes
    ControlPlane <- NodeTwo
    MaxConcurrent = 1
    PauseOnFailure = FALSE
    ForceValues = {TRUE, FALSE}
    Cordoned <- NodeOne
    Workloads <- AllPods
    Targets <- NodeOne
    MaxRequests = 1
    MaxClears = 1
    MaxHandovers = 0
    MaxFaults = 1
    MaxEdits = 1
    CordonStates = {"requested"}
    Corruptions = {}
PROPERTIES
    LifecycleEnds
