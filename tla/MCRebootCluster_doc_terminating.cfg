SPECIFICATION Spec
CONSTANTS
    Nodes <- TwoNodes
    ControlPlane <- NodeTwo
    MaxConcurrent = 1
    PauseOnFailure = TRUE
    ForceValues = {FALSE}
    Cordoned = {}
    Workloads = {"managed"}
    Targets <- TwoNodes
    MaxRequests = 1
    MaxClears = 0
    MaxHandovers = 0
    MaxFaults = 0
    MaxEdits = 0
    CordonStates = {}
    Corruptions = {}
INVARIANTS
    TerminatingPodsAwaited
