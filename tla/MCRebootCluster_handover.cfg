SPECIFICATION Spec
CONSTANTS
    Nodes <- TwoNodes
    ControlPlane = {}
    MaxConcurrent = 1
    PauseOnFailure = TRUE
    ForceValues = {FALSE}
    Cordoned = {}
    Workloads = {}
    Targets <- TwoNodes
    MaxRequests = 2
    MaxClears = 0
    MaxHandovers = 1
    MaxFaults = 0
    MaxEdits = 0
    CordonStates = {}
    Corruptions = {}
PROPERTIES
    ImplementsRelaxedLifecycle
