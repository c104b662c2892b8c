SPECIFICATION Spec
CONSTANTS
    Nodes <- TwoNodes
    ControlPlane = {}
    MaxConcurrent = 1
    PauseOnFailure = TRUE
    ForceValues = {TRUE}
    Cordoned = {}
    Workloads = {"orphan"}
    Targets <- NodeOne
    MaxRequests = 2
    MaxClears = 1
    MaxHandovers = 0
    MaxFaults = 1
    MaxEdits = 1
    CordonStates = {}
    Corruptions = {"exec"}
INVARIANTS
    DrainedBeforeReboot
    CompletedMeansOutage
    OneRebootPerRequest
