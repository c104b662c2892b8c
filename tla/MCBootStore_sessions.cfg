SPECIFICATION StoreSpec
CONSTANTS
    Versions <- FourVersions
    Shipped = {1}
    Reissued = {1}
    Broken = Broken
    Capacity = 3
    TargetFree = 1
    Preserve = 1
    Loaders = {"menu", "rpi"}
    MaxFaults = 1
INVARIANTS
    StoreTypeOK
    RunningKernelKept
    DefaultHasKernel
    DefaultWholeUnlessCut
    ConfigBrokenOnlyByFault
\* A host that has no kernel left stays down.
CHECK_DEADLOCK FALSE
