SPECIFICATION FairSpec
CONSTANTS
    c1 = c1
    c2 = c2
    cli = cli
    d1 = d1
    i1 = i1
    n1 = n1
    n2 = n2
    Clients <- TwoClients
    Cli <- cli
    Disks <- OneDisk
    Images <- OneImage
    Names <- TwoNames
    System = System
    Blank = Blank
    Torn = Torn
    MaxFaults = 2
INVARIANTS
    JobInv
    OneDestructiveJob
    InstalledBoots
    TargetReleased
    MemberNamed
PROPERTIES
    JobsEnd
\* A worker's wizard is idle and its disk mounted: nothing is left to do.
CHECK_DEADLOCK FALSE
