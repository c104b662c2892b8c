SPECIFICATION FairSpec
CONSTANTS
    p1 = p1
    p2 = p2
    Pods <- TwoPods
    Lists <- TestLists
    Graces <- TestGraces
    DefaultWindows <- Twelfth
    DefaultGrace = 5
    Times <- EdgeTimes
    Absent = Absent
    Invalid = Invalid
    Deleted = Deleted
    Nothing = Nothing
    None = None
    FirstYear = 2091
    LastYear = 2100
    FirstWeekday = 1
    MaxEdits = 2
    MaxFaults = 1
INVARIANTS
    ConfigInv
    WindowsExact
PROPERTIES
    ConfigFollowed
