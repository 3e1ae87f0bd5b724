SPECIFICATION MCSpec
CONSTANTS
    Forker = {"f", "g"}
    Slot = {s1, s2}
    OldPids <- TwoOld
    FirstLast = 3
    MaxPid = 4
    MaxTries = 3
    Drift = 2
    NoSlot = NoSlot
    Others = {15}
    Id = {0, 1, 2}
    Mask = {0, 18}
    Files <- MCFiles
    Listers <- MCListers
    PidName = {"1", "2"}
    FdName = {"0"}
    Self = "1"
    Name = {"a", "b"}
    Lnk <- MCLnk
    Dest = {"C", "D"}
    Root = "C"
    Args <- MCArgs
    Place <- MCPlace
    LinkTo <- MCLinkTo
    MaxDepth = 3
    MaxPwd = 2
    MaxObjects = 2
    MaxMounts = 2
INVARIANTS
    MCTypeOK SkipsOne   PathsResolve
PROPERTIES
    AllocatesFreePid SigkillEnds WaitSeesStop SetsBothOrNone MountsAreStacks
CHECK_DEADLOCK FALSE
