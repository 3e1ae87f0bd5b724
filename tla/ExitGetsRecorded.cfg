SPECIFICATION FairSpec
CONSTANTS
    p1 = p1
    p2 = p2
    p3 = p3
    NoProc = NoProc
    InitProc = p1
    Proc = {p1, p2, p3}
    MaxPid = 5
    MaxTries = 4
    KillSigs <- NoKills
PROPERTIES
    ExitGetsRecorded
CHECK_DEADLOCK FALSE
