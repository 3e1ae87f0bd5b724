SPECIFICATION Spec
CONSTANTS
    p1 = p1
    p2 = p2
    p3 = p3
    p4 = p4
    NoProc = NoProc
    InitProc = p1
    Proc = {p1, p2, p3, p4}
    MaxPid = 3
    MaxTries = 4
    KillSigs <- NoKills
SYMMETRY OthersAlike
INVARIANTS
    TypeOK
    UniquePids
CHECK_DEADLOCK FALSE
