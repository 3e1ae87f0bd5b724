SPECIFICATION MCSpec
CONSTANTS
    Sig <- MCSig
    Actions <- MCActions
    Masks <- MCMasks
    MaxDepth = 3
    Pid = {1, 2, 3}
    Group = {2}
    Kinds = {"file", "dir", "reader", "writer", "null", "random", "static", "console"}
    MaxLen = 2
    MaxPos = 9
    Dword = 8
    Offsets <- MCOffsets
    Entries = 3
    Tid = {1, 2}
    First = 2
    Max_ = 5
    Base = {5, 14}
    Limit = {20}
    PageSize = 4
    LastByte = 15
    DwordSize = 32
INVARIANTS
    MCTypeOK BaseMaskRestored NoDirectReentry  ResultsHonest
    ListsAll 
CHECK_DEADLOCK FALSE
