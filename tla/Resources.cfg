SPECIFICATION MCSpec
CONSTANTS
    Parent = "p"
    Child = "c"
    MAX_OPEN_FILES = 2
    Opener = {"p"}
    Cap = 1
    Unit64k = 4
    Unit1M = 8
    Top = 24
    LibBase = 12
    StackBase = 20
    StackSize = 4
    Image <- MCImage
    Lens = {1, 3}
    Fixed = {8, 14}
    FileLen = 2
    MaxAllocs = 6
    Cols = 3
    Rows = 6
    Height = 2
    Digit = {"1", "7"}
    Byte = 16
    Word = 16
    MaxSeq = 6
INVARIANTS
     HandlesNamed MCMemoryServes 
PROPERTIES
    WaitEnds
CHECK_DEADLOCK FALSE
