SPECIFICATION MCSpec
CONSTANTS
    PageSize = 4
    Pages = 3
    Ticks = 12
    Poll = 2
    Late = 1
    Waits = {0, 1, 3, 5}
    PerSec = 4
    NsPerSec = 40
    Freq = 12
    MaxTime = 26
    Client = {1, 2}
    Keys <- MCKeys
    Flags = {{"ISIG"}, {"INLCR", "ECHO"}}
    Cap = 1
    ReqCap = 1
    MaxKeys = 2
    Gs = {0, 1}
    CmdLines <- MCCmdLines
    Dirs <- MCDirs
    MaxArgs = 2
    Drives <- MCDrives
INVARIANTS
    MCTypeOK MovesEveryByte  PipesMatch  CallResults
    CommandLineObeyed
PROPERTIES
    NeverCrosses ClockOrdered 
CHECK_DEADLOCK FALSE
