CONSTANTS
    Ticks = 12
    Poll = 2
    Late = 1
    Waits = {0, 1, 3, 5}
    PerSec = 4
    NsPerSec = 40
    Freq = 12
    MaxTime = 26
SPECIFICATION TimingSpec
CHECK_DEADLOCK FALSE
INVARIANT WaitsForever
