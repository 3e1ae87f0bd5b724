SPECIFICATION Spec
CONSTANTS
    Forker = {f1, f2}
    Slot = {s1, s2}
    OldPids <- ThreeOld
    FirstLast = 3
    MaxPid = 6
    MaxTries = 4
    Drift = 2
    NoSlot = NoSlot
INVARIANTS
    PidsDiffer
