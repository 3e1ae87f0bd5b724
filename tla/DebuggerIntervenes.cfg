SPECIFICATION KernelFair
CONSTANTS
    Sig <- StopSig
    Actions <- StopActions
    Masks <- StopMasks
    MaxDepth = 1
PROPERTY DebuggerIntervenes
CHECK_DEADLOCK FALSE
