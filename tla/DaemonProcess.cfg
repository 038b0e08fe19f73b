CONSTANTS
    MaxPid = 2
    MaxActs = 2
    MaxFaults = 1
    MaxStdio = 1
SPECIFICATION FairSpec
INVARIANTS ReadyIsReachable 
PROPERTIES NoPromptLoop LockCommandReaches ComesUp StopStops
CHECK_DEADLOCK FALSE
