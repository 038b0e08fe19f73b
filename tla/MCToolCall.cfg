SPECIFICATION HSpec
SYMMETRY CallSymmetry
CONSTANTS
    send = send
    list = list
    alice = alice
    mallory = mallory
    Calls = {c1, c2}
    Tools <- MCTools
    Pids <- MCPids
    Args <- MCArgs
    Requests <- MCSends
    SessionTools = {send}
    Policies <- MCPolicies
    MaxTime = 2
    MaxSession = 2
    MaxCrash = 0
INVARIANTS
    TypeOK 

    
CHECK_DEADLOCK FALSE
