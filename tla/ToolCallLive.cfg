SPECIFICATION HFairSpec
CONSTANTS
    send = send
    list = list
    alice = alice
    mallory = mallory
    Calls = {c1}
    Tools <- MCTools
    Pids <- MCPids
    Args <- MCArgs
    Requests <- MCRequests
    SessionTools = {send}
    Policies <- MCPolicies
    MaxTime = 2
    MaxSession = 2
    MaxCrash = 1
CHECK_DEADLOCK FALSE
PROPERTIES
    CallCompletes
