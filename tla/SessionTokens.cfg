CONSTANTS
    MaxUid = 2
    MaxGen = 2
    MaxActs = 3
    MaxFaults = 1
SPECIFICATION Spec
CHECK_DEADLOCK FALSE
INVARIANTS
    
    StoredPairIsCurrent
    AbandonedIsRevoked
