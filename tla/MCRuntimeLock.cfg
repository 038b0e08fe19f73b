SPECIFICATION HFairSpec
CONSTANTS
    c1 = c1
    Calls = {c1}
    Sig = Sig
    NoOne = NoOne
    Cooldown = 1
    IdleAfter = 1
    SigCap = 2
    MaxTime = 1
    MaxSession = 2
INVARIANTS
    TypeOK UnlockedIsUsable NoSpareSession
PROPERTIES
    NoNagging ResumedCallIsFresh Refinement CallReturns LockSignalServed
