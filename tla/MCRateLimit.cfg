SPECIFICATION RLSpec
CONSTANTS
    Keys = {k1, k2}
    Limits <- MCLimits
    Unlimited = Unlimited
    One = 2
    Sec = 2
    MaxTicks = 3
    MaxRestarts = 2
    MaxFaults = 1
INVARIANTS WithinBudget
SYMMETRY KeySymmetry
