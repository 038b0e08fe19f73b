SPECIFICATION Spec
CONSTANTS
    Calls = {c1, c2}
    Atts <- MCAtts
    Size <- MCSize
    Declared <- MCDeclared
    Filename <- MCFilename
    InlineMax = 1
    SizeCap = 3
    Ceiling = 3
    Retention = 0
    MaxTries = 2
    MaxTime = 1
    MaxSweeps = 1
    MaxFaults = 1
INVARIANTS WithinCeiling PathHolds
PROPERTIES NeverOverwrites
SYMMETRY Symmetry
CHECK_DEADLOCK FALSE
