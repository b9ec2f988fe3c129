SPECIFICATION Spec
CONSTANTS
    Missions = {m1, m2}
    Foreign = soak
    None = None
    MaxTarget = 2
    MaxCycles = 2
    MaxFaults = 1
    Keep = 2
SYMMETRY Symmetry
INVARIANTS
    
    LedgerIsTruthful
CHECK_DEADLOCK FALSE
