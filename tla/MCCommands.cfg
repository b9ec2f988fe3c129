SPECIFICATION Spec
CONSTANTS
    j1 = j1
    d1 = d1
    q1 = q1
    Journaled = {j1}
    Direct = {d1}
    Reads = {q1}
    MaxFaults = 2
    MaxOpen = 1
INVARIANTS
    OutcomeIsTrue
PROPERTIES
    GenerationsAdvance
    CommandsFinish
CHECK_DEADLOCK FALSE
